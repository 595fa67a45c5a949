CONSTANTS
  Process = {p}
  Creator = {}
  Path = {1, 2}
  Content = {a, b}
  None = None
  MaxItems = 3
  MaxCalls = 4
  MaxFaults = 2
SPECIFICATION Spec
INVARIANTS
  ArchiveComplete
  OldOrNew
  TmpRemoved
PROPERTIES
  CallsReturn
