CONSTANTS
  Process = {p, q}
  Creator = {q}
  Path = {1, 2}
  Content = {a}
  None = None
  MaxItems = 3
  MaxCalls = 3
  MaxFaults = 0
SPECIFICATION Spec
INVARIANTS
  WriterExcludesReaders
PROPERTIES
  OpenArchiveUnmodified
