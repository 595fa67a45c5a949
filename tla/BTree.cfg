CONSTANTS
  Order = 4
  Key = {3, 7, 8, 9, 10, 12}
  Value = {1, 2}
  Loaded <- NewOrGrown
  PathPrefixes <- SomePrefixes
  MaxNodes = 8
SPECIFICATION Spec
INVARIANTS
  ScanSorted
  SizeIsEntries
  FindNeverStale
  LostAreSeparators
  PrefixScanExact
