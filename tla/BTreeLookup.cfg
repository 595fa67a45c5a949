CONSTANTS
  Order = 4
  Key = {1, 2, 3, 4, 5, 6}
  Value = {1, 2}
  Loaded <- New
  PathPrefixes = {}
  MaxNodes = 7
SPECIFICATION Spec
INVARIANT FindIsExact
