CONSTANTS
  small = small
  large = large
  p = p
  q = q
  r = r
  Path = {p, q, r}
  Rank <- MCRank
  Content = {small, large}
  Payload <- MCPayload
  NoEntry = NoEntry
  Capacity = 15
  MaxFaults = 1
SPECIFICATION FaultSpec
INVARIANTS
  KeptFilesSurvive
  KillLeavesOldOrNew
CONSTRAINT OneInstance
