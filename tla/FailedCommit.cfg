CONSTANTS
  small = small
  large = large
  p = p
  q = q
  r = r
  Path = {p, q}
  Rank <- MCRank
  Content = {small, large}
  Payload <- MCPayload
  NoEntry = NoEntry
  Capacity = 14
  MaxFaults = 1
SPECIFICATION FaultSpec
INVARIANT CatalogAfterPages
