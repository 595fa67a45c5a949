CONSTANTS
  small = small
  large = large
  Path = {p, q}
  Content = {small, large}
  Payload <- MCPayload
  NoEntry = NoEntry
  Capacity = 16
SPECIFICATION FairSpec
INVARIANTS
  TypeOK
  FilesOnDisk
  CatalogAfterPages
  PageIdsUnique
  IdleArchiveComplete
  ClosedArchiveReadable
PROPERTIES
  OnlyOwnPagesPatched
  CallsReturn
  RefinesArchive
