CONSTANTS
  ByteBits = 2
  WordBytes = 2
  FirstWords = 1
  MaxWords = 2
SPECIFICATION Spec
INVARIANTS
  PageCountCovers
PROPERTIES
  RefinesPageAllocator
