SPECIFICATION MainSpec
CONSTANTS
    Bytes = {0, 1}
    BaseSizes = {0, 3, 8}
    NewSizes = {0, 1, 5, 8}
    WordSize = 3
    LongRun = 2
    Stride = 2
    Block = 2
    SkipUnit = 1
    Part = 2
    Chunk = 8
    BufferSize = 14
    MarkEvery = 4
    NewMark = 0
    BaseMark = 1
CHECK_DEADLOCK FALSE
INVARIANTS DecodeRestores LiteralsAccounted
