SPECIFICATION Spec
CONSTANTS
    d1 = d1
    d2 = d2
    Sources = {"a", "b"}
    Basename <- mcBasename
    Datas = {d1, d2}
    Initially <- mcInitially
    Ciphers = {"", "aes-gcm", "rc4"}
    Codecs = {"zstd", "brotli"}
    KeyArgs <- mcKeyArgs
    KeyBytes = 1
    Lists <- mcLists
    Overrides = {0, 2}
    Matching = {{}, {1}}
    Trees <- mcTrees
    MaxCommands = 3
    MaxEdits = 1
    MaxFaults = 1
PROPERTIES CommandsEnd
CHECK_DEADLOCK FALSE

INVARIANTS CreateStoresPrefix OneRecoverable ExtractWritesArchive CompressKeepsInput
