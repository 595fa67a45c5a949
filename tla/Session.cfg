SPECIFICATION Spec
CONSTANTS
    FileNames = {1, 2}
    Contents <- mcContents
    PageBytes = 1
    Encryptions <- mcEncryptions
    Codecs <- mcCodecs
    OwnerKeys <- mcOwnerKeys
    Keys <- mcKeys
    Capacities = {0, 1}
    MaxPages = 3
    MaxHandles = 3
    MaxCalls = 3
    MaxFailures = 1
INVARIANTS LruOrder CacheCoherent ListedFilesExtract RecoverableUnlessGcm
PROPERTY CodecPreserved
CHECK_DEADLOCK FALSE
