SPECIFICATION Spec
CHECK_DEADLOCK FALSE
CONSTANTS
    a1 = a1
    a2 = a2
    i1 = i1
    Attempts = {a1, a2}
    Instances = {i1}
    InstOf <- OneContainer
    LogSize <- TwoChunks
    MaxSize = 2
    MaxUploads = 1
    MaxConns = 3
    MaxRestarts = 1
INVARIANTS
    NoRemovalWithoutLog
    StoredIsWhole
    OneUploadPerInstance
    UploadsBounded
PROPERTIES
    ImplementsPromise
    AttemptEnds
