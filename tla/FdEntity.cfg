SPECIFICATION Spec
CONSTANTS
    f1 = f1
    f2 = f2
    Fds = {f1, f2}
    Modes = {"nomultipart", "multipart", "mix"}
    InitSizes = {0, 3}
    MaxSize = 4
    WriteSizes = {2}
    MaxWrites = 2
    MaxMetas = 1
    MaxFailures = 1
    MaxShortages = 1
    MaxEvents = 4
    multipart_size = 2
    MIN_MULTIPART_SIZE = 2
    FIVE_GB = 4
INVARIANTS
    TypeOK
    CleanMeansStored
    ReadYourWrites
    FlushStoresMetadata
PROPERTIES
    UnspoiltFlushStoresFile
SYMMETRY Perms
CHECK_DEADLOCK FALSE
