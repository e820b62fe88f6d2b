\* New and existing files of a block of three units and a short one: two writes, one
\* failing request, a flush at five modified units.
\* The system rests when every descriptor is closed.
SPECIFICATION FairSpec
CONSTANTS
    f1 = f1
    f2 = f2
    Fds = {f1}
    MaxOpen = 1
    InitSizes = {0, 5}
    MaxSize = 5
    WriteSizes = {1, 4}
    MaxWrites = 2
    MaxFailures = 1
    MaxCells = 8
    max_mp_size = 3
    MIN_MULTIPART_SIZE = 2
    FIVE_GB = 5
    max_dirty_data = 5
INVARIANTS
    InstructionsCounted
    UnspoiltFileKept
    PartsMakeFile
PROPERTIES
    FlushUploadsAlone
    HandlerReturns
CHECK_DEADLOCK FALSE
