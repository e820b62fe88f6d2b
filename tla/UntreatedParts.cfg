SPECIFICATION Spec
CONSTANTS
    MaxSize = 7
    MaxTag = 4
    max_mp_size = 3
    MIN_MULTIPART_SIZE = 2
INVARIANTS
    AreasNormal
PROPERTIES
    ImplementsUntreatedBytes
CHECK_DEADLOCK FALSE
