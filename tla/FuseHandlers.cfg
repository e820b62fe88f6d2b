SPECIFICATION Spec
CONSTANTS
    Threads = {1, 2}
    Paths <- MCPaths
    Root <- MCRoot
    Metas = {}
    Targets = {}
    ExpireTime = 0
    MaxTime = 0
    Options <- MCOptions
    Modes = {0, 1, 2}
    Buckets <- MCBuckets
    FsOptions <- MCFsOptions
    Operations = {"getattr", "readlink", "readdir", "create", "mknod", "mkdir", "symlink", "unlink", "rmdir", "chmod", "utimens", "rename", "flush", "release"}
    MaxCalls = 2
    MaxFailures = 1
    MaxEvicted = 1
INVARIANTS
    
    
    CopiesFindTheirSource
    
    
CHECK_DEADLOCK FALSE
