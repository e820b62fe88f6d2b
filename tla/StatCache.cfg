SPECIFICATION SpecCache
CONSTANTS
    p1 = p1
    p2 = p2
    Paths = {p1, p2}
    Root = "root"
    Metas <- MCMetas
    Targets = {"x"}
    ExpireTime = 0
    MaxTime = 1
    Options <- MCOptions
SYMMETRY Perms
INVARIANT
    CacheTypeOK
PROPERTY
    RoomIsMade
