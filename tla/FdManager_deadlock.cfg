SPECIFICATION Spec
CONSTANTS
    t1 = t1
    t2 = t2
    t3 = t3
    p1 = p1
    p2 = p2
    e1 = e1
    e2 = e2
    e3 = e3
    Threads = {t1, t2, t3}
    Paths = {p1, p2}
    Entities = {e1, e2, e3}
    CacheModes = {TRUE, FALSE}
    Disks = {0, 1}
    MaxCalls = 4
    MaxFailures = 0
    None = None
SYMMETRY Perms
INVARIANTS
    NoDeadlock
CHECK_DEADLOCK FALSE
