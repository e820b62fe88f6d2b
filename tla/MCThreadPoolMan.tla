--------------------------- MODULE MCThreadPoolMan ---------------------------
(***************************************************************************)
(* Instances of ThreadPoolMan: two workers, and calls of both kinds.       *)
(***************************************************************************)
EXTENDS ThreadPoolMan

CONSTANTS w1, w2, a1, a2, i1, i2

TwoWorkers == {w1, w2}
FourJobs   == {a1, a2, i1, i2}
TwoAwaits  == {a1, a2}

=============================================================================
