----------------------------- MODULE MCStatCache -----------------------------
EXTENDS StatCache, TLC
CONSTANTS p1, p2
MCMetas == {[type |-> "file"], [type |-> "link"]}
MCOptions == {[size |-> 2, expires |-> TRUE,  interval |-> TRUE,  negative |-> TRUE],
              [size |-> 1, expires |-> TRUE,  interval |-> FALSE, negative |-> FALSE],
              [size |-> 2, expires |-> FALSE, interval |-> FALSE, negative |-> TRUE],
              [size |-> 0, expires |-> FALSE, interval |-> FALSE, negative |-> TRUE]}
Perms == Permutations({p1, p2})
=============================================================================
