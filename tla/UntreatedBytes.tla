--------------------------- MODULE UntreatedBytes ---------------------------
(***************************************************************************)
(* What a list of untreated areas promises: a set of bytes that writes add *)
(* to and that uploads take a run or whole blocks from.                    *)
(***************************************************************************)
EXTENDS Integers

CONSTANTS MaxSize,    \* bound on the end of an area
          max_mp_size \* the multipart size

VARIABLE bytes  \* the untreated bytes

Init == bytes = {}

Add(from, to) == bytes' = bytes \cup (from..to)

(* Up to max_mp_size bytes at the start of a maximal run; less only if the run ends. *)
TakeRun(from, to) ==
    /\ from..to \subseteq bytes /\ from - 1 \notin bytes
    /\ to - from < max_mp_size
    /\ to - from + 1 = max_mp_size \/ to + 1 \notin bytes
    /\ bytes' = bytes \ (from..to)

(* All the whole blocks of a maximal run. *)
Block(n) == (n * max_mp_size)..((n + 1) * max_mp_size - 1)

TakeBlocks(from, to) ==
    /\ from..to \subseteq bytes /\ from - 1 \notin bytes /\ to + 1 \notin bytes
    /\ bytes' = bytes \ UNION {Block(n) : n \in {k \in 0..MaxSize : Block(k) \subseteq from..to}}

Clear == bytes' = {}

Next ==
    \/ Clear
    \/ \E from \in 0..MaxSize : \E to \in from..MaxSize :
          Add(from, to) \/ TakeRun(from, to) \/ TakeBlocks(from, to)

Spec == Init /\ [][Next]_bytes
=============================================================================
