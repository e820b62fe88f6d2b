----------------------------- MODULE ByteStatus -----------------------------
(***************************************************************************)
(* What a page list promises: every byte of the cache file has a loaded    *)
(* and a modified flag, and each operation changes the flags of the bytes  *)
(* its arguments name and of no other byte.  PageList implements this with *)
(* runs of bytes that are split, cut, merged and compressed.               *)
(***************************************************************************)
EXTENDS Integers, Sequences

CONSTANTS MaxSize,     \* bound on the size of the file
          PageStatuses \* the values of page_status in use

VARIABLES status,  \* status[i] is the status of byte i - 1
          shrunk   \* the file was cut since its last upload

vars == <<status, shrunk>>

Status(is_loaded, is_modified) == [loaded |-> is_loaded, modified |-> is_modified]

Filled(n, st) == [i \in 1..n |-> st]

Init == status = <<>> /\ shrunk = FALSE

DoInit(size, st) ==
    /\ status' = Filled(size, st)
    /\ shrunk' = FALSE

(* Cut or extended at the end; an empty file is never reported as cut. *)
Resize(size, st) ==
    /\ status' = [i \in 1..size |-> IF i <= Len(status) THEN status[i] ELSE st]
    /\ shrunk' = (shrunk \/ (size < Len(status) /\ st.modified))

(* Exactly the bytes of the range, and the gap if the range starts behind the end. *)
SetStatus(start, size, st) ==
    LET len == IF size = 0 /\ start < Len(status) THEN Len(status)
               ELSE IF start + size < Len(status) THEN Len(status) ELSE start + size
    IN  /\ start + size <= MaxSize
        /\ status' = [i \in 1..len |->
                        IF i > start /\ i <= start + size THEN st
                        ELSE IF i <= Len(status) THEN status[i]
                        ELSE Status(FALSE, st.modified)]
        /\ UNCHANGED shrunk

ClearAllModified ==
    /\ status' = [i \in DOMAIN status |-> [status[i] EXCEPT !.modified = FALSE]]
    /\ shrunk' = FALSE

Next ==
    \/ \E size \in 0..MaxSize, l, m \in BOOLEAN :
          DoInit(size, Status(l, m)) \/ Resize(size, Status(l, m))
    \/ \E start \in 0..MaxSize, size \in 0..MaxSize, st \in PageStatuses :
          SetStatus(start, size, st)
    \/ ClearAllModified

Spec == Init /\ [][Next]_vars
=============================================================================
