--------------------------- MODULE MCHttpNotifier ---------------------------
(***************************************************************************)
(* Instances of HttpNotifier: three events for the queue, one of them      *)
(* under an excluded path, and one that its handler sends.                 *)
(***************************************************************************)
EXTENDS HttpNotifier

CONSTANTS a1, a2, a3, s1, tmp, file

EventPath == (a1 :> <<file>>) @@ (a2 :> <<file>>) @@ (a3 :> <<tmp, file>>) @@ (s1 :> <<file>>)
Excluded  == {<<tmp>>, <<>>}
=============================================================================
