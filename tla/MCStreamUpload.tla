--------------------------- MODULE MCStreamUpload ---------------------------
(***************************************************************************)
(* Instances of StreamUpload.  With blocks of three units and a least part *)
(* of two, a file of five has a whole block and a short last one.          *)
(***************************************************************************)
EXTENDS StreamUpload, TLC

CONSTANTS f1, f2
=============================================================================
