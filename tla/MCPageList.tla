----------------------------- MODULE MCPageList -----------------------------
(***************************************************************************)
(* The instance of PageList: all four page_status values on files of up to *)
(* five units, which have a plan of two parts and a short rest.            *)
(***************************************************************************)
EXTENDS PageList

AllStatuses == [loaded : BOOLEAN, modified : BOOLEAN]
=============================================================================
