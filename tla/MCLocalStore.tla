---------------------------- MODULE MCLocalStore ----------------------------
(***************************************************************************)
(* Small instances of LocalStore: one pointer and one blob path.           *)
(***************************************************************************)
EXTENDS LocalStore

CONSTANTS blob, pointer, c1, c2, c3, v1, v2
=============================================================================
