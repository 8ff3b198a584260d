--------------------------- MODULE MCCaptureCache ---------------------------
(***************************************************************************)
(* Small instances of CaptureCache: contents v and w have one length.      *)
(***************************************************************************)
EXTENDS CaptureCache, TLC

CONSTANTS log, image, v, w, long

TwoSizes  == v :> 1 @@ w :> 1 @@ long :> 2
=============================================================================
