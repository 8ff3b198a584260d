----------------------------- MODULE MCHistory ------------------------------
(***************************************************************************)
(* The two readers of histories that agents are writing: the capture of    *)
(* one source file and the export of an OpenCode database.  They share no  *)
(* state, so a behaviour runs one of them.                                 *)
(***************************************************************************)
EXTENDS CaptureCache, Export, TLC

CONSTANTS history, v, w, long, e1, e2, x, y

VARIABLE part

TwoSizes  == v :> 1 @@ w :> 1 @@ long :> 2
TwoShareX == 1 :> x @@ 2 :> x @@ 3 :> y

HistoryInit ==
    /\ part \in {"capture", "export"}
    /\ Init
    /\ ExportInit
    /\ part = "capture" => main = NoSessions
    /\ part = "export" => \A f \in File : content[f] = v

CaptureStep == part = "capture" /\ Next /\ UNCHANGED <<part, exportVars>>
ExportStep == part = "export" /\ ExportNext /\ UNCHANGED <<part, vars>>

HistoryNext == CaptureStep \/ ExportStep

HistorySpec == HistoryInit /\ [][HistoryNext]_<<vars, exportVars, part>>
=============================================================================
