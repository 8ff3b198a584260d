------------------------- MODULE ArchiveInspection --------------------------
(***************************************************************************)
(* The commands that read an Archive's metadata while uploads go on        *)
(* (internal/depot): `archive status` (InspectMetadata), `archive verify`  *)
(* with and without --deep (VerifyWithOptions), and the planning half of   *)
(* `archive download` (PreparePull, PlanDownload).  Each is a sequence of  *)
(* single reads, of the index, a machine's pointer, its manifest, blobs    *)
(* and a listing, with publications and outside damage between any two.    *)
(***************************************************************************)
EXTENDS Archive

VARIABLE insp       \* the one inspection of a behaviour

inspectionVars == <<vars, insp>>

NoInspection == [kind |-> "status", at |-> "idle", left |-> {}, vector |-> {}, older |-> {},
                 problems |-> {}, broken |-> {}]

Broken(m) == latest[Prefix[m]] \notin manifests     \* no pointer, a garbled one, no manifest

InspectionInit == Init /\ insp = NoInspection

\* The index is read once, after the marker.
BeginInspection(kind) ==
    /\ insp.at = "idle"
    /\ insp' = [NoInspection EXCEPT !.kind = kind, !.at = "pointers", !.left = index,
                                    !.broken = {m \in index : Broken(m)}]
    /\ UNCHANGED vars

InspectMetadata == BeginInspection("status")
VerifyWithOptions(deep) == BeginInspection(IF deep THEN "deep" ELSE "verify")
PreparePull == BeginInspection("download")

Problem(i, m) ==    \* status and verify go on, a download plan is refused
    IF i.kind = "download" THEN [i EXCEPT !.problems = @ \cup {m}, !.at = "ended"]
    ELSE [i EXCEPT !.problems = @ \cup {m}, !.left = @ \ {m}, !.vector = {}, !.at = "pointers"]

\* Mutant of InspectPointer: a machine without a pointer has nothing to inspect.
InspectSomePointer(m) ==
    LET cur == latest[Prefix[m]] IN
    /\ insp.at = "pointers" /\ m \in insp.left
    /\ insp' = IF cur = None THEN [insp EXCEPT !.left = @ \ {m}]
               ELSE IF cur = Corrupt THEN Problem(insp, m)
               ELSE [insp EXCEPT !.left = @ \ {m}, !.vector = @ \cup {<<m, cur>>},
                                 !.at = IF insp.kind = "download" THEN @ ELSE "manifest"]
    /\ UNCHANGED vars

InspectPointer(m) ==
    LET cur == latest[Prefix[m]] IN
    /\ insp.at = "pointers" /\ m \in insp.left
    /\ insp' = IF cur \in {None, Corrupt} THEN Problem(insp, m)
               ELSE [insp EXCEPT !.left = @ \ {m}, !.vector = @ \cup {<<m, cur>>},
                                 !.at = IF insp.kind = "download" THEN @ ELSE "manifest"]
    /\ UNCHANGED vars

\* PlanDownload freezes the whole vector before a manifest is read.
PlanDownload ==
    /\ insp.at = "pointers" /\ insp.kind = "download" /\ insp.left = {} /\ insp.vector # {}
    /\ insp' = [insp EXCEPT !.at = "manifest"]
    /\ UNCHANGED vars

\* checkManifest: decoded, of the named identity, and its blobs stored; a deep
\* verification reads their bytes.
Sound(man) == man \in manifests /\ (insp.kind \in {"verify", "deep"} => Files(man) \subseteq blobs)

\* A deep verification lists the machine's other manifests also when this one
\* is unsound.  Status and verify go on to the next machine, a plan is refused.
InspectManifest(m, man) ==
    LET rest == insp.vector \ {<<m, man>>} IN
    /\ insp.at = "manifest" /\ <<m, man>> \in insp.vector
    /\ insp' = CASE insp.kind = "deep" ->
                     [insp EXCEPT !.vector = rest, !.at = "list", !.older = {<<m, man>>},
                                  !.problems = IF Sound(man) THEN @ ELSE @ \cup {m}]
               [] insp.kind # "deep" /\ Sound(man) ->
                     [insp EXCEPT !.vector = rest,
                         !.at = IF insp.kind = "download" /\ rest # {} THEN @ ELSE "pointers"]
               [] OTHER -> Problem(insp, m)
    /\ UNCHANGED vars

\* Snapshots of a machine the Workspace already has are not read.
SkipMaterialised(m, man) ==
    /\ insp.at = "manifest" /\ insp.kind = "download" /\ <<m, man>> \in insp.vector
    /\ insp' = [insp EXCEPT !.vector = @ \ {<<m, man>>},
                    !.at = IF insp.vector = {<<m, man>>} THEN "pointers" ELSE @]
    /\ UNCHANGED vars

ListManifests(m, man) ==        \* listKeys of the machine's manifests
    /\ insp.at = "list" /\ insp.older = {<<m, man>>}
    /\ insp' = [insp EXCEPT !.at = "older",
                    !.older = {<<m, x>> : x \in {y \in manifests : Prefix[y.machine] = Prefix[m]}}
                              \ {<<m, man>>}]
    /\ UNCHANGED vars

InspectOlder(m, man) ==
    /\ insp.at = "older" /\ <<m, man>> \in insp.older
    /\ insp' = [insp EXCEPT !.older = @ \ {<<m, man>>},
                            !.problems = IF Sound(man) THEN @ ELSE @ \cup {m}]
    /\ UNCHANGED vars

EndOlder ==
    /\ insp.at = "older" /\ insp.older = {}
    /\ insp' = [insp EXCEPT !.at = "pointers"]
    /\ UNCHANGED vars

EndInspection ==
    /\ insp.at = "pointers" /\ insp.left = {} /\ insp.vector = {}
    /\ insp' = [insp EXCEPT !.at = "ended"]
    /\ UNCHANGED vars

InspectionNext ==
    \/ Next /\ insp' = [insp EXCEPT !.broken = {m \in @ : Broken(m)'}]
    \/ InspectMetadata \/ PreparePull \/ \E deep \in BOOLEAN : VerifyWithOptions(deep)
    \/ \E m \in Machine : InspectPointer(m)
    \/ PlanDownload \/ EndOlder \/ EndInspection
    \/ \E p \in insp.vector : InspectManifest(p[1], p[2]) \/ SkipMaterialised(p[1], p[2])
    \/ \E p \in insp.older : ListManifests(p[1], p[2]) \/ InspectOlder(p[1], p[2])

InspectionSpec == InspectionInit /\ [][InspectionNext]_inspectionVars

(***************************************************************************)
(* However publications fall between its reads, an inspection of an        *)
(* Archive nobody damaged finds no problem and never refuses a plan; and a *)
(* status or verify that has ended names every machine that was broken     *)
(* when it read the index and has been ever since.                         *)
(***************************************************************************)
InspectionTells ==
    /\ \A m \in insp.problems : Prefix[m] \in damaged
    /\ insp.at = "ended" /\ insp.kind # "download" => insp.broken \subseteq insp.problems
=============================================================================
