--------------------------- MODULE MCArchiveSide ----------------------------
(***************************************************************************)
(* The Archive's side of a machine: either uploads and an inspection of an *)
(* initialised Archive, or the commands that initialise and select one.    *)
(* The two share no state, so a behaviour runs one of them.  Calls fail    *)
(* and processes die only in behaviours that nobody inspects.              *)
(***************************************************************************)
EXTENDS ArchiveInspection, Setup, TLC

CONSTANTS m1, n1, u1, u2, s1, s2, b1, b2, p1, p2, home, other, work, aside

VARIABLE part

OnePrefix    == m1 :> n1
OwnersSame   == u1 :> m1 @@ u2 :> m1
GrowingFiles == s1 :> {b1} @@ s2 :> {b1, b2}

sideVars == <<inspectionVars, setupVars, part>>

\* The uploads are of one machine and the commands of one user.
Interchangeable == Permutations({u1, u2}) \cup Permutations({p1, p2})

SideInit ==
    /\ part \in {"archive", "setup"}
    /\ InspectionInit
    /\ SetupInit
    /\ part = "archive" => registered = {} /\ \A a \in Place : marker[a] = "none"

ArchiveStep ==
    /\ part = "archive" /\ InspectionNext /\ UNCHANGED <<part, setupVars>>
    /\ insp'.at # "idle" => faults' = 0

SetupStep == part = "setup" /\ SetupNext /\ UNCHANGED <<part, inspectionVars>>

SideNext == ArchiveStep \/ SetupStep

SideSpec == SideInit /\ [][SideNext]_sideVars
=============================================================================
