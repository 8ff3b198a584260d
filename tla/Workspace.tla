----------------------------- MODULE Workspace -----------------------------
(***************************************************************************)
(* The Workspace of one machine: the directory that `archive download`     *)
(* fills, `workspace repair --backup` replaces and `workspace verify       *)
(* --repair-fts` opens for writing (internal/cli, internal/corpus).  The   *)
(* commands are separate processes.  They share a path, the directory it   *)
(* leads to, a SQLite database with its write-ahead log, an identity       *)
(* witness beside it and an advisory lock, and each can be killed between  *)
(* any two steps while the Archives it reads move on.                      *)
(*                                                                         *)
(* A directory is known by its number, and so is the hidden name it was    *)
(* created under: 0 is made by the first claim, and every repair makes the *)
(* next one.  A repair exchanges its finished directory with the entry it  *)
(* found the Workspace at.  What it built has itself been claimed, so the  *)
(* entry it exchanges is a symbolic link: the old name then leads to the   *)
(* new directory, whose own name is another one.                           *)
(***************************************************************************)
EXTENDS FiniteSets, Naturals

CONSTANTS
    Process,      \* processes that run aha commands
    Archive,      \* Archives a process may be configured with
    Machine,      \* machines that upload into them
    MaxSnapshot,  \* bound: snapshots per machine and Archive
    MaxRepairs,   \* bound: replacements ever promoted
    MaxKills,     \* bound: processes killed
    MaxErrors,    \* bound: commands that fail or are cancelled on the way
    MaxDamage,    \* bound: acts of damage behind the program's back
    Permitted,    \* commands the users run: a subset of Kind
    Guide,        \* what they go by: "any", "status" or "readme"
    None          \* no Archive, no directory, no lock

Kind == {"download", "repair", "recover"}  \* recover: verify --repair-fts

ASSUME ConstantsAssumption ==
    /\ MaxSnapshot \in Nat \ {0}
    /\ MaxRepairs \in Nat
    /\ MaxKills \in Nat
    /\ MaxErrors \in Nat
    /\ MaxDamage \in Nat
    /\ Permitted \subseteq Kind
    /\ Guide \in {"any", "status", "readme"}
    /\ None \notin Archive
    /\ None \notin Nat

VARIABLES
    latest,    \* per Archive, the latest snapshot of each machine (0: none)
    claimed,   \* whether the public path exists
    leads,     \* the directory each hidden name leads to
    disk,      \* what is in each directory
    run,       \* the command each process is running
    repairs,   \* replacements promoted so far
    budget     \* kills, errors and acts of damage so far

vars == <<latest, claimed, leads, disk, run, repairs, budget>>

Vector == [Machine -> 0 .. MaxSnapshot]
Nothing == [m \in Machine |-> 0]
Dir == 0 .. MaxRepairs

(* The contents of a database: whether its tables exist, the Archive in    *)
(* workspace_binding, the rows of snapshots, and workspace_materialised.   *)
Content == [tables: BOOLEAN,
            bound: Archive \cup {None},
            snapshots: SUBSET (Archive \X Machine \X (1 .. MaxSnapshot)),
            vector: Vector]

Empty == [tables |-> FALSE, bound |-> None, snapshots |-> {}, vector |-> Nothing]

(* exists: the database file is there.  file: its pages.  db: the pages    *)
(* with the committed frames of the log.  wal: the log file is there.      *)
(* health: "drifted" is seen by a full verification only, "unreadable" by  *)
(* whoever opens the database.                                             *)
Health == {"sound", "drifted", "unreadable"}
Directory == [exists: BOOLEAN, file: Content, db: Content, wal: BOOLEAN,
              witness: Archive \cup {None}, health: Health]

NoDirectory == [exists |-> FALSE, file |-> Empty, db |-> Empty, wal |-> FALSE,
                witness |-> None, health |-> "sound"]

Open == {"migrate", "bind", "witness", "ingest", "reconcile", "close"}
Phase == Open \cup {"idle", "destination", "inspect", "lookup", "claim", "name",
                    "wait", "health", "begin", "build", "release"}
Fresh == MaxRepairs + 1  \* a destination whose public path did not exist

(* path: the destination proof, later the storage path.  todo: machines    *)
(* whose latest snapshot is spooled.  lock: the identity whose lock file   *)
(* is asked for.  dir: the directory whose database is open.  ok: no error *)
(* so far.                                                                 *)
Command == [pc: Phase, kind: Kind, archive: Archive \cup {None}, plan: Vector,
            path: Dir \cup {Fresh}, todo: SUBSET Machine, lock: Dir \cup {None},
            dir: Dir \cup {None}, ok: BOOLEAN]

Idle == [pc |-> "idle", kind |-> "download", archive |-> None, plan |-> Nothing,
         path |-> 0, todo |-> {}, lock |-> None, dir |-> None, ok |-> TRUE]

At(p, phase) == run[p].pc = phase
Goto(p, phase) == run' = [run EXCEPT ![p].pc = phase]
End(p) == run' = [run EXCEPT ![p] = Idle]

Init ==
    /\ latest = [a \in Archive |-> Nothing]
    /\ claimed = FALSE
    /\ leads = [n \in Dir |-> n]
    /\ disk = [d \in Dir |-> NoDirectory]
    /\ run = [p \in Process |-> Idle]
    /\ repairs = 0
    /\ budget = [kills |-> 0, errors |-> 0, damage |-> 0]

----------------------------------------------------------------------------
(* Reading.  Inspections open the database file as immutable: they see its *)
(* pages without the log.                                                  *)

Here == disk[leads[0]]
Readable(d) == d.exists /\ d.health # "unreadable"

(* WorkspaceState, and "error" where it cannot tell. *)
StateOf(d, a, vector) ==
    IF ~d.file.tables THEN "error"
    ELSE IF d.file.bound = None THEN "absent"
    ELSE IF d.file.bound # a THEN "archive_mismatch"
    ELSE IF d.file.vector = vector THEN "current" ELSE "behind"

(* InspectWorkspaceState: the witness decides first, and an authenticated  *)
(* witness turns what the database gets wrong into damage.                 *)
Inspect(a, vector) ==
    LET d == Here
        s == IF ~Readable(d) THEN "error" ELSE StateOf(d, a, vector)
    IN  IF d.witness # None /\ d.witness # a THEN "archive_mismatch"
        ELSE IF ~d.exists THEN IF d.witness = None THEN "absent" ELSE "damaged"
        ELSE IF d.witness # None /\ s \in {"error", "archive_mismatch"} THEN "damaged"
        ELSE s

(* OpenExistingReadOnly refuses a Workspace whose log was left behind. *)
OpensReadOnly(d) == Readable(d) /\ ~d.wal

(* What `aha status` and `aha workspace status` report. *)
Status(a) ==
    IF ~Here.exists THEN "absent"
    ELSE IF ~OpensReadOnly(Here) THEN "damaged"
    ELSE LET s == Inspect(a, latest[a]) IN IF s = "error" THEN "damaged" ELSE s

----------------------------------------------------------------------------
(* The outside: machines upload, and files go bad. *)

Publish ==
    \E a \in Archive, m \in Machine :
        /\ latest[a][m] < MaxSnapshot
        /\ latest' = [latest EXCEPT ![a][m] = @ + 1]
        /\ UNCHANGED <<claimed, leads, disk, run, repairs, budget>>

Damage ==
    /\ budget.damage < MaxDamage
    /\ Here.exists
    /\ \A q \in Process : run[q].dir # leads[0]
    /\ \E h \in Health \ {"sound"} : disk' = [disk EXCEPT ![leads[0]].health = h]
    /\ budget' = [budget EXCEPT !.damage = @ + 1]
    /\ UNCHANGED <<latest, claimed, leads, run, repairs>>

----------------------------------------------------------------------------
(* Planning: the latest vector is frozen before anything local is looked   *)
(* at.                                                                     *)

(* The command a status report names. *)
NextAction(a) ==
    CASE Status(a) \in {"absent", "behind"} -> "download"
      [] Status(a) = "damaged" -> "repair"
      [] OTHER -> "none"

(* What a user would run next.  The README adds to the status report that  *)
(* verify --repair-fts completes the recovery of a log left behind.        *)
Runs(k, a) ==
    \/ Guide = "any"
    \/ k = NextAction(a)
    \/ Guide = "readme" /\ k = "recover" /\ Status(a) = "damaged"

Repairing == {p \in Process : run[p].kind = "repair"}

Plan(p, k, a) ==
    /\ At(p, "idle")
    /\ k \in Permitted /\ Runs(k, a)
    /\ k = "repair" => repairs + Cardinality(Repairing) < MaxRepairs
    /\ run' = [run EXCEPT ![p] =
                  [Idle EXCEPT !.pc = IF k = "repair" THEN "inspect" ELSE "destination",
                               !.kind = k, !.archive = a, !.plan = latest[a]]]
    /\ UNCHANGED <<latest, claimed, leads, disk, repairs, budget>>

(* prepareWritableCorpus: a proof of what the destination is now. *)
PrepareDestination(p) ==
    /\ At(p, "destination")
    /\ run' = [run EXCEPT ![p].path = IF claimed THEN leads[0] ELSE Fresh,
                          ![p].pc = IF run[p].kind = "download" THEN "inspect" ELSE "claim"]
    /\ UNCHANGED <<latest, claimed, leads, disk, repairs, budget>>

InspectDownload(p) ==
    /\ At(p, "inspect") /\ run[p].kind = "download"
    /\ IF Inspect(run[p].archive, run[p].plan) \in {"absent", "behind"}
       THEN Goto(p, "lookup")
       ELSE End(p)  \* mismatch, damage, error; or current: nothing to do
    /\ UNCHANGED <<latest, claimed, leads, disk, repairs, budget>>

(* MaterialisedVector and PrepareMaterialisation: machines already         *)
(* recorded at their planned snapshot are left out of the spool.           *)
Lookup(p) ==
    LET planned == {m \in Machine : run[p].plan[m] # 0} IN
    /\ At(p, "lookup")
    /\ \/ /\ ~Here.exists
          /\ run' = [run EXCEPT ![p].pc = "claim", ![p].todo = planned]
       \/ /\ OpensReadOnly(Here) /\ Here.file.tables
          /\ run' = [run EXCEPT ![p].pc = "claim",
                         ![p].todo = {m \in planned : Here.file.vector[m] # run[p].plan[m]}]
       \/ /\ Here.exists
          /\ ~(OpensReadOnly(Here) /\ Here.file.tables)
          /\ End(p)
    /\ UNCHANGED <<latest, claimed, leads, disk, repairs, budget>>

(* Claim: the destination must still be the directory that was proven.     *)
Claim(p) ==
    /\ At(p, "claim")
    /\ \/ /\ run[p].path = Fresh /\ ~claimed
          /\ claimed' = TRUE
          /\ run' = [run EXCEPT ![p].pc = "name", ![p].path = 0]
       \/ /\ run[p].path # Fresh /\ leads[run[p].path] = run[p].path
          /\ Goto(p, "name")
          /\ UNCHANGED claimed
       \/ /\ IF run[p].path = Fresh THEN claimed ELSE leads[run[p].path] # run[p].path
          /\ End(p)
          /\ UNCHANGED claimed
    /\ UNCHANGED <<latest, leads, disk, repairs, budget>>

----------------------------------------------------------------------------
(* The lifecycle lock: its file is named after the directory that the      *)
(* storage path leads to when the lock is asked for.                       *)

NameLock(p) ==
    /\ At(p, "name")
    /\ run' = [run EXCEPT ![p].pc = "wait", ![p].lock = leads[run[p].path]]
    /\ UNCHANGED <<latest, claimed, leads, disk, repairs, budget>>

Holds(q) == run[q].pc \in Open \cup {"build", "release"}

\* Mutant of Obtainable: a repair keeps out other repairs, not downloads.
ObtainableByRepair(p) ==
    \A q \in Process \ {p} :
        Holds(q) /\ run[q].lock = run[p].lock
            => run[p].kind # "repair" \/ run[q].kind # "repair"

Obtainable(p) ==
    \A q \in Process \ {p} :
        Holds(q) /\ run[q].lock = run[p].lock
            => run[p].kind # "repair" /\ run[q].kind # "repair"

\* Mutant of OpenDatabase: a leftover log is refused, as inspections do.
OpenDatabaseUnlogged(p) ==
    LET d == leads[run[p].path] IN
    /\ At(p, "wait") /\ run[p].kind # "repair"
    /\ Obtainable(p)
    /\ IF disk[d].health = "unreadable" \/ disk[d].wal
       THEN End(p) /\ UNCHANGED disk
       ELSE /\ run' = [run EXCEPT ![p].pc = "migrate", ![p].dir = d]
            /\ disk' = [disk EXCEPT ![d].exists = TRUE,
                                    ![d].wal = @ \/ disk[d].exists]
    /\ UNCHANGED <<latest, claimed, leads, repairs, budget>>

(* A shared lock, then the database at the end of the storage path.  An    *)
(* existing one is in WAL mode and gets its log file; a new file is empty. *)
OpenDatabase(p) ==
    LET d == leads[run[p].path] IN
    /\ At(p, "wait") /\ run[p].kind # "repair"
    /\ Obtainable(p)
    /\ IF disk[d].health = "unreadable"
       THEN End(p) /\ UNCHANGED disk
       ELSE /\ run' = [run EXCEPT ![p].pc = "migrate", ![p].dir = d]
            /\ disk' = [disk EXCEPT ![d].exists = TRUE,
                                    ![d].wal = @ \/ disk[d].exists]
    /\ UNCHANGED <<latest, claimed, leads, repairs, budget>>

(* A transaction: its frames are in the log, and a checkpoint may or may   *)
(* not move what is committed into the file.                               *)
Commit(d, content) ==
    \E file \in {disk[d].file, content} :
        disk' = [disk EXCEPT ![d].db = content, ![d].file = file, ![d].wal = TRUE]

Migrate(p) ==
    /\ At(p, "migrate")
    /\ Commit(run[p].dir, [disk[run[p].dir].db EXCEPT !.tables = TRUE])
    /\ Goto(p, IF run[p].kind = "download" THEN "bind" ELSE "reconcile")
    /\ UNCHANGED <<latest, claimed, leads, repairs, budget>>

----------------------------------------------------------------------------
(* pullFromDepotV2. *)

\* Mutant of Bind: the binding row is replaced without being compared.
BindOver(p) ==
    LET a == run[p].archive
        d == run[p].dir
        witness == disk[leads[run[p].path]].witness
    IN
    /\ At(p, "bind")
    /\ IF witness \in {None, a}
       THEN /\ Commit(d, [disk[d].db EXCEPT !.bound = a])
            /\ Goto(p, IF witness = None THEN "witness" ELSE "ingest")
       ELSE /\ run' = [run EXCEPT ![p].pc = "close", ![p].ok = FALSE]
            /\ UNCHANGED disk
    /\ UNCHANGED <<latest, claimed, leads, repairs, budget>>

(* BindWorkspaceStore: the witness is read through the storage path, the   *)
(* binding row through the open database.                                  *)
Bind(p) ==
    LET a == run[p].archive
        d == run[p].dir
        witness == disk[leads[run[p].path]].witness
    IN
    /\ At(p, "bind")
    /\ IF witness \in {None, a} /\ disk[d].db.bound \in {None, a}
       THEN /\ Commit(d, [disk[d].db EXCEPT !.bound = a])
            /\ Goto(p, IF witness = None THEN "witness" ELSE "ingest")
       ELSE /\ run' = [run EXCEPT ![p].pc = "close", ![p].ok = FALSE]
            /\ UNCHANGED disk
    /\ UNCHANGED <<latest, claimed, leads, repairs, budget>>

\* Mutant of WriteWitness: it names the directory, not the Archive.
WriteWitnessOfPlace(p) ==
    /\ At(p, "witness")
    /\ disk' = [disk EXCEPT ![leads[run[p].path]].witness = run[p].lock]
    /\ Goto(p, "ingest")
    /\ UNCHANGED <<latest, claimed, leads, repairs, budget>>

WriteWitness(p) ==
    /\ At(p, "witness")
    /\ disk' = [disk EXCEPT ![leads[run[p].path]].witness = run[p].archive]
    /\ Goto(p, "ingest")
    /\ UNCHANGED <<latest, claimed, leads, repairs, budget>>

(* One transaction per spooled manifest; a known snapshot is skipped.      *)
Ingest(p) ==
    /\ At(p, "ingest")
    /\ \E m \in run[p].todo :
        /\ Commit(run[p].dir,
                  [disk[run[p].dir].db EXCEPT
                      !.snapshots = @ \cup {<<run[p].archive, m, run[p].plan[m]>>}])
        /\ run' = [run EXCEPT ![p].todo = @ \ {m}]
    /\ UNCHANGED <<latest, claimed, leads, repairs, budget>>

\* Mutant of Record: the vector is recorded before the snapshots are in.
RecordFirst(p) ==
    /\ At(p, "ingest")
    /\ Commit(run[p].dir, [disk[run[p].dir].db EXCEPT !.vector = run[p].plan])
    /\ Goto(p, IF run[p].todo = {} THEN "close" ELSE "ingest")
    /\ UNCHANGED <<latest, claimed, leads, repairs, budget>>

(* RecordMaterialisedVector replaces the whole vector by the frozen one.   *)
Record(p) ==
    /\ At(p, "ingest") /\ run[p].todo = {}
    /\ Commit(run[p].dir, [disk[run[p].dir].db EXCEPT !.vector = run[p].plan])
    /\ Goto(p, "close")
    /\ UNCHANGED <<latest, claimed, leads, repairs, budget>>

(* ReconcileFTS rewrites the derived rows that drifted. *)
Reconcile(p) ==
    /\ At(p, "reconcile")
    /\ disk' = [disk EXCEPT ![run[p].dir].health = IF @ = "drifted" THEN "sound" ELSE @]
    /\ Goto(p, "close")
    /\ UNCHANGED <<latest, claimed, leads, repairs, budget>>

(* Store.Close: the last connection moves the log into the file and        *)
(* removes it.                                                             *)
CloseDatabase(p) ==
    LET d == run[p].dir IN
    /\ At(p, "close")
    /\ IF \E q \in Process \ {p} : run[q].dir = d
       THEN UNCHANGED disk
       ELSE disk' = [disk EXCEPT ![d].wal = FALSE, ![d].file = disk[d].db]
    /\ End(p)
    /\ UNCHANGED <<latest, claimed, leads, repairs, budget>>

----------------------------------------------------------------------------
(* workspace repair --backup. *)

InspectRepair(p) ==
    LET s == Inspect(run[p].archive, run[p].plan) IN
    /\ At(p, "inspect") /\ run[p].kind = "repair"
    /\ \/ s = "damaged" /\ Goto(p, "begin")
       \/ s \in {"current", "behind"} /\ Goto(p, "health")
       \/ s \in {"absent", "archive_mismatch", "error"} /\ End(p)
    /\ UNCHANGED <<latest, claimed, leads, disk, repairs, budget>>

(* A Workspace the inspection found whole must fail a full verification;   *)
(* one that cannot be opened for it is not taken for damaged.              *)
CheckHealth(p) ==
    /\ At(p, "health")
    /\ IF OpensReadOnly(Here) /\ (Here.health = "drifted" \/ ~Here.file.tables)
       THEN Goto(p, "begin")
       ELSE End(p)
    /\ UNCHANGED <<latest, claimed, leads, disk, repairs, budget>>

(* RepairWithBackup finds the directory; its lock is named like any other. *)
BeginRepair(p) ==
    /\ At(p, "begin")
    /\ IF Here.exists
       THEN run' = [run EXCEPT ![p].pc = "name", ![p].path = leads[0]]
       ELSE End(p)
    /\ UNCHANGED <<latest, claimed, leads, disk, repairs, budget>>

LockExclusively(p) ==
    /\ At(p, "wait") /\ run[p].kind = "repair"
    /\ Obtainable(p)
    /\ Goto(p, "build")
    /\ UNCHANGED <<latest, claimed, leads, disk, repairs, budget>>

(* The replacement is built from the spooled vector, closed, verified and  *)
(* synced, and exchanged with the entry found by BeginRepair.  A name      *)
(* whose chain of links passes through that entry now leads to the new     *)
(* directory; links only ever lead to later names.                         *)
Swap(p) ==
    LET e == run[p].path
        d == repairs + 1
        full == [tables |-> TRUE, bound |-> run[p].archive,
                 snapshots |-> {<<run[p].archive, m, run[p].plan[m]>> :
                                   m \in {n \in Machine : run[p].plan[n] # 0}},
                 vector |-> run[p].plan]
    IN
    /\ At(p, "build")
    /\ disk' = [disk EXCEPT ![d] = [exists |-> TRUE, file |-> full, db |-> full,
                                    wal |-> FALSE, witness |-> run[p].archive,
                                    health |-> "sound"]]
    /\ leads' = [n \in Dir |-> IF n <= e /\ leads[n] = leads[e] THEN d ELSE leads[n]]
    /\ repairs' = d
    /\ Goto(p, "release")
    /\ UNCHANGED <<latest, claimed, budget>>

Unlock(p) ==
    /\ At(p, "release")
    /\ End(p)
    /\ UNCHANGED <<latest, claimed, leads, disk, repairs, budget>>

----------------------------------------------------------------------------
\* Mutant of Fail: the error of a failed pull is not joined to Close's.
FailUnreported(p) ==
    /\ budget.errors < MaxErrors
    /\ run[p].pc \notin {"idle", "close", "release"}
    /\ IF run[p].pc \in Open THEN Goto(p, "close") ELSE End(p)
    /\ budget' = [budget EXCEPT !.errors = @ + 1]
    /\ UNCHANGED <<latest, claimed, leads, disk, repairs>>

(* A command that fails or is cancelled closes what it opened; one that is *)
(* killed leaves its log behind, and the kernel drops its lock.            *)

Fail(p) ==
    /\ budget.errors < MaxErrors
    /\ run[p].pc \notin {"idle", "close", "release"}
    /\ IF run[p].pc \in Open
       THEN run' = [run EXCEPT ![p].pc = "close", ![p].ok = FALSE]
       ELSE End(p)
    /\ budget' = [budget EXCEPT !.errors = @ + 1]
    /\ UNCHANGED <<latest, claimed, leads, disk, repairs>>

Kill(p) ==
    /\ budget.kills < MaxKills
    /\ ~At(p, "idle")
    /\ End(p)
    /\ budget' = [budget EXCEPT !.kills = @ + 1]
    /\ UNCHANGED <<latest, claimed, leads, disk, repairs>>

Step(p) ==
    \/ PrepareDestination(p) \/ InspectDownload(p) \/ Lookup(p) \/ Claim(p)
    \/ NameLock(p) \/ OpenDatabase(p) \/ Migrate(p)
    \/ Bind(p) \/ WriteWitness(p) \/ Ingest(p) \/ Record(p)
    \/ Reconcile(p) \/ CloseDatabase(p)
    \/ InspectRepair(p) \/ CheckHealth(p) \/ BeginRepair(p)
    \/ LockExclusively(p) \/ Swap(p) \/ Unlock(p)

Next ==
    \/ Publish
    \/ Damage
    \/ \E p \in Process, k \in Kind, a \in Archive : Plan(p, k, a)
    \/ \E p \in Process : Step(p) \/ Fail(p) \/ Kill(p)

Spec == Init /\ [][Next]_vars

(* A process that is not killed takes its next step, users go on running   *)
(* what they are told to run, and whichever of two commands is named again *)
(* and again is run at some time.                                          *)
Fairness ==
    \A p \in Process :
        /\ WF_vars(Step(p))
        /\ \A k \in Kind, a \in Archive : SF_vars(Plan(p, k, a))

LiveSpec == Spec /\ Fairness

----------------------------------------------------------------------------
TypeOK ==
    /\ latest \in [Archive -> Vector]
    /\ claimed \in BOOLEAN
    /\ leads \in [Dir -> Dir]
    /\ disk \in [Dir -> Directory]
    /\ run \in [Process -> Command]
    /\ repairs \in Dir
    /\ budget \in [kills: 0 .. MaxKills, errors: 0 .. MaxErrors, damage: 0 .. MaxDamage]

(* A status report of "current" is never false: each machine's latest      *)
(* snapshot is in the database that was looked at.  The vector is written  *)
(* by another transaction than the snapshots, from a plan and a skip list  *)
(* made before the Workspace was locked (command_archive.go:228-250,       *)
(* depot_v2_helpers.go:170).                                               *)
StatusIsTrue ==
    \A a \in Archive :
        Status(a) = "current" =>
            \A m \in Machine : latest[a][m] # 0 =>
                <<a, m, latest[a][m]>> \in Here.file.snapshots

(* A Workspace holds one Archive's history: binding, witness and snapshots *)
(* agree, whichever of two first downloads gets how far                    *)
(* (workspace_identity.go:49-71, workspace_state.go:14-36).                *)
OneArchive ==
    \A d \in Dir :
        /\ disk[d].witness # None => disk[d].db.bound = disk[d].witness
        /\ \A s \in disk[d].db.snapshots : s[1] = disk[d].db.bound

(* A download that reports success has put its planned snapshots where the *)
(* public path leads (command_archive.go:250-263).                         *)
SuccessIsThere ==
    [][\A p \in Process :
         CloseDatabase(p) /\ run[p].kind = "download" /\ run[p].ok =>
            \A m \in Machine : run[p].plan[m] # 0 =>
                <<run[p].archive, m, run[p].plan[m]>> \in Here'.db.snapshots]_vars

(* A repair never exchanges a directory away under a command that has its  *)
(* database open: that is what its exclusive lock is for (repair.go:40,    *)
(* corpus.go:163, path_identity.go:10-13).                                 *)
NothingSwappedUnderneath ==
    [][\A p \in Process :
         Swap(p) => \A q \in Process : run[q].dir # leads[run[p].path]]_vars

(* Whatever was interrupted or damaged, users who do what they are told    *)
(* get a current Workspace (lifecycle.go:101-146, README.md:65), unless    *)
(* its database became unreadable before a witness could vouch for it.     *)
EventuallyCurrent ==
    [](Here.health = "unreadable" => Here.witness # None)
        => \A a \in Archive : <>[](Status(a) = "current")

----------------------------------------------------------------------------
(* The inductive invariant while nothing is repaired: there is one         *)
(* directory, and a command knows of the database it writes what it found  *)
(* there before it held the lock.                                          *)

(* Every snapshot a vector names is there, and of one Archive. *)
Backed(c) ==
    /\ \A m \in Machine : c.vector[m] # 0 => <<c.bound, m, c.vector[m]>> \in c.snapshots
    /\ \A s \in c.snapshots : s[1] = c.bound

DatabaseInv(d) ==
    /\ Backed(d.file) /\ Backed(d.db)
    /\ d.file.snapshots \subseteq d.db.snapshots
    /\ d.witness # None => d.db.bound = d.witness

LookedUp == {"claim", "name", "wait", "migrate", "bind", "witness", "ingest"}

(* What a command knows: a machine it planned and did not spool has its    *)
(* planned snapshot in the database, whatever others do to it meanwhile.   *)
CommandInv(r, db) ==
    /\ r.kind # "repair" /\ r.pc \notin {"health", "begin", "build", "release"}
    /\ r.pc # "idle" => r.archive \in Archive
    /\ \A m \in r.todo : r.plan[m] # 0
    /\ r.pc \in Open \cup {"name", "wait"} => r.path = 0
    /\ r.pc \in Open => r.dir = 0
    /\ r.pc \in {"bind", "witness", "ingest"} => r.kind = "download"
    /\ r.pc = "reconcile" => r.kind # "download"
    /\ r.pc \in {"witness", "ingest"} => db.bound = r.archive
    /\ r.kind = "download" /\ r.pc \in LookedUp =>
          \A m \in Machine : r.plan[m] # 0 /\ m \notin r.todo
              => <<db.bound, m, r.plan[m]>> \in db.snapshots
    /\ r.kind = "download" /\ r.pc = "close" /\ r.ok =>
          \A m \in Machine : r.plan[m] # 0
              => <<r.archive, m, r.plan[m]>> \in db.snapshots

IInv ==
    /\ TypeOK
    /\ leads[0] = 0
    /\ DatabaseInv(disk[0])
    /\ \A p \in Process : CommandInv(run[p], disk[0].db)

(***************************************************************************)
(* The inductive invariant while at most one repair is promoted.  The      *)
(* commands that have a database open have the one the public path leads   *)
(* to, in the directory numbered by the repairs so far: until the exchange *)
(* there is one lock, and the repair holds it alone.                       *)
(***************************************************************************)
OwnHistory(d) ==
    /\ d.witness # None => d.db.bound = d.witness
    /\ \A s \in d.db.snapshots : s[1] = d.db.bound

(* A command r after n repairs, where the live database is bound to bound. *)
PlaceInv(r, n, bound) ==
    /\ r.pc = "idle" => r.kind = "download"
    /\ r.pc # "idle" => r.archive \in Archive
    /\ \A m \in r.todo : r.plan[m] # 0
    /\ r.kind # "repair" => r.pc \notin {"health", "begin", "build", "release"}
    /\ r.kind = "repair" => /\ MaxRepairs = 1
                            /\ n = IF r.pc = "release" THEN 1 ELSE 0
                            /\ r.pc \in {"inspect", "health", "begin", "name", "wait",
                                         "build", "release"}
    /\ r.path # Fresh => r.path <= n
    /\ r.pc \in Open \cup {"name", "wait", "build"} => r.path # Fresh
    /\ r.pc \in Open \cup {"wait", "build"} /\ n = 0 => r.lock = 0
    /\ r.dir = IF r.pc \in Open THEN n ELSE None
    /\ r.pc \in {"witness", "ingest"} => bound = r.archive

RepairInv ==
    /\ TypeOK
    /\ \A n \in Dir : leads[n] = IF n = 0 THEN repairs ELSE n
    /\ \A d \in Dir : OwnHistory(disk[d])
    /\ \A p \in Process : PlaceInv(run[p], repairs, disk[repairs].db.bound)
    /\ \A p, q \in Process : run[p].kind = "repair" /\ run[q].kind = "repair" => p = q
    /\ \A p, q \in Process : run[p].pc = "build" => run[q].pc \notin Open

(***************************************************************************)
(* The inductive invariant of a Workspace repaired any number of times.    *)
(* A lock no longer keeps commands off a directory that is exchanged away, *)
(* but a repair only replaces what is bound to its own Archive, so all     *)
(* directories have one owner: the Archive the first is bound to.          *)
(***************************************************************************)
OwnedBy(r, n, owner) ==
    /\ r.pc = "idle" => r.kind = "download"
    /\ r.pc # "idle" => r.archive \in Archive
    /\ \A m \in r.todo : r.plan[m] # 0
    /\ r.kind = "repair" => r.pc \in {"inspect", "health", "begin", "name", "wait",
                                      "build", "release"}
    /\ r.pc \in {"health", "begin", "build", "release"} => r.kind = "repair"
    /\ r.kind = "repair" /\ r.pc # "inspect" => r.archive = owner
    /\ r.path # Fresh => r.path <= n
    /\ r.pc \in Open \cup {"name", "wait", "build"} => r.path # Fresh
    /\ r.pc \in Open => r.dir \in 0..n
    /\ r.pc \in {"witness", "ingest"} => r.archive = owner

\* Repairs that have not exchanged yet: the bound counts them as promoted.
Pending == {p \in Repairing : run[p].pc # "release"}

OwnerInv ==
    /\ TypeOK
    /\ \A n \in Dir : leads[n] <= IF n <= repairs THEN repairs ELSE n
    /\ \A d \in Dir : OwnHistory(disk[d]) /\ disk[d].file.bound \in {None, disk[d].db.bound}
    /\ \A d \in 1..repairs : disk[d].db.bound = disk[0].db.bound /\ disk[d].db.bound # None
    /\ \A p \in Process : OwnedBy(run[p], repairs, disk[0].db.bound)
    /\ IsFiniteSet(Repairing) /\ repairs + Cardinality(Pending) <= MaxRepairs
=============================================================================
