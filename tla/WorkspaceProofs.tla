-------------------------- MODULE WorkspaceProofs --------------------------
(***************************************************************************)
(* Proofs about Workspace, for any number of processes, Archives,          *)
(* machines, snapshots, kills, errors and acts of damage.  While nothing   *)
(* is repaired, a status of "current" is true and a download that reports  *)
(* success has delivered.  While at most one repair is promoted, no        *)
(* command has the directory open that is exchanged away; MCWorkspace      *)
(* refutes what is claimed of more.  However many are promoted, a          *)
(* Workspace holds one Archive's history.                                  *)
(***************************************************************************)
EXTENDS Workspace, FiniteSetTheorems, TLAPS

LEMMA OneDirectory == ASSUME MaxRepairs = 0 PROVE Dir = {0} /\ 0 \in Dir /\ Fresh = 1
BY SMT DEF Dir, Fresh

\* The parts of the type invariant that the steps below use.
LEMMA Types ==
    ASSUME TypeOK, MaxRepairs = 0
    PROVE  /\ disk \in [{0} -> Directory] /\ disk[0] \in Directory
           /\ disk[0].file \in Content /\ disk[0].db \in Content
           /\ run \in [Process -> Command]
           /\ leads \in [{0} -> {0}] /\ repairs = 0
<1>1. Dir = {0}
  BY OneDirectory
<1> QED BY <1>1 DEF TypeOK, Directory

\* What is committed changes only towards more: a new bound for an unbound
\* database, more snapshots, or another vector.
Extends(new, old) ==
    /\ new \in Content
    /\ Backed(new)
    /\ old.bound \in {None, new.bound}
    /\ old.snapshots \subseteq new.snapshots

\* A bound never replaced and snapshots never dropped: nobody's knowledge of
\* the database goes stale.
LEMMA KnowledgeStays ==
    ASSUME NEW old \in Content, NEW new \in Content, Extends(new, old), Backed(old),
           NEW r \in Command, CommandInv(r, old)
    PROVE  CommandInv(r, new)
<1>1. ASSUME NEW m \in Machine, <<old.bound, m, r.plan[m]>> \in old.snapshots
      PROVE  <<new.bound, m, r.plan[m]>> \in new.snapshots
  <2>1. old.bound \in Archive
    BY <1>1 DEF Content
  <2>2. old.bound # None
    BY <2>1, ConstantsAssumption
  <2> QED BY <1>1, <2>2 DEF Extends
<1>2. r.pc \in {"witness", "ingest"} => new.bound = r.archive
  <2>1. SUFFICES ASSUME r.pc \in {"witness", "ingest"} PROVE new.bound = r.archive
    OBVIOUS
  <2>2. old.bound = r.archive /\ r.archive \in Archive
    BY <2>1 DEF CommandInv
  <2> QED BY <2>2, ConstantsAssumption DEF Extends
<1>3. old.snapshots \subseteq new.snapshots
  BY DEF Extends
<1> QED BY <1>1, <1>2, <1>3 DEF CommandInv

\* One process takes a step to r and leaves the directory as d.
LEMMA StepKeeps ==
    ASSUME IInv, MaxRepairs = 0,
           NEW p \in Process, NEW r \in Command, NEW d \in Directory,
           run' = [run EXCEPT ![p] = r], disk' = [disk EXCEPT ![0] = d],
           UNCHANGED <<latest, leads, repairs>>, claimed' \in BOOLEAN,
           budget' \in [kills: 0 .. MaxKills, errors: 0 .. MaxErrors, damage: 0 .. MaxDamage],
           DatabaseInv(d), Extends(d.db, disk[0].db), CommandInv(r, d.db)
    PROVE  IInv'
<1>1. TypeOK /\ disk \in [{0} -> Directory] /\ Dir = {0} /\ disk[0].db \in Content
  BY Types, OneDirectory DEF IInv
<1>2. disk' \in [{0} -> Directory] /\ disk'[0] = d
  BY <1>1
<1>3. run' \in [Process -> Command]
  BY <1>1 DEF TypeOK
<1>4. TypeOK'
  BY <1>1, <1>2, <1>3 DEF TypeOK
<1>5. ASSUME NEW q \in Process PROVE CommandInv(run'[q], d.db)
  <2>1. CASE q = p
    BY <2>1, <1>1 DEF TypeOK
  <2>2. CASE q # p
    <3>1. run'[q] = run[q] /\ run[q] \in Command
      BY <2>2, <1>1 DEF TypeOK
    <3>2. CommandInv(run[q], disk[0].db) /\ Backed(disk[0].db)
      BY DEF IInv, DatabaseInv
    <3>3. d.db \in Content
      BY DEF Directory
    <3> QED BY <1>1, <3>1, <3>2, <3>3, KnowledgeStays
  <2> QED BY <2>1, <2>2
<1> QED BY <1>2, <1>4, <1>5 DEF IInv

\* Steps that leave the directory alone.
LEMMA LocalStepKeeps ==
    ASSUME IInv, MaxRepairs = 0, NEW p \in Process, NEW r \in Command,
           run' = [run EXCEPT ![p] = r],
           UNCHANGED <<latest, leads, disk, repairs>>, claimed' \in BOOLEAN,
           budget' \in [kills: 0 .. MaxKills, errors: 0 .. MaxErrors, damage: 0 .. MaxDamage],
           CommandInv(r, disk[0].db)
    PROVE  IInv'
<1>1. TypeOK /\ disk \in [{0} -> Directory] /\ disk[0] \in Directory /\ disk[0].db \in Content
  BY Types DEF IInv
<1>2. disk' = [disk EXCEPT ![0] = disk[0]]
  BY <1>1
<1>3. DatabaseInv(disk[0]) /\ Extends(disk[0].db, disk[0].db)
  BY <1>1 DEF IInv, DatabaseInv, Extends
<1> QED BY <1>1, <1>2, <1>3, StepKeeps

\* A command that ends knows nothing and holds nothing.
LEMMA IdleKnowsNothing ==
    ASSUME NEW db, MaxRepairs = 0 PROVE Idle \in Command /\ CommandInv(Idle, db)
<1>1. Idle \in Command
  BY OneDirectory, ConstantsAssumption DEF Idle, Command, Phase, Open, Kind, Vector, Nothing
<1>2. CommandInv(Idle, db)
  BY DEF Idle, CommandInv, Open, LookedUp
<1> QED BY <1>1, <1>2

LEMMA EndKeeps ==
    ASSUME IInv, MaxRepairs = 0, NEW p \in Process, End(p),
           UNCHANGED <<latest, leads, disk, repairs>>, claimed' \in BOOLEAN,
           budget' \in [kills: 0 .. MaxKills, errors: 0 .. MaxErrors, damage: 0 .. MaxDamage]
    PROVE  IInv'
BY IdleKnowsNothing, LocalStepKeeps DEF End

\* A commit by the process p, which goes on as r.
LEMMA CommitKeeps ==
    ASSUME IInv, MaxRepairs = 0, NEW p \in Process, NEW r \in Command, NEW new \in Content,
           Commit(0, new), run' = [run EXCEPT ![p] = r],
           UNCHANGED <<latest, claimed, leads, repairs, budget>>,
           Extends(new, disk[0].db), CommandInv(r, new)
    PROVE  IInv'
<1>1. TypeOK /\ disk \in [{0} -> Directory] /\ disk[0] \in Directory
  BY Types DEF IInv
<1>2. PICK file \in {disk[0].file, new} :
         disk' = [disk EXCEPT ![0].db = new, ![0].file = file, ![0].wal = TRUE]
  BY DEF Commit
<1> DEFINE d == [disk[0] EXCEPT !.db = new, !.file = file, !.wal = TRUE]
<1>3. disk' = [disk EXCEPT ![0] = d]
  BY <1>1, <1>2
<1>4. d \in Directory /\ d.db = new /\ d.file = file /\ d.witness = disk[0].witness
  BY <1>1 DEF Directory
<1>5. DatabaseInv(d)
  <2>1. Backed(new) /\ Backed(file) /\ file.snapshots \subseteq new.snapshots
    BY DEF IInv, DatabaseInv, Extends
  <2>2. disk[0].witness # None => new.bound = disk[0].witness
    BY DEF IInv, DatabaseInv, Extends
  <2> QED BY <1>4, <2>1, <2>2 DEF DatabaseInv
<1>6. claimed' \in BOOLEAN
      /\ budget' \in [kills: 0 .. MaxKills, errors: 0 .. MaxErrors, damage: 0 .. MaxDamage]
  BY <1>1 DEF TypeOK
<1> HIDE DEF d
<1> QED BY <1>3, <1>4, <1>5, <1>6, StepKeeps

----------------------------------------------------------------------------
(***************************************************************************)
(* The steps.                                                              *)
(***************************************************************************)

\* What every step of a process starts from.
LEMMA Before ==
    ASSUME IInv, MaxRepairs = 0, NEW p \in Process
    PROVE  /\ TypeOK /\ disk \in [{0} -> Directory] /\ disk[0] \in Directory
           /\ disk[0].db \in Content /\ disk[0].file \in Content
           /\ run[p] \in Command /\ run \in [Process -> Command]
           /\ leads[0] = 0 /\ Here = disk[0] /\ repairs = 0
           /\ CommandInv(run[p], disk[0].db) /\ DatabaseInv(disk[0])
           /\ Backed(disk[0].db)
           /\ claimed \in BOOLEAN
           /\ budget \in [kills: 0 .. MaxKills, errors: 0 .. MaxErrors, damage: 0 .. MaxDamage]
           /\ latest \in [Archive -> Vector]
BY Types DEF IInv, TypeOK, Here, DatabaseInv

LEMMA PlanKeeps ==
    ASSUME IInv, MaxRepairs = 0, NEW p \in Process, NEW k \in Kind, NEW a \in Archive,
           Plan(p, k, a)
    PROVE  IInv'
<1>1. Repairing = {}
  BY DEF IInv, CommandInv, Repairing
<1>2. k # "repair"
  <2>1. Cardinality(Repairing) = 0
    BY <1>1, FS_EmptySet
  <2> QED BY <2>1, Before DEF Plan
<1> DEFINE r == [Idle EXCEPT !.pc = "destination", !.kind = k, !.archive = a, !.plan = latest[a]]
<1>3. run' = [run EXCEPT ![p] = r]
  BY <1>2 DEF Plan
<1>4. r \in Command
  BY Before, IdleKnowsNothing DEF Command, Phase
<1>5. CommandInv(r, disk[0].db)
  BY <1>2 DEF CommandInv, Idle, Open, LookedUp
<1> HIDE DEF r
<1> QED BY <1>3, <1>4, <1>5, Before, LocalStepKeeps DEF Plan

LEMMA PrepareDestinationKeeps ==
    ASSUME IInv, MaxRepairs = 0, NEW p \in Process, PrepareDestination(p) PROVE IInv'
<1> DEFINE r == [run[p] EXCEPT !.path = IF claimed THEN leads[0] ELSE Fresh,
                               !.pc = IF run[p].kind = "download" THEN "inspect" ELSE "claim"]
<1>1. run' = [run EXCEPT ![p] = r]
  BY Before DEF PrepareDestination
<1>2. r \in Command
  BY Before, OneDirectory DEF Command, Phase
<1>3. CommandInv(r, disk[0].db)
  BY Before DEF CommandInv, Open, LookedUp, PrepareDestination, At, Command
<1> HIDE DEF r
<1> QED BY <1>1, <1>2, <1>3, Before, LocalStepKeeps DEF PrepareDestination

LEMMA InspectDownloadKeeps ==
    ASSUME IInv, MaxRepairs = 0, NEW p \in Process, InspectDownload(p) PROVE IInv'
<1>1. CASE Goto(p, "lookup")
  <2> DEFINE r == [run[p] EXCEPT !.pc = "lookup"]
  <2>1. run' = [run EXCEPT ![p] = r]
    BY <1>1, Before DEF Goto
  <2>2. r \in Command
    BY Before DEF Command, Phase
  <2>3. CommandInv(r, disk[0].db)
    BY Before DEF CommandInv, Open, LookedUp, InspectDownload, At, Command
  <2> HIDE DEF r
  <2> QED BY <2>1, <2>2, <2>3, Before, LocalStepKeeps DEF InspectDownload
<1>2. CASE End(p)
  BY <1>2, Before, EndKeeps DEF InspectDownload
<1> QED BY <1>1, <1>2 DEF InspectDownload

\* The skip list: a machine whose planned snapshot the file's vector names
\* has it in the file, hence in the database.
LEMMA LookupKeeps ==
    ASSUME IInv, MaxRepairs = 0, NEW p \in Process, Lookup(p) PROVE IInv'
<1> DEFINE planned == {m \in Machine : run[p].plan[m] # 0}
           spooled == {m \in planned : Here.file.vector[m] # run[p].plan[m]}
<1>1. ASSUME NEW todo \in {planned, spooled},
             run' = [run EXCEPT ![p].pc = "claim", ![p].todo = todo]
      PROVE  IInv'
  <2> DEFINE r == [run[p] EXCEPT !.pc = "claim", !.todo = todo]
  <2>1. run' = [run EXCEPT ![p] = r]
    BY <1>1, Before
  <2>2. r \in Command
    BY Before DEF Command, Phase
  <2>3. ASSUME NEW m \in Machine, run[p].plan[m] # 0, m \notin todo
        PROVE  <<disk[0].db.bound, m, run[p].plan[m]>> \in disk[0].db.snapshots
    <3>1. disk[0].file.vector[m] = run[p].plan[m]
      BY <2>3, Before
    <3>2. <<disk[0].file.bound, m, run[p].plan[m]>> \in disk[0].db.snapshots
      BY <2>3, <3>1, Before DEF DatabaseInv, Backed
    <3>3. disk[0].file.bound = disk[0].db.bound
      BY <3>2, Before DEF Backed
    <3> QED BY <3>2, <3>3
  <2>4. \A m \in todo : run[p].plan[m] # 0
    OBVIOUS
  <2>5. r.pc = "claim" /\ r.todo = todo /\ r.plan = run[p].plan /\ r.kind = run[p].kind
        /\ r.archive = run[p].archive
    BY Before DEF Command
  <2>6. run[p].kind # "repair" /\ run[p].archive \in Archive
    BY Before DEF CommandInv, Lookup, At
  <2> HIDE DEF r
  <2>7. CommandInv(r, disk[0].db)
    BY <2>3, <2>4, <2>5, <2>6 DEF CommandInv, Open
  <2> QED BY <2>1, <2>2, <2>7, Before, LocalStepKeeps DEF Lookup
<1>2. CASE End(p)
  BY <1>2, Before, EndKeeps DEF Lookup
<1> QED BY <1>1, <1>2 DEF Lookup

LEMMA ClaimKeeps ==
    ASSUME IInv, MaxRepairs = 0, NEW p \in Process, Claim(p) PROVE IInv'
<1>0. UNCHANGED <<latest, leads, disk, repairs, budget>> /\ claimed' \in BOOLEAN
  BY Before DEF Claim
<1>1. CASE run' = [run EXCEPT ![p].pc = "name", ![p].path = 0]
  <2> DEFINE r == [run[p] EXCEPT !.pc = "name", !.path = 0]
  <2>1. run' = [run EXCEPT ![p] = r]
    BY <1>1, Before
  <2>2. r \in Command
    BY Before, OneDirectory DEF Command, Phase
  <2>3. CommandInv(r, disk[0].db)
    BY Before DEF CommandInv, Open, LookedUp, Claim, At, Command
  <2> HIDE DEF r
  <2> QED BY <1>0, <2>1, <2>2, <2>3, Before, LocalStepKeeps
<1>2. CASE run[p].path # Fresh /\ Goto(p, "name")
  <2> DEFINE r == [run[p] EXCEPT !.pc = "name"]
  <2>1. run' = [run EXCEPT ![p] = r]
    BY <1>2, Before DEF Goto
  <2>2. r \in Command
    BY Before DEF Command, Phase
  <2>3. run[p].path = 0
    BY <1>2, Before, OneDirectory DEF Command
  <2>4. CommandInv(r, disk[0].db)
    BY <2>3, Before DEF CommandInv, Open, LookedUp, Claim, At, Command
  <2> HIDE DEF r
  <2> QED BY <1>0, <2>1, <2>2, <2>4, Before, LocalStepKeeps
<1>3. CASE End(p)
  BY <1>0, <1>3, Before, EndKeeps
<1> QED BY <1>1, <1>2, <1>3 DEF Claim

LEMMA NameLockKeeps ==
    ASSUME IInv, MaxRepairs = 0, NEW p \in Process, NameLock(p) PROVE IInv'
<1> DEFINE r == [run[p] EXCEPT !.pc = "wait", !.lock = leads[run[p].path]]
<1>1. run' = [run EXCEPT ![p] = r]
  BY Before DEF NameLock
<1>2. leads[run[p].path] = 0
  BY Before DEF NameLock, At, CommandInv
<1>3. r \in Command
  <2>1. r = [run[p] EXCEPT !.pc = "wait", !.lock = 0]
    BY <1>2
  <2> HIDE DEF r
  <2> QED BY <2>1, Before, OneDirectory DEF Command, Phase
<1>4. CommandInv(r, disk[0].db)
  BY Before DEF CommandInv, Open, LookedUp, NameLock, At, Command
<1> HIDE DEF r
<1> QED BY <1>1, <1>3, <1>4, Before, LocalStepKeeps DEF NameLock

LEMMA OpenDatabaseKeeps ==
    ASSUME IInv, MaxRepairs = 0, NEW p \in Process, OpenDatabase(p) PROVE IInv'
<1>1. leads[run[p].path] = 0 /\ run[p].pc = "wait"
  BY Before DEF OpenDatabase, At, CommandInv
<1>2. CASE End(p) /\ UNCHANGED disk
  BY <1>2, Before, EndKeeps DEF OpenDatabase
<1>3. CASE /\ run' = [run EXCEPT ![p].pc = "migrate", ![p].dir = 0]
           /\ disk' = [disk EXCEPT ![0].exists = TRUE, ![0].wal = @ \/ disk[0].exists]
  <2> DEFINE r == [run[p] EXCEPT !.pc = "migrate", !.dir = 0]
             d == [disk[0] EXCEPT !.exists = TRUE, !.wal = @ \/ disk[0].exists]
  <2>1. run' = [run EXCEPT ![p] = r]
    BY <1>3, Before
  <2>2. disk' = [disk EXCEPT ![0] = d]
    BY <1>3, Before
  <2>3. r \in Command
    BY Before, OneDirectory DEF Command, Phase, Open
  <2>4. d \in Directory /\ d.db = disk[0].db /\ d.file = disk[0].file
        /\ d.witness = disk[0].witness
    <3>1. (disk[0].wal \/ disk[0].exists) \in BOOLEAN
      OBVIOUS
    <3> QED BY <3>1, Before DEF Directory
  <2>5. CommandInv(r, d.db)
    BY <1>1, <2>4, Before DEF CommandInv, Open, LookedUp, Command
  <2>6. DatabaseInv(d) /\ Extends(d.db, disk[0].db)
    BY <2>4, Before DEF DatabaseInv, Extends
  <2> HIDE DEF r, d
  <2> QED BY <2>1, <2>2, <2>3, <2>4, <2>5, <2>6, Before, StepKeeps DEF OpenDatabase
<1> QED BY <1>1, <1>2, <1>3 DEF OpenDatabase

LEMMA MigrateKeeps ==
    ASSUME IInv, MaxRepairs = 0, NEW p \in Process, Migrate(p) PROVE IInv'
<1> DEFINE next == IF run[p].kind = "download" THEN "bind" ELSE "reconcile"
           r == [run[p] EXCEPT !.pc = next]
           new == [disk[0].db EXCEPT !.tables = TRUE]
<1>1. run[p].dir = 0 /\ run[p].pc = "migrate"
  BY Before DEF Migrate, At, CommandInv, Open
<1>2. Commit(0, new)
  BY <1>1 DEF Migrate
<1>3. run' = [run EXCEPT ![p] = r]
  BY Before DEF Migrate, Goto
<1>4. r \in Command
  BY Before DEF Command, Phase, Open
<1>5. new \in Content /\ new.bound = disk[0].db.bound /\ new.vector = disk[0].db.vector
      /\ new.snapshots = disk[0].db.snapshots
  BY Before DEF Content
<1>6. Extends(new, disk[0].db)
  BY <1>5, Before DEF Extends, Backed
<1>7. CommandInv(r, new)
  BY <1>1, <1>5, Before DEF CommandInv, Open, LookedUp, Command
<1> HIDE DEF r, new
<1> QED BY <1>2, <1>3, <1>4, <1>5, <1>6, <1>7, CommitKeeps DEF Migrate

LEMMA BindKeeps ==
    ASSUME IInv, MaxRepairs = 0, NEW p \in Process, Bind(p) PROVE IInv'
<1>0. /\ run[p].pc = "bind" /\ run[p].kind = "download" /\ run[p].archive \in Archive
      /\ run[p].dir = 0 /\ run[p].path = 0
  BY Before DEF Bind, At, CommandInv, Open
<1> DEFINE a == run[p].archive
           new == [disk[0].db EXCEPT !.bound = a]
<1>1. ASSUME NEW next \in {"witness", "ingest"},
             disk[0].db.bound \in {None, a}, Commit(0, new), Goto(p, next)
      PROVE  IInv'
  <2> DEFINE r == [run[p] EXCEPT !.pc = next]
  <2>1. run' = [run EXCEPT ![p] = r]
    BY <1>1, Before DEF Goto
  <2>2. r \in Command
    BY Before DEF Command, Phase, Open
  <2>3. new \in Content /\ new.bound = a /\ new.vector = disk[0].db.vector
        /\ new.snapshots = disk[0].db.snapshots
    BY <1>0, Before DEF Content
  <2>4. disk[0].db.bound = None => disk[0].db.snapshots = {}
    <3> SUFFICES ASSUME disk[0].db.bound = None, NEW s \in disk[0].db.snapshots PROVE FALSE
      OBVIOUS
    <3>1. s[1] \in Archive /\ s[1] = None
      BY Before DEF Content, Backed
    <3> QED BY <3>1, ConstantsAssumption
  <2>5. Extends(new, disk[0].db)
    BY <1>1, <2>3, <2>4, Before DEF Extends, Backed
  <2>6. CommandInv(run[p], new)
    BY <2>3, <2>5, Before, KnowledgeStays
  <2>7. r.pc = next /\ r.todo = run[p].todo /\ r.plan = run[p].plan /\ r.kind = run[p].kind
        /\ r.archive = a /\ r.path = 0 /\ r.dir = 0
    BY <1>0, Before DEF Command
  <2> HIDE DEF r, new
  <2>8. CommandInv(r, new)
    BY <1>0, <2>3, <2>6, <2>7 DEF CommandInv, Open, LookedUp
  <2> QED BY <1>1, <2>1, <2>2, <2>3, <2>5, <2>8, CommitKeeps DEF Bind
<1>2. CASE run' = [run EXCEPT ![p].pc = "close", ![p].ok = FALSE] /\ UNCHANGED disk
  <2> DEFINE r == [run[p] EXCEPT !.pc = "close", !.ok = FALSE]
  <2>1. run' = [run EXCEPT ![p] = r]
    BY <1>2, Before
  <2>2. r \in Command
    BY Before DEF Command, Phase, Open
  <2>3. CommandInv(r, disk[0].db)
    BY <1>0, Before DEF CommandInv, Open, LookedUp, Command
  <2> HIDE DEF r
  <2> QED BY <1>2, <2>1, <2>2, <2>3, Before, LocalStepKeeps DEF Bind
<1> QED BY <1>0, <1>1, <1>2 DEF Bind

\* The witness names what the database is bound to by now.
LEMMA WriteWitnessKeeps ==
    ASSUME IInv, MaxRepairs = 0, NEW p \in Process, WriteWitness(p) PROVE IInv'
<1> DEFINE r == [run[p] EXCEPT !.pc = "ingest"]
           d == [disk[0] EXCEPT !.witness = run[p].archive]
<1>1. /\ run[p].pc = "witness" /\ run[p].path = 0 /\ leads[run[p].path] = 0
      /\ disk[0].db.bound = run[p].archive /\ run[p].archive \in Archive
  BY Before DEF WriteWitness, At, CommandInv, Open
<1>2. run' = [run EXCEPT ![p] = r]
  BY Before DEF WriteWitness, Goto
<1>3. disk' = [disk EXCEPT ![0] = d]
  BY <1>1, Before DEF WriteWitness
<1>4. r \in Command
  BY Before DEF Command, Phase, Open
<1>5. d \in Directory /\ d.db = disk[0].db /\ d.file = disk[0].file
      /\ d.witness = run[p].archive
  BY <1>1, Before DEF Directory
<1>6. CommandInv(r, d.db)
  BY <1>1, <1>5, Before DEF CommandInv, Open, LookedUp, Command
<1>7. DatabaseInv(d) /\ Extends(d.db, disk[0].db)
  BY <1>1, <1>5, Before DEF DatabaseInv, Extends
<1> HIDE DEF r, d
<1> QED BY <1>2, <1>3, <1>4, <1>5, <1>6, <1>7, Before, StepKeeps DEF WriteWitness

LEMMA IngestKeeps ==
    ASSUME IInv, MaxRepairs = 0, NEW p \in Process, Ingest(p) PROVE IInv'
<1>1. /\ run[p].pc = "ingest" /\ run[p].kind = "download" /\ run[p].archive \in Archive
      /\ run[p].dir = 0 /\ run[p].path = 0 /\ disk[0].db.bound = run[p].archive
  BY Before DEF Ingest, At, CommandInv, Open
<1>2. PICK m \in run[p].todo :
         /\ Commit(0, [disk[0].db EXCEPT
                          !.snapshots = @ \cup {<<run[p].archive, m, run[p].plan[m]>>}])
         /\ run' = [run EXCEPT ![p].todo = @ \ {m}]
  BY <1>1 DEF Ingest
<1> DEFINE s == <<run[p].archive, m, run[p].plan[m]>>
           new == [disk[0].db EXCEPT !.snapshots = @ \cup {s}]
           r == [run[p] EXCEPT !.todo = @ \ {m}]
<1>3. Commit(0, new) /\ run' = [run EXCEPT ![p] = r]
  BY <1>2, Before
<1>4. m \in Machine /\ run[p].plan[m] \in 1 .. MaxSnapshot
  <2>1. run[p].todo \subseteq Machine /\ run[p].plan \in [Machine -> 0 .. MaxSnapshot]
    BY Before DEF Command, Vector
  <2>2. run[p].plan[m] # 0
    BY Before DEF CommandInv
  <2> QED BY <2>1, <2>2, ConstantsAssumption, SMT
<1>5. r \in Command
  BY Before DEF Command
<1>6. /\ new \in Content /\ new.bound = disk[0].db.bound /\ new.vector = disk[0].db.vector
      /\ new.snapshots = disk[0].db.snapshots \cup {s}
  BY <1>1, <1>4, Before DEF Content
<1>7. Extends(new, disk[0].db)
  BY <1>1, <1>6, Before DEF Extends, Backed
<1>8. CommandInv(run[p], new)
  BY <1>6, <1>7, Before, KnowledgeStays
<1>9. r.pc = "ingest" /\ r.todo = run[p].todo \ {m} /\ r.plan = run[p].plan
      /\ r.kind = "download" /\ r.archive = run[p].archive /\ r.path = 0 /\ r.dir = 0
  BY <1>1, Before DEF Command
<1>10. s \in new.snapshots /\ new.bound = run[p].archive
  BY <1>1, <1>6
<1> HIDE DEF r, new
<1>11. CommandInv(r, new)
  BY <1>1, <1>8, <1>9, <1>10 DEF CommandInv, Open, LookedUp
<1> QED BY <1>3, <1>5, <1>6, <1>7, <1>11, CommitKeeps DEF Ingest

\* With nothing left to ingest, every planned snapshot is in the database:
\* the vector that is recorded is backed.
LEMMA RecordKeeps ==
    ASSUME IInv, MaxRepairs = 0, NEW p \in Process, Record(p) PROVE IInv'
<1>1. /\ run[p].pc = "ingest" /\ run[p].kind = "download" /\ run[p].archive \in Archive
      /\ run[p].dir = 0 /\ run[p].path = 0 /\ disk[0].db.bound = run[p].archive
      /\ run[p].todo = {}
  BY Before DEF Record, At, CommandInv, Open
<1>2. ASSUME NEW m \in Machine, run[p].plan[m] # 0
      PROVE  <<run[p].archive, m, run[p].plan[m]>> \in disk[0].db.snapshots
  BY <1>1, <1>2, Before DEF CommandInv, LookedUp
<1> DEFINE new == [disk[0].db EXCEPT !.vector = run[p].plan]
           r == [run[p] EXCEPT !.pc = "close"]
<1>3. Commit(0, new) /\ run' = [run EXCEPT ![p] = r]
  BY <1>1, Before DEF Record, Goto
<1>4. r \in Command
  BY Before DEF Command, Phase, Open
<1>5. /\ new \in Content /\ new.bound = run[p].archive /\ new.vector = run[p].plan
      /\ new.snapshots = disk[0].db.snapshots
  BY <1>1, Before DEF Content, Command
<1>6. Extends(new, disk[0].db)
  BY <1>1, <1>2, <1>5, Before DEF Extends, Backed
<1>7. r.pc = "close" /\ r.todo = {} /\ r.plan = run[p].plan /\ r.kind = "download"
      /\ r.archive = run[p].archive /\ r.path = 0 /\ r.dir = 0
  BY <1>1, Before DEF Command
<1> HIDE DEF r, new
<1>8. CommandInv(r, new)
  BY <1>1, <1>2, <1>5, <1>7 DEF CommandInv, Open, LookedUp
<1> QED BY <1>3, <1>4, <1>5, <1>6, <1>8, CommitKeeps DEF Record

LEMMA ReconcileKeeps ==
    ASSUME IInv, MaxRepairs = 0, NEW p \in Process, Reconcile(p) PROVE IInv'
<1>1. run[p].pc = "reconcile" /\ run[p].dir = 0 /\ run[p].path = 0
  BY Before DEF Reconcile, At, CommandInv, Open
<1> DEFINE health == IF disk[0].health = "drifted" THEN "sound" ELSE disk[0].health
           r == [run[p] EXCEPT !.pc = "close"]
           d == [disk[0] EXCEPT !.health = health]
<1>2. run' = [run EXCEPT ![p] = r]
  BY Before DEF Reconcile, Goto
<1>3. disk' = [disk EXCEPT ![0] = d]
  BY <1>1, Before DEF Reconcile
<1>4. r \in Command
  BY Before DEF Command, Phase, Open
<1>5. d \in Directory /\ d.db = disk[0].db /\ d.file = disk[0].file
      /\ d.witness = disk[0].witness
  <2>1. health \in Health
    BY Before DEF Directory, Health
  <2> HIDE DEF health
  <2> QED BY <2>1, Before DEF Directory
<1>6. run[p].kind # "download"
  BY <1>1, Before DEF CommandInv
<1>7. CommandInv(r, d.db)
  BY <1>1, <1>5, <1>6, Before DEF CommandInv, Open, LookedUp, Command
<1>8. DatabaseInv(d) /\ Extends(d.db, disk[0].db)
  BY <1>5, Before DEF DatabaseInv, Extends
<1> HIDE DEF r, d
<1> QED BY <1>2, <1>3, <1>4, <1>5, <1>7, <1>8, Before, StepKeeps DEF Reconcile

LEMMA CloseDatabaseKeeps ==
    ASSUME IInv, MaxRepairs = 0, NEW p \in Process, CloseDatabase(p) PROVE IInv'
<1>1. run[p].dir = 0
  BY Before DEF CloseDatabase, At, CommandInv, Open
<1>2. CASE UNCHANGED disk
  BY <1>2, Before, EndKeeps DEF CloseDatabase
<1>3. CASE disk' = [disk EXCEPT ![0].wal = FALSE, ![0].file = disk[0].db]
  <2> DEFINE d == [disk[0] EXCEPT !.wal = FALSE, !.file = disk[0].db]
  <2>1. disk' = [disk EXCEPT ![0] = d]
    BY <1>3, Before
  <2>2. d \in Directory /\ d.db = disk[0].db /\ d.file = disk[0].db
        /\ d.witness = disk[0].witness
    BY Before DEF Directory
  <2>3. DatabaseInv(d) /\ Extends(d.db, disk[0].db)
    BY <2>2, Before DEF DatabaseInv, Extends
  <2>4. run' = [run EXCEPT ![p] = Idle] /\ Idle \in Command /\ CommandInv(Idle, d.db)
    BY IdleKnowsNothing DEF CloseDatabase, End
  <2> HIDE DEF d
  <2> QED BY <2>1, <2>2, <2>3, <2>4, Before, StepKeeps DEF CloseDatabase
<1> QED BY <1>1, <1>2, <1>3 DEF CloseDatabase

LEMMA FailKeeps ==
    ASSUME IInv, MaxRepairs = 0, NEW p \in Process, Fail(p) PROVE IInv'
<1>1. budget' \in [kills: 0 .. MaxKills, errors: 0 .. MaxErrors, damage: 0 .. MaxDamage]
  <2>1. budget.errors + 1 \in 0 .. MaxErrors
    BY Before, ConstantsAssumption, SMT DEF Fail
  <2> QED BY <2>1, Before DEF Fail
<1>2. CASE End(p)
  BY <1>1, <1>2, Before, EndKeeps DEF Fail
<1>3. CASE /\ run[p].pc \in Open
           /\ run' = [run EXCEPT ![p].pc = "close", ![p].ok = FALSE]
  <2> DEFINE r == [run[p] EXCEPT !.pc = "close", !.ok = FALSE]
  <2>1. run' = [run EXCEPT ![p] = r]
    BY <1>3, Before
  <2>2. r \in Command
    BY Before DEF Command, Phase, Open
  <2>3. CommandInv(r, disk[0].db)
    BY <1>3, Before DEF CommandInv, Open, LookedUp, Command
  <2> HIDE DEF r
  <2> QED BY <1>1, <2>1, <2>2, <2>3, Before, LocalStepKeeps DEF Fail
<1> QED BY <1>2, <1>3 DEF Fail

LEMMA KillKeeps ==
    ASSUME IInv, MaxRepairs = 0, NEW p \in Process, Kill(p) PROVE IInv'
<1>1. budget' \in [kills: 0 .. MaxKills, errors: 0 .. MaxErrors, damage: 0 .. MaxDamage]
  <2>1. budget.kills + 1 \in 0 .. MaxKills
    BY Before, ConstantsAssumption, SMT DEF Kill
  <2> QED BY <2>1, Before DEF Kill
<1> QED BY <1>1, Before, EndKeeps DEF Kill

\* No command is a repair, so the steps of one cannot be taken.
LEMMA NoRepairSteps ==
    ASSUME IInv, MaxRepairs = 0, NEW p \in Process
    PROVE  /\ ~InspectRepair(p) /\ ~CheckHealth(p) /\ ~BeginRepair(p)
           /\ ~LockExclusively(p) /\ ~Swap(p) /\ ~Unlock(p)
BY Before DEF CommandInv, At, InspectRepair, CheckHealth, BeginRepair, LockExclusively,
              Swap, Unlock

----------------------------------------------------------------------------
LEMMA PublishKeeps == ASSUME IInv, MaxRepairs = 0, Publish PROVE IInv'
<1>1. PICK a \in Archive, m \in Machine :
         latest[a][m] < MaxSnapshot /\ latest' = [latest EXCEPT ![a][m] = @ + 1]
  BY DEF Publish
<1>2. latest[a] \in [Machine -> 0 .. MaxSnapshot] /\ latest \in [Archive -> Vector]
  BY DEF IInv, TypeOK, Vector
<1>3. latest[a][m] + 1 \in 0 .. MaxSnapshot
  BY <1>1, <1>2, ConstantsAssumption, SMT
<1>4. [latest[a] EXCEPT ![m] = @ + 1] \in Vector
  BY <1>2, <1>3 DEF Vector
<1>5. latest' \in [Archive -> Vector]
  BY <1>1, <1>2, <1>4
<1> QED BY <1>5 DEF IInv, TypeOK, Publish

LEMMA DamageKeeps == ASSUME IInv, MaxRepairs = 0, Damage PROVE IInv'
<1>1. /\ TypeOK /\ leads[0] = 0 /\ disk \in [{0} -> Directory] /\ Dir = {0}
      /\ DatabaseInv(disk[0]) /\ disk[0] \in Directory
  BY Types, OneDirectory DEF IInv
<1>2. PICK h \in Health : disk' = [disk EXCEPT ![0].health = h]
  BY <1>1 DEF Damage
<1> DEFINE d == [disk[0] EXCEPT !.health = h]
<1>3. d \in Directory /\ d.db = disk[0].db /\ d.file = disk[0].file
      /\ d.witness = disk[0].witness
  BY <1>1 DEF Directory
<1>4. disk' = [disk EXCEPT ![0] = d] /\ disk'[0] = d
  BY <1>1, <1>2
<1>5. disk' \in [{0} -> Directory]
  BY <1>1, <1>3, <1>4
<1>6. budget' \in [kills: 0 .. MaxKills, errors: 0 .. MaxErrors, damage: 0 .. MaxDamage]
  <2>1. budget.damage + 1 \in 0 .. MaxDamage
    BY <1>1, ConstantsAssumption, SMT DEF TypeOK, Damage
  <2> QED BY <2>1, <1>1 DEF TypeOK, Damage
<1>7. DatabaseInv(d)
  BY <1>1, <1>3 DEF DatabaseInv
<1>8. TypeOK'
  BY <1>1, <1>5, <1>6 DEF TypeOK, Damage
<1> HIDE DEF d
<1> QED BY <1>1, <1>3, <1>4, <1>7, <1>8 DEF IInv, Damage

----------------------------------------------------------------------------
LEMMA InvInit == ASSUME MaxRepairs = 0, Init PROVE IInv
<1>1. Empty \in Content /\ Backed(Empty) /\ Empty.snapshots = {}
  BY ConstantsAssumption DEF Empty, Content, Backed, Vector, Nothing
<1>2. NoDirectory \in Directory /\ DatabaseInv(NoDirectory)
  BY <1>1 DEF NoDirectory, Directory, DatabaseInv, Health
<1>3. Dir = {0}
  BY OneDirectory
<1>4. disk = [d \in {0} |-> NoDirectory] /\ disk[0] = NoDirectory
  BY <1>3 DEF Init
<1>5. leads \in [Dir -> Dir] /\ leads[0] = 0
  BY <1>3 DEF Init
<1>6. budget \in [kills: 0 .. MaxKills, errors: 0 .. MaxErrors, damage: 0 .. MaxDamage]
  BY ConstantsAssumption, SMT DEF Init
<1>7. latest \in [Archive -> Vector]
  BY ConstantsAssumption DEF Init, Vector, Nothing
<1>8. run \in [Process -> Command] /\ \A p \in Process : CommandInv(run[p], disk[0].db)
  BY IdleKnowsNothing DEF Init
<1>9. claimed \in BOOLEAN /\ repairs \in Dir
  BY <1>3 DEF Init
<1> QED BY <1>2, <1>3, <1>4, <1>5, <1>6, <1>7, <1>8, <1>9 DEF IInv, TypeOK

LEMMA InvStep == ASSUME IInv, MaxRepairs = 0, [Next]_vars PROVE IInv'
<1>1. CASE UNCHANGED vars
  BY <1>1 DEF vars, IInv, TypeOK
<1>2. CASE Publish
  BY <1>2, PublishKeeps
<1>3. CASE Damage
  BY <1>3, DamageKeeps
<1>4. ASSUME NEW p \in Process, NEW k \in Kind, NEW a \in Archive, Plan(p, k, a)
      PROVE  IInv'
  BY <1>4, PlanKeeps
<1>5. ASSUME NEW p \in Process, Step(p)
      PROVE  IInv'
  BY <1>5, NoRepairSteps, PrepareDestinationKeeps, InspectDownloadKeeps, LookupKeeps,
     ClaimKeeps, NameLockKeeps, OpenDatabaseKeeps, MigrateKeeps, BindKeeps,
     WriteWitnessKeeps, IngestKeeps, RecordKeeps, ReconcileKeeps, CloseDatabaseKeeps
     DEF Step
<1>6. ASSUME NEW p \in Process, Fail(p) \/ Kill(p)
      PROVE  IInv'
  BY <1>6, FailKeeps, KillKeeps
<1> QED BY <1>1, <1>2, <1>3, <1>4, <1>5, <1>6 DEF Next

(* While nothing is repaired, the invariant holds in every reachable       *)
(* state, however downloads, recoveries, kills and damage interleave.      *)
THEOREM InductiveInvariant == ASSUME MaxRepairs = 0 PROVE Spec => []IInv
<1>1. Init => IInv
  BY InvInit
<1>2. IInv /\ [Next]_vars => IInv'
  BY InvStep
<1> QED BY <1>1, <1>2, PTL DEF Spec

(* A status report of "current" is true: the latest snapshot of every      *)
(* machine is in the database the report was made from.                    *)
THEOREM CurrentIsTrue == ASSUME MaxRepairs = 0 PROVE Spec => []StatusIsTrue
<1>1. IInv => StatusIsTrue
  <2> SUFFICES ASSUME IInv, NEW a \in Archive, Status(a) = "current", NEW m \in Machine,
                      latest[a][m] # 0
               PROVE  <<a, m, latest[a][m]>> \in Here.file.snapshots
    BY DEF StatusIsTrue
  <2>1. StateOf(Here, a, latest[a]) = "current"
    BY DEF Status, Inspect
  <2>2. Here.file.bound = a /\ Here.file.vector = latest[a]
    BY <2>1 DEF StateOf
  <2>3. Backed(Here.file)
    BY DEF IInv, DatabaseInv, Here
  <2> QED BY <2>2, <2>3 DEF Backed
<1> QED BY <1>1, InductiveInvariant, PTL

(* A download that closes without an error leaves every snapshot it        *)
(* planned in the database the public path leads to, also those it did not *)
(* spool because it found them recorded before it held the lock.           *)
THEOREM SuccessDelivered == ASSUME MaxRepairs = 0 PROVE Spec => SuccessIsThere
<1> DEFINE Delivered ==
      \A p \in Process :
         CloseDatabase(p) /\ run[p].kind = "download" /\ run[p].ok =>
            \A m \in Machine : run[p].plan[m] # 0 =>
                <<run[p].archive, m, run[p].plan[m]>> \in Here'.db.snapshots
<1>1. IInv /\ [Next]_vars => [Delivered]_vars
  <2> SUFFICES ASSUME IInv, NEW p \in Process, CloseDatabase(p),
                      run[p].kind = "download", run[p].ok,
                      NEW m \in Machine, run[p].plan[m] # 0
               PROVE  <<run[p].archive, m, run[p].plan[m]>> \in Here'.db.snapshots
    OBVIOUS
  <2>1. <<run[p].archive, m, run[p].plan[m]>> \in disk[0].db.snapshots /\ run[p].dir = 0
    BY Before DEF CommandInv, CloseDatabase, At, Open
  <2>2. leads'[0] = 0 /\ disk'[0].db = disk[0].db
    <3>1. \/ UNCHANGED disk
          \/ disk' = [disk EXCEPT ![0].wal = FALSE, ![0].file = disk[0].db]
      BY <2>1 DEF CloseDatabase
    <3>2. leads'[0] = 0
      BY Before DEF CloseDatabase
    <3> QED BY <3>1, <3>2, Before DEF Directory
  <2> QED BY <2>1, <2>2 DEF Here
<1>2. Spec => [][Delivered]_vars
  BY <1>1, InductiveInvariant, PTL DEF Spec
<1> QED BY <1>2 DEF SuccessIsThere

----------------------------------------------------------------------------
(***************************************************************************)
(* The steps while at most one repair is promoted, a repair's own among    *)
(* them.                                                                   *)
(***************************************************************************)
\* What every step starts from: the public path and every path a command goes by
\* lead to the directory numbered by the repairs so far.
LEMMA RepairBefore ==
    ASSUME RepairInv, MaxRepairs \in {0, 1}
    PROVE  /\ repairs \in {0, 1} /\ repairs \in Dir /\ repairs <= MaxRepairs /\ 0 \in Dir /\ leads[0] = repairs
           /\ Dir \subseteq {0, 1} /\ Fresh \notin Dir /\ Fresh \in Nat
           /\ \A n \in Dir : n <= repairs => leads[n] = repairs
           /\ Here = disk[repairs] /\ disk \in [Dir -> Directory] /\ leads \in [Dir -> Dir]
           /\ \A d \in Dir : disk[d] \in Directory /\ disk[d].db \in Content /\ OwnHistory(disk[d])
           /\ run \in [Process -> Command]
           /\ \A p \in Process : /\ run[p] \in Command
                                 /\ PlaceInv(run[p], repairs, disk[repairs].db.bound)
           /\ claimed \in BOOLEAN /\ latest \in [Archive -> Vector]
           /\ budget \in [kills: 0 .. MaxKills, errors: 0 .. MaxErrors, damage: 0 .. MaxDamage]
<1>1. TypeOK
  BY DEF RepairInv
<1>2. repairs \in {0, 1} /\ repairs \in Dir /\ repairs <= MaxRepairs /\ 0 \in Dir
      /\ Dir \subseteq {0, 1} /\ Fresh \notin Dir /\ Fresh \in Nat
  BY <1>1 DEF TypeOK, Dir, Fresh
<1>3. leads[0] = repairs /\ \A n \in Dir : n <= repairs => leads[n] = repairs
  BY <1>2 DEF RepairInv
<1>4. disk \in [Dir -> Directory] /\ leads \in [Dir -> Dir] /\ run \in [Process -> Command]
      /\ claimed \in BOOLEAN /\ latest \in [Archive -> Vector]
      /\ budget \in [kills: 0 .. MaxKills, errors: 0 .. MaxErrors, damage: 0 .. MaxDamage]
  BY <1>1 DEF TypeOK
<1>5. \A d \in Dir : disk[d] \in Directory /\ disk[d].db \in Content /\ OwnHistory(disk[d])
  BY <1>4 DEF RepairInv, Directory
<1>6. Here = disk[repairs]
  BY <1>3 DEF Here
<1>7. \A p \in Process : /\ run[p] \in Command
                         /\ PlaceInv(run[p], repairs, disk[repairs].db.bound)
  BY <1>4 DEF RepairInv
<1> QED BY <1>2, <1>3, <1>4, <1>5, <1>6, <1>7

\* One process goes on as r and leaves the live directory as d.
LEMMA MoveKeeps ==
    ASSUME RepairInv, MaxRepairs \in {0, 1},
           NEW p \in Process, NEW r \in Command, NEW d \in Directory,
           run' = [run EXCEPT ![p] = r], disk' = [disk EXCEPT ![repairs] = d],
           UNCHANGED <<latest, leads, repairs>>, claimed' \in BOOLEAN,
           budget' \in [kills: 0 .. MaxKills, errors: 0 .. MaxErrors, damage: 0 .. MaxDamage],
           OwnHistory(d), disk[repairs].db.bound \in {None, d.db.bound},
           PlaceInv(r, repairs, d.db.bound),
           r.kind = "repair" => \A q \in Process : q # p => run[q].kind # "repair",
           r.pc = "build" => \A q \in Process : q # p => run[q].pc \notin Open,
           r.pc \in Open => \A q \in Process : q # p => run[q].pc # "build"
    PROVE  RepairInv'
<1>1. disk' \in [Dir -> Directory] /\ disk'[repairs] = d
      /\ \A e \in Dir : e # repairs => disk'[e] = disk[e]
  BY RepairBefore
<1>2. run' \in [Process -> Command] /\ run'[p] = r /\ \A q \in Process : q # p => run'[q] = run[q]
  BY RepairBefore
<1>3. TypeOK'
  <2>1. TypeOK
    BY DEF RepairInv
  <2> QED BY <1>1, <1>2, <2>1 DEF TypeOK
<1>4. \A e \in Dir : OwnHistory(disk'[e])
  BY <1>1, RepairBefore
<1>5. ASSUME NEW q \in Process PROVE PlaceInv(run'[q], repairs, d.db.bound)
  <2>1. CASE q = p
    BY <1>2, <2>1
  <2>2. CASE q # p
    <3>1. PlaceInv(run[q], repairs, disk[repairs].db.bound)
      BY RepairBefore
    <3>2. run[q].pc \in {"witness", "ingest"} => disk[repairs].db.bound = d.db.bound
      <4>1. run[q].pc \in {"witness", "ingest"} => disk[repairs].db.bound \in Archive
        BY <3>1 DEF PlaceInv
      <4> QED BY <4>1, ConstantsAssumption
    <3>3. PlaceInv(run[q], repairs, d.db.bound)
      BY <3>1, <3>2 DEF PlaceInv
    <3> QED BY <1>2, <2>2, <3>3
  <2> QED BY <2>1, <2>2
<1>6. \A q, s \in Process : run'[q].kind = "repair" /\ run'[s].kind = "repair" => q = s
  BY <1>2 DEF RepairInv
<1>7. \A q, s \in Process : run'[q].pc = "build" => run'[s].pc \notin Open
  <2>1. r.pc = "build" => r.pc \notin Open
    BY DEF Open
  <2> QED BY <1>2, <2>1 DEF RepairInv
<1>8. \A n \in Dir : leads'[n] = IF n = 0 THEN repairs' ELSE n
  BY DEF RepairInv
<1> QED BY <1>1, <1>3, <1>4, <1>5, <1>6, <1>7, <1>8 DEF RepairInv

LEMMA StayKeeps ==
    ASSUME RepairInv, MaxRepairs \in {0, 1}, NEW p \in Process, NEW r \in Command,
           run' = [run EXCEPT ![p] = r],
           UNCHANGED <<latest, leads, disk, repairs>>, claimed' \in BOOLEAN,
           budget' \in [kills: 0 .. MaxKills, errors: 0 .. MaxErrors, damage: 0 .. MaxDamage],
           PlaceInv(r, repairs, disk[repairs].db.bound),
           r.kind = "repair" => \A q \in Process : q # p => run[q].kind # "repair",
           r.pc = "build" => \A q \in Process : q # p => run[q].pc \notin Open,
           r.pc \in Open => \A q \in Process : q # p => run[q].pc # "build"
    PROVE  RepairInv'
<1>1. disk' = [disk EXCEPT ![repairs] = disk[repairs]]
  BY RepairBefore
<1>2. OwnHistory(disk[repairs]) /\ disk[repairs] \in Directory
  BY RepairBefore
<1> QED BY <1>1, <1>2, MoveKeeps

LEMMA IdleHasNoPlace ==
    ASSUME NEW n \in Nat, NEW bound, MaxRepairs \in {0, 1}
    PROVE  Idle \in Command /\ PlaceInv(Idle, n, bound) /\ Idle.kind # "repair"
           /\ Idle.pc # "build" /\ Idle.pc \notin Open
<1>1. Idle \in Command
  <2>1. 0 \in Dir
    BY DEF Dir
  <2> QED BY <2>1, ConstantsAssumption DEF Idle, Command, Phase, Open, Kind, Vector, Nothing
<1>2. PlaceInv(Idle, n, bound)
  BY DEF Idle, PlaceInv, Open
<1> QED BY <1>1, <1>2 DEF Idle, Open

LEMMA EndStays ==
    ASSUME RepairInv, MaxRepairs \in {0, 1}, NEW p \in Process, End(p),
           UNCHANGED <<latest, leads, disk, repairs>>, claimed' \in BOOLEAN,
           budget' \in [kills: 0 .. MaxKills, errors: 0 .. MaxErrors, damage: 0 .. MaxDamage]
    PROVE  RepairInv'
<1>1. repairs \in Nat
  BY RepairBefore
<1>2. run' = [run EXCEPT ![p] = Idle]
  BY DEF End
<1>3. Idle \in Command /\ PlaceInv(Idle, repairs, disk[repairs].db.bound) /\ Idle.kind # "repair"
      /\ Idle.pc # "build" /\ Idle.pc \notin Open
  BY <1>1, IdleHasNoPlace
<1> QED BY <1>2, <1>3, StayKeeps

\* A process that goes on to another phase of the same command, without opening a
\* database or beginning to build.
LEMMA GoesOn ==
    ASSUME RepairInv, MaxRepairs \in {0, 1}, NEW p \in Process, NEW r \in Command,
           run' = [run EXCEPT ![p] = r], r.kind = run[p].kind,
           UNCHANGED <<latest, leads, disk, repairs>>, claimed' \in BOOLEAN,
           budget' \in [kills: 0 .. MaxKills, errors: 0 .. MaxErrors, damage: 0 .. MaxDamage],
           PlaceInv(r, repairs, disk[repairs].db.bound),
           r.pc # "build", r.pc \in Open => run[p].pc \in Open
    PROVE  RepairInv'
BY StayKeeps DEF RepairInv

\* A process with the database open commits and goes on as r.
LEMMA CommitStays ==
    ASSUME RepairInv, MaxRepairs \in {0, 1}, NEW p \in Process, NEW r \in Command, NEW new \in Content,
           Commit(repairs, new), run' = [run EXCEPT ![p] = r],
           UNCHANGED <<latest, claimed, leads, repairs, budget>>,
           disk[repairs].witness # None => new.bound = disk[repairs].witness,
           \A s \in new.snapshots : s[1] = new.bound,
           disk[repairs].db.bound \in {None, new.bound},
           PlaceInv(r, repairs, new.bound), run[p].pc \in Open, r.pc \in Open, r.kind = run[p].kind
    PROVE  RepairInv'
<1>1. disk[repairs] \in Directory /\ disk \in [Dir -> Directory] /\ repairs \in Dir
  BY RepairBefore
<1>2. PICK file \in {disk[repairs].file, new} :
         disk' = [disk EXCEPT ![repairs].db = new, ![repairs].file = file, ![repairs].wal = TRUE]
  BY DEF Commit
<1> DEFINE d == [disk[repairs] EXCEPT !.db = new, !.file = file, !.wal = TRUE]
<1>3. disk' = [disk EXCEPT ![repairs] = d]
  BY <1>1, <1>2
<1>4. d \in Directory /\ d.db = new /\ d.witness = disk[repairs].witness
  BY <1>1 DEF Directory
<1> HIDE DEF d
<1>5. OwnHistory(d)
  BY <1>4 DEF OwnHistory
<1>6. /\ r.kind = "repair" => \A q \in Process : q # p => run[q].kind # "repair"
      /\ r.pc # "build" /\ \A q \in Process : q # p => run[q].pc # "build"
  BY DEF RepairInv, Open
<1>7. claimed' \in BOOLEAN
      /\ budget' \in [kills: 0 .. MaxKills, errors: 0 .. MaxErrors, damage: 0 .. MaxDamage]
  BY RepairBefore
<1> QED BY <1>3, <1>4, <1>5, <1>6, <1>7, MoveKeeps

LEMMA PlanStays ==
    ASSUME RepairInv, MaxRepairs \in {0, 1}, NEW p \in Process, NEW k \in Kind, NEW a \in Archive,
           Plan(p, k, a)
    PROVE  RepairInv'
<1> DEFINE r == [Idle EXCEPT !.pc = IF k = "repair" THEN "inspect" ELSE "destination",
                             !.kind = k, !.archive = a, !.plan = latest[a]]
<1>1. run' = [run EXCEPT ![p] = r] /\ UNCHANGED <<latest, claimed, leads, disk, repairs, budget>>
  BY DEF Plan
<1>2. repairs \in {0, 1} /\ latest[a] \in Vector
  BY RepairBefore
<1>3. r \in Command
  BY <1>2, IdleHasNoPlace DEF Command, Phase
<1>4. k = "repair" => repairs = 0 /\ MaxRepairs = 1 /\ \A q \in Process : run[q].kind # "repair"
  <2>1. SUFFICES ASSUME k = "repair"
                 PROVE  repairs = 0 /\ MaxRepairs = 1 /\ \A q \in Process : run[q].kind # "repair"
    OBVIOUS
  <2>2. repairs + Cardinality(Repairing) < MaxRepairs
    BY <2>1 DEF Plan
  <2>3. CASE Repairing = {}
    <3>1. Cardinality(Repairing) = 0
      BY <2>3, FS_EmptySet
    <3> QED BY <1>2, <2>2, <2>3, <3>1 DEF Repairing
  <2>4. CASE Repairing # {}
    <3>1. PICK q \in Repairing : TRUE
      BY <2>4
    <3>2. Repairing = {q}
      BY <3>1 DEF Repairing, RepairInv
    <3>3. Cardinality(Repairing) = 1
      BY <3>2, FS_Singleton
    <3> QED BY <1>2, <2>2, <3>3
  <2> QED BY <2>3, <2>4
<1>5. /\ r.pc = (IF k = "repair" THEN "inspect" ELSE "destination") /\ r.kind = k /\ r.archive = a
      /\ r.path = 0 /\ r.todo = {} /\ r.dir = None /\ r.lock = None
  BY DEF Idle
<1> HIDE DEF r
<1>6. PlaceInv(r, repairs, disk[repairs].db.bound)
  BY <1>2, <1>4, <1>5 DEF PlaceInv, Open
<1>7. r.pc # "build" /\ r.pc \notin Open
  BY <1>5 DEF Open
<1>8. claimed' \in BOOLEAN
      /\ budget' \in [kills: 0 .. MaxKills, errors: 0 .. MaxErrors, damage: 0 .. MaxDamage]
  BY <1>1, RepairBefore
<1> QED BY <1>1, <1>3, <1>4, <1>5, <1>6, <1>7, <1>8, StayKeeps

\* A command goes to a phase before it holds a lock.
LEMMA GotoStays ==
    ASSUME RepairInv, MaxRepairs \in {0, 1}, NEW p \in Process,
           NEW phase \in {"lookup", "health", "begin"}, Goto(p, phase),
           run[p].pc \in {"inspect", "health"}, run[p].kind = "repair" <=> phase # "lookup",
           UNCHANGED <<latest, claimed, leads, disk, repairs, budget>>
    PROVE  RepairInv'
<1> DEFINE r == [run[p] EXCEPT !.pc = phase]
<1>1. run' = [run EXCEPT ![p] = r] /\ run[p] \in Command
      /\ PlaceInv(run[p], repairs, disk[repairs].db.bound)
  BY RepairBefore DEF Goto
<1>2. r \in Command
  BY <1>1 DEF Command, Phase
<1>3. /\ r.pc = phase /\ r.kind = run[p].kind /\ r.archive = run[p].archive /\ r.path = run[p].path
      /\ r.todo = run[p].todo /\ r.plan = run[p].plan /\ r.dir = run[p].dir /\ r.lock = run[p].lock
  BY <1>1 DEF Command
<1> HIDE DEF r
<1>4. PlaceInv(r, repairs, disk[repairs].db.bound)
  BY <1>1, <1>3 DEF PlaceInv, Open
<1>5. r.pc # "build" /\ r.pc \notin Open
  BY <1>3 DEF Open
<1> QED BY <1>1, <1>2, <1>3, <1>4, <1>5, RepairBefore, GoesOn

LEMMA PrepareDestinationStays ==
    ASSUME RepairInv, MaxRepairs \in {0, 1}, NEW p \in Process, PrepareDestination(p) PROVE RepairInv'
<1> DEFINE path == IF claimed THEN leads[0] ELSE Fresh
           pc == IF run[p].kind = "download" THEN "inspect" ELSE "claim"
           r == [run[p] EXCEPT !.path = path, !.pc = pc]
<1>1. run' = [run EXCEPT ![p] = r] /\ run[p] \in Command /\ run[p].pc = "destination"
      /\ PlaceInv(run[p], repairs, disk[repairs].db.bound)
  BY RepairBefore DEF PrepareDestination, At
<1>2. path \in Dir \cup {Fresh} /\ (path # Fresh => path <= repairs)
  BY RepairBefore
<1>3. pc \in {"inspect", "claim"}
  OBVIOUS
<1> HIDE DEF path, pc
<1>4. r \in Command
  BY <1>1, <1>2, <1>3 DEF Command, Phase
<1>5. /\ r.pc = pc /\ r.kind = run[p].kind /\ r.archive = run[p].archive /\ r.path = path
      /\ r.todo = run[p].todo /\ r.plan = run[p].plan /\ r.dir = run[p].dir /\ r.lock = run[p].lock
  BY <1>1 DEF Command
<1> HIDE DEF r
<1>6. PlaceInv(r, repairs, disk[repairs].db.bound)
  BY <1>1, <1>2, <1>3, <1>5 DEF PlaceInv, Open
<1>7. r.pc # "build" /\ r.pc \notin Open
  BY <1>3, <1>5 DEF Open
<1>8. /\ UNCHANGED <<latest, leads, disk, repairs>> /\ claimed' \in BOOLEAN
      /\ budget' \in [kills: 0 .. MaxKills, errors: 0 .. MaxErrors, damage: 0 .. MaxDamage]
  BY RepairBefore DEF PrepareDestination
<1> QED BY <1>1, <1>4, <1>5, <1>6, <1>7, <1>8, GoesOn

LEMMA LookupStays ==
    ASSUME RepairInv, MaxRepairs \in {0, 1}, NEW p \in Process, Lookup(p) PROVE RepairInv'
<1>1. CASE End(p)
  BY <1>1, RepairBefore, EndStays DEF Lookup
<1>2. CASE ~End(p)
  <2> DEFINE planned == {m \in Machine : run[p].plan[m] # 0}
  <2>1. PICK todo \in SUBSET planned : run' = [run EXCEPT ![p].pc = "claim", ![p].todo = todo]
    BY <1>2 DEF Lookup
  <2> DEFINE r == [run[p] EXCEPT !.pc = "claim", !.todo = todo]
  <2>2. run' = [run EXCEPT ![p] = r] /\ run[p] \in Command /\ run[p].pc = "lookup"
        /\ PlaceInv(run[p], repairs, disk[repairs].db.bound)
    BY <2>1, RepairBefore DEF Lookup, At
  <2>3. r \in Command
    BY <2>2 DEF Command, Phase
  <2>4. /\ r.pc = "claim" /\ r.kind = run[p].kind /\ r.archive = run[p].archive /\ r.path = run[p].path
        /\ r.todo = todo /\ r.plan = run[p].plan /\ r.dir = run[p].dir /\ r.lock = run[p].lock
    BY <2>2 DEF Command
  <2> HIDE DEF r
  <2>5. run[p].kind = "repair" => FALSE
    BY <2>2 DEF PlaceInv
  <2>6. PlaceInv(r, repairs, disk[repairs].db.bound)
    BY <2>2, <2>4, <2>5 DEF PlaceInv, Open
  <2>7. r.pc # "build" /\ r.pc \notin Open
    BY <2>4 DEF Open
  <2> QED BY <2>2, <2>3, <2>4, <2>6, <2>7, RepairBefore, GoesOn DEF Lookup
<1> QED BY <1>1, <1>2

LEMMA InspectDownloadStays ==
    ASSUME RepairInv, MaxRepairs \in {0, 1}, NEW p \in Process, InspectDownload(p) PROVE RepairInv'
<1>1. CASE End(p)
  BY <1>1, RepairBefore, EndStays DEF InspectDownload
<1>2. CASE Goto(p, "lookup")
  BY <1>2, GotoStays DEF InspectDownload, At
<1> QED BY <1>1, <1>2 DEF InspectDownload

LEMMA ClaimStays ==
    ASSUME RepairInv, MaxRepairs \in {0, 1}, NEW p \in Process, Claim(p) PROVE RepairInv'
<1>1. /\ UNCHANGED <<latest, leads, disk, repairs>> /\ claimed' \in BOOLEAN
      /\ budget' \in [kills: 0 .. MaxKills, errors: 0 .. MaxErrors, damage: 0 .. MaxDamage]
  BY RepairBefore DEF Claim
<1>2. CASE End(p)
  BY <1>1, <1>2, EndStays
<1>3. CASE ~End(p)
  <2>1. run[p] \in Command /\ run[p].pc = "claim" /\ PlaceInv(run[p], repairs, disk[repairs].db.bound)
    BY RepairBefore DEF Claim, At
  <2>2. \/ run' = [run EXCEPT ![p].pc = "name", ![p].path = 0]
        \/ run[p].path # Fresh /\ run' = [run EXCEPT ![p].pc = "name"]
    BY <1>3 DEF Claim, Goto
  <2>3. PICK path \in {0, run[p].path} :
           run' = [run EXCEPT ![p].pc = "name", ![p].path = path] /\ path # Fresh
    <3>1. 0 # Fresh
      BY RepairBefore
    <3>2. CASE run' = [run EXCEPT ![p].pc = "name", ![p].path = 0]
      BY <3>1, <3>2
    <3>3. CASE run[p].path # Fresh /\ run' = [run EXCEPT ![p].pc = "name"]
      <4>1. [run[p] EXCEPT !.pc = "name"] = [run[p] EXCEPT !.pc = "name", !.path = run[p].path]
        BY <2>1 DEF Command
      <4> QED BY <3>3, <4>1
    <3> QED BY <2>2, <3>2, <3>3
  <2> DEFINE r == [run[p] EXCEPT !.pc = "name", !.path = path]
  <2>4. run' = [run EXCEPT ![p] = r]
    BY <2>3, RepairBefore
  <2>5. path \in Dir /\ path <= repairs
    <3>1. run[p].path \in Dir \cup {Fresh}
      BY <2>1 DEF Command
    <3>2. run[p].path # Fresh => run[p].path <= repairs
      BY <2>1 DEF PlaceInv
    <3> QED BY <2>3, <3>1, <3>2, RepairBefore
  <2>6. r \in Command
    BY <2>1, <2>5 DEF Command, Phase
  <2>7. /\ r.pc = "name" /\ r.kind = run[p].kind /\ r.archive = run[p].archive /\ r.path = path
        /\ r.todo = run[p].todo /\ r.plan = run[p].plan /\ r.dir = run[p].dir /\ r.lock = run[p].lock
    BY <2>1 DEF Command
  <2> HIDE DEF r
  <2>8. PlaceInv(r, repairs, disk[repairs].db.bound)
    BY <2>1, <2>3, <2>5, <2>7 DEF PlaceInv, Open
  <2>9. r.pc # "build" /\ r.pc \notin Open
    BY <2>7 DEF Open
  <2> QED BY <1>1, <2>4, <2>6, <2>7, <2>8, <2>9, GoesOn
<1> QED BY <1>2, <1>3

\* The lock is named while the path leads to the live directory, so before the
\* exchange there is one lock.
LEMMA NameLockStays ==
    ASSUME RepairInv, MaxRepairs \in {0, 1}, NEW p \in Process, NameLock(p) PROVE RepairInv'
<1> DEFINE lock == leads[run[p].path]
           r == [run[p] EXCEPT !.pc = "wait", !.lock = lock]
<1>1. run[p] \in Command /\ run[p].pc = "name" /\ PlaceInv(run[p], repairs, disk[repairs].db.bound)
  BY RepairBefore DEF NameLock, At
<1>2. lock = repairs /\ repairs \in Dir
  <2>1. run[p].path # Fresh /\ run[p].path <= repairs /\ run[p].path \in Dir \cup {Fresh}
    BY <1>1 DEF PlaceInv, Command
  <2> QED BY <2>1, RepairBefore
<1>3. run' = [run EXCEPT ![p] = r]
  BY RepairBefore DEF NameLock
<1> HIDE DEF lock
<1>4. r \in Command
  BY <1>1, <1>2 DEF Command, Phase
<1>5. /\ r.pc = "wait" /\ r.kind = run[p].kind /\ r.archive = run[p].archive /\ r.path = run[p].path
      /\ r.todo = run[p].todo /\ r.plan = run[p].plan /\ r.dir = run[p].dir /\ r.lock = repairs
  BY <1>1, <1>2 DEF Command
<1> HIDE DEF r
<1>6. PlaceInv(r, repairs, disk[repairs].db.bound)
  BY <1>1, <1>5 DEF PlaceInv, Open
<1>7. r.pc # "build" /\ r.pc \notin Open
  BY <1>5 DEF Open
<1> QED BY <1>3, <1>4, <1>5, <1>6, <1>7, RepairBefore, GoesOn DEF NameLock

\* Nobody opens a database while a repair builds: both would hold the one lock.
LEMMA OpenDatabaseStays ==
    ASSUME RepairInv, MaxRepairs \in {0, 1}, NEW p \in Process, OpenDatabase(p) PROVE RepairInv'
<1>1. /\ run[p] \in Command /\ run[p].pc = "wait" /\ run[p].kind # "repair"
      /\ PlaceInv(run[p], repairs, disk[repairs].db.bound) /\ repairs \in Dir
  BY RepairBefore DEF OpenDatabase, At
<1>2. leads[run[p].path] = repairs
  <2>1. run[p].path # Fresh /\ run[p].path <= repairs /\ run[p].path \in Dir \cup {Fresh}
    BY <1>1 DEF PlaceInv, Command
  <2> QED BY <2>1, RepairBefore
<1>3. CASE End(p) /\ UNCHANGED disk
  BY <1>3, RepairBefore, EndStays DEF OpenDatabase
<1>4. CASE /\ run' = [run EXCEPT ![p].pc = "migrate", ![p].dir = repairs]
           /\ disk' = [disk EXCEPT ![repairs].exists = TRUE,
                                   ![repairs].wal = @ \/ disk[repairs].exists]
  <2> DEFINE r == [run[p] EXCEPT !.pc = "migrate", !.dir = repairs]
             d == [disk[repairs] EXCEPT !.exists = TRUE, !.wal = @ \/ disk[repairs].exists]
  <2>1. run' = [run EXCEPT ![p] = r]
    BY <1>4, RepairBefore
  <2>2. disk' = [disk EXCEPT ![repairs] = d]
    BY <1>4, RepairBefore
  <2>3. r \in Command
    BY <1>1 DEF Command, Phase, Open
  <2>4. d \in Directory /\ d.db = disk[repairs].db /\ d.witness = disk[repairs].witness
    <3>1. disk[repairs] \in Directory
      BY RepairBefore
    <3>2. (disk[repairs].wal \/ disk[repairs].exists) \in BOOLEAN
      OBVIOUS
    <3> QED BY <3>1, <3>2 DEF Directory
  <2>5. /\ r.pc = "migrate" /\ r.kind = run[p].kind /\ r.archive = run[p].archive /\ r.path = run[p].path
        /\ r.todo = run[p].todo /\ r.plan = run[p].plan /\ r.dir = repairs /\ r.lock = run[p].lock
    BY <1>1 DEF Command
  <2> HIDE DEF r, d
  <2>6. OwnHistory(d)
    BY <1>1, <2>4, RepairBefore DEF OwnHistory
  <2>7. PlaceInv(r, repairs, d.db.bound)
    BY <1>1, <2>5 DEF PlaceInv, Open
  <2>8. ASSUME NEW q \in Process, q # p, run[q].pc = "build" PROVE FALSE
    <3>1. PlaceInv(run[q], repairs, disk[repairs].db.bound)
      BY RepairBefore
    <3>2. run[q].kind = "repair" /\ repairs = 0 /\ run[q].lock = 0
      BY <2>8, <3>1 DEF PlaceInv
    <3>3. run[p].lock = 0
      BY <1>1, <3>2 DEF PlaceInv
    <3> QED BY <2>8, <3>2, <3>3 DEF OpenDatabase, Obtainable, Holds
  <2>9. r.kind # "repair" /\ r.pc # "build"
    BY <1>1, <2>5
  <2>10. /\ UNCHANGED <<latest, leads, repairs>> /\ claimed' \in BOOLEAN
         /\ budget' \in [kills: 0 .. MaxKills, errors: 0 .. MaxErrors, damage: 0 .. MaxDamage]
    BY RepairBefore DEF OpenDatabase
  <2>11. disk[repairs].db.bound \in {None, d.db.bound}
    BY <2>4
  <2> QED BY <2>1, <2>2, <2>3, <2>4, <2>6, <2>7, <2>8, <2>9, <2>10, <2>11, MoveKeeps
<1> QED BY <1>2, <1>3, <1>4 DEF OpenDatabase

\* A command with the database open, between two of its steps.
LEMMA OpenBefore ==
    ASSUME RepairInv, MaxRepairs \in {0, 1}, NEW p \in Process, run[p].pc \in Open
    PROVE  /\ run[p] \in Command /\ PlaceInv(run[p], repairs, disk[repairs].db.bound)
           /\ run[p].dir = repairs /\ leads[run[p].path] = repairs /\ run[p].archive \in Archive
           /\ run[p].kind # "repair" /\ disk[repairs].db \in Content /\ disk[repairs] \in Directory
           /\ OwnHistory(disk[repairs]) /\ disk \in [Dir -> Directory] /\ repairs \in Dir
           /\ run \in [Process -> Command]
<1>1. run[p] \in Command /\ PlaceInv(run[p], repairs, disk[repairs].db.bound)
  BY RepairBefore
<1>2. run[p].dir = repairs /\ run[p].kind # "repair" /\ run[p].archive \in Archive
  BY <1>1 DEF PlaceInv, Open
<1>3. leads[run[p].path] = repairs
  <2>1. run[p].path # Fresh /\ run[p].path <= repairs /\ run[p].path \in Dir \cup {Fresh}
    BY <1>1 DEF PlaceInv, Command
  <2> QED BY <2>1, RepairBefore
<1> QED BY <1>1, <1>2, <1>3, RepairBefore

LEMMA MigrateStays ==
    ASSUME RepairInv, MaxRepairs \in {0, 1}, NEW p \in Process, Migrate(p) PROVE RepairInv'
<1> DEFINE next == IF run[p].kind = "download" THEN "bind" ELSE "reconcile"
           r == [run[p] EXCEPT !.pc = next]
           new == [disk[repairs].db EXCEPT !.tables = TRUE]
<1>1. run[p].pc = "migrate" /\ run[p].pc \in Open
  BY DEF Migrate, At, Open
<1>2. run[p].dir = repairs /\ run[p] \in Command
  BY <1>1, OpenBefore
<1>3. Commit(repairs, new)
  BY <1>2 DEF Migrate
<1>4. run' = [run EXCEPT ![p] = r]
  BY RepairBefore DEF Migrate, Goto
<1>5. next \in {"bind", "reconcile"}
  OBVIOUS
<1> HIDE DEF next
<1>6. r \in Command
  BY <1>2, <1>5 DEF Command, Phase, Open
<1>7. /\ r.pc = next /\ r.kind = run[p].kind /\ r.archive = run[p].archive /\ r.path = run[p].path
      /\ r.todo = run[p].todo /\ r.plan = run[p].plan /\ r.dir = run[p].dir /\ r.lock = run[p].lock
  BY <1>2 DEF Command
<1>8. new \in Content /\ new.bound = disk[repairs].db.bound /\ new.snapshots = disk[repairs].db.snapshots
  BY <1>1, OpenBefore DEF Content
<1> HIDE DEF r, new
<1>9. PlaceInv(r, repairs, new.bound)
  <2>1. PlaceInv(run[p], repairs, disk[repairs].db.bound)
    BY <1>1, OpenBefore
  <2> QED BY <1>1, <1>5, <1>7, <2>1 DEF PlaceInv, Open
<1>10. OwnHistory(disk[repairs])
  BY RepairBefore
<1>11. r.pc \in Open
  BY <1>5, <1>7 DEF Open
<1> QED BY <1>1, <1>3, <1>4, <1>6, <1>7, <1>8, <1>9, <1>10, <1>11, CommitStays DEF Migrate, OwnHistory

\* A command that closes without having changed the database.
LEMMA ClosesStays ==
    ASSUME RepairInv, MaxRepairs \in {0, 1}, NEW p \in Process, run[p].pc \in Open,
           run' = [run EXCEPT ![p].pc = "close", ![p].ok = FALSE],
           UNCHANGED <<latest, leads, disk, repairs>>, claimed' \in BOOLEAN,
           budget' \in [kills: 0 .. MaxKills, errors: 0 .. MaxErrors, damage: 0 .. MaxDamage]
    PROVE  RepairInv'
<1> DEFINE r == [run[p] EXCEPT !.pc = "close", !.ok = FALSE]
<1>1. run' = [run EXCEPT ![p] = r] /\ run[p] \in Command
      /\ PlaceInv(run[p], repairs, disk[repairs].db.bound)
  BY RepairBefore
<1>2. r \in Command
  BY <1>1 DEF Command, Phase, Open
<1>3. /\ r.pc = "close" /\ r.kind = run[p].kind /\ r.archive = run[p].archive /\ r.path = run[p].path
      /\ r.todo = run[p].todo /\ r.plan = run[p].plan /\ r.dir = run[p].dir /\ r.lock = run[p].lock
  BY <1>1 DEF Command
<1> HIDE DEF r
<1>4. PlaceInv(r, repairs, disk[repairs].db.bound)
  BY <1>1, <1>3 DEF PlaceInv, Open
<1>5. r.pc # "build"
  BY <1>3
<1> QED BY <1>1, <1>2, <1>3, <1>4, <1>5, GoesOn

\* Binding row and witness are compared with the Archive before either is written,
\* and both are those of the live directory.
LEMMA BindStays ==
    ASSUME RepairInv, MaxRepairs \in {0, 1}, NEW p \in Process, Bind(p) PROVE RepairInv'
<1> DEFINE a == run[p].archive
           witness == disk[repairs].witness
<1>1. run[p].pc = "bind" /\ run[p].pc \in Open
  BY DEF Bind, At, Open
<1>2. /\ run[p].dir = repairs /\ run[p] \in Command /\ a \in Archive /\ leads[run[p].path] = repairs
      /\ PlaceInv(run[p], repairs, disk[repairs].db.bound) /\ disk[repairs].db \in Content
      /\ OwnHistory(disk[repairs])
  BY <1>1, OpenBefore
<1>3. CASE ~(witness \in {None, a} /\ disk[repairs].db.bound \in {None, a})
  BY <1>1, <1>2, <1>3, RepairBefore, ClosesStays DEF Bind
<1>4. CASE witness \in {None, a} /\ disk[repairs].db.bound \in {None, a}
  <2> DEFINE next == IF witness = None THEN "witness" ELSE "ingest"
             new == [disk[repairs].db EXCEPT !.bound = a]
             r == [run[p] EXCEPT !.pc = next]
  <2>1. Commit(repairs, new) /\ run' = [run EXCEPT ![p] = r]
    BY <1>2, <1>4, RepairBefore DEF Bind, Goto
  <2>2. next \in {"witness", "ingest"}
    OBVIOUS
  <2> HIDE DEF next
  <2>3. r \in Command
    BY <1>2, <2>2 DEF Command, Phase, Open
  <2>4. /\ r.pc = next /\ r.kind = run[p].kind /\ r.archive = a /\ r.path = run[p].path
        /\ r.todo = run[p].todo /\ r.plan = run[p].plan /\ r.dir = run[p].dir /\ r.lock = run[p].lock
    BY <1>2 DEF Command
  <2>5. new \in Content /\ new.bound = a /\ new.snapshots = disk[repairs].db.snapshots
    BY <1>2 DEF Content
  <2> HIDE DEF r, new
  <2>6. \A s \in new.snapshots : s[1] = new.bound
    <3>1. SUFFICES ASSUME NEW s \in new.snapshots PROVE s[1] = new.bound
      OBVIOUS
    <3>2. s[1] = disk[repairs].db.bound /\ s[1] \in Archive
      BY <1>2, <2>5 DEF OwnHistory, Content
    <3> QED BY <1>4, <2>5, <3>2, ConstantsAssumption
  <2>7. PlaceInv(r, repairs, new.bound)
    BY <1>1, <1>2, <2>2, <2>4, <2>5 DEF PlaceInv, Open
  <2>8. r.pc \in Open
    BY <2>2, <2>4 DEF Open
  <2> QED BY <1>1, <1>4, <2>1, <2>3, <2>4, <2>5, <2>6, <2>7, <2>8, CommitStays DEF Bind
<1> QED BY <1>3, <1>4

LEMMA WriteWitnessStays ==
    ASSUME RepairInv, MaxRepairs \in {0, 1}, NEW p \in Process, WriteWitness(p) PROVE RepairInv'
<1> DEFINE r == [run[p] EXCEPT !.pc = "ingest"]
           d == [disk[repairs] EXCEPT !.witness = run[p].archive]
<1>1. run[p].pc = "witness" /\ run[p].pc \in Open
  BY DEF WriteWitness, At, Open
<1>2. /\ run[p] \in Command /\ run[p].archive \in Archive /\ leads[run[p].path] = repairs
      /\ PlaceInv(run[p], repairs, disk[repairs].db.bound) /\ disk[repairs] \in Directory
      /\ OwnHistory(disk[repairs])
  BY <1>1, OpenBefore
<1>3. run' = [run EXCEPT ![p] = r] /\ disk' = [disk EXCEPT ![repairs] = d]
  BY <1>2, RepairBefore DEF WriteWitness, Goto
<1>4. r \in Command
  BY <1>2 DEF Command, Phase, Open
<1>5. /\ r.pc = "ingest" /\ r.kind = run[p].kind /\ r.archive = run[p].archive /\ r.path = run[p].path
      /\ r.todo = run[p].todo /\ r.plan = run[p].plan /\ r.dir = run[p].dir /\ r.lock = run[p].lock
  BY <1>2 DEF Command
<1>6. d \in Directory /\ d.db = disk[repairs].db /\ d.witness = run[p].archive
  BY <1>2 DEF Directory
<1> HIDE DEF r, d
<1>7. disk[repairs].db.bound = run[p].archive
  BY <1>1, <1>2 DEF PlaceInv
<1>8. OwnHistory(d)
  BY <1>2, <1>6, <1>7 DEF OwnHistory
<1>9. PlaceInv(r, repairs, d.db.bound)
  BY <1>1, <1>2, <1>5, <1>6 DEF PlaceInv, Open
<1>10. /\ r.kind = "repair" => \A q \in Process : q # p => run[q].kind # "repair"
       /\ r.pc # "build" /\ \A q \in Process : q # p => run[q].pc # "build"
  BY <1>1, <1>5 DEF RepairInv
<1>11. /\ UNCHANGED <<latest, leads, repairs>> /\ claimed' \in BOOLEAN
       /\ budget' \in [kills: 0 .. MaxKills, errors: 0 .. MaxErrors, damage: 0 .. MaxDamage]
  BY RepairBefore DEF WriteWitness
<1>12. disk[repairs].db.bound \in {None, d.db.bound}
  BY <1>6
<1> QED BY <1>3, <1>4, <1>6, <1>8, <1>9, <1>10, <1>11, <1>12, MoveKeeps

LEMMA IngestStays ==
    ASSUME RepairInv, MaxRepairs \in {0, 1}, NEW p \in Process, Ingest(p) PROVE RepairInv'
<1>1. run[p].pc = "ingest" /\ run[p].pc \in Open
  BY DEF Ingest, At, Open
<1>2. /\ run[p] \in Command /\ run[p].archive \in Archive /\ run[p].dir = repairs
      /\ PlaceInv(run[p], repairs, disk[repairs].db.bound) /\ disk[repairs].db \in Content
      /\ OwnHistory(disk[repairs])
  BY <1>1, OpenBefore
<1>3. PICK m \in run[p].todo :
         /\ Commit(repairs, [disk[repairs].db EXCEPT
                                !.snapshots = @ \cup {<<run[p].archive, m, run[p].plan[m]>>}])
         /\ run' = [run EXCEPT ![p].todo = @ \ {m}]
  BY <1>2 DEF Ingest
<1> DEFINE s == <<run[p].archive, m, run[p].plan[m]>>
           new == [disk[repairs].db EXCEPT !.snapshots = @ \cup {s}]
           r == [run[p] EXCEPT !.todo = @ \ {m}]
<1>4. Commit(repairs, new) /\ run' = [run EXCEPT ![p] = r]
  BY <1>3, RepairBefore
<1>5. m \in Machine /\ run[p].plan[m] \in 1 .. MaxSnapshot
  <2>1. run[p].todo \subseteq Machine /\ run[p].plan \in [Machine -> 0 .. MaxSnapshot]
    BY <1>2 DEF Command, Vector
  <2>2. run[p].plan[m] # 0
    BY <1>2 DEF PlaceInv
  <2> QED BY <2>1, <2>2, ConstantsAssumption, SMT
<1>6. r \in Command
  BY <1>2 DEF Command
<1>7. /\ new \in Content /\ new.bound = disk[repairs].db.bound
      /\ new.snapshots = disk[repairs].db.snapshots \cup {s}
  BY <1>2, <1>5 DEF Content
<1>8. /\ r.pc = "ingest" /\ r.kind = run[p].kind /\ r.archive = run[p].archive /\ r.path = run[p].path
      /\ r.todo = run[p].todo \ {m} /\ r.plan = run[p].plan /\ r.dir = run[p].dir
      /\ r.lock = run[p].lock
  BY <1>1, <1>2 DEF Command
<1>9. s[1] = run[p].archive
  OBVIOUS
<1> HIDE DEF r, new, s
<1>10. disk[repairs].db.bound = run[p].archive
  BY <1>1, <1>2 DEF PlaceInv
<1>11. \A x \in new.snapshots : x[1] = new.bound
  BY <1>2, <1>7, <1>9, <1>10 DEF OwnHistory
<1>12. PlaceInv(r, repairs, new.bound)
  BY <1>1, <1>2, <1>7, <1>8 DEF PlaceInv, Open
<1>13. disk[repairs].witness # None => new.bound = disk[repairs].witness
  BY <1>2, <1>7 DEF OwnHistory
<1>14. r.pc \in Open
  BY <1>1, <1>8
<1> QED BY <1>1, <1>4, <1>6, <1>7, <1>8, <1>11, <1>12, <1>13, <1>14, CommitStays DEF Ingest

LEMMA RecordStays ==
    ASSUME RepairInv, MaxRepairs \in {0, 1}, NEW p \in Process, Record(p) PROVE RepairInv'
<1> DEFINE new == [disk[repairs].db EXCEPT !.vector = run[p].plan]
           r == [run[p] EXCEPT !.pc = "close"]
<1>1. run[p].pc = "ingest" /\ run[p].pc \in Open
  BY DEF Record, At, Open
<1>2. /\ run[p] \in Command /\ run[p].dir = repairs
      /\ PlaceInv(run[p], repairs, disk[repairs].db.bound) /\ disk[repairs].db \in Content
      /\ OwnHistory(disk[repairs])
  BY <1>1, OpenBefore
<1>3. Commit(repairs, new) /\ run' = [run EXCEPT ![p] = r]
  BY <1>2, RepairBefore DEF Record, Goto
<1>4. r \in Command
  BY <1>2 DEF Command, Phase, Open
<1>5. new \in Content /\ new.bound = disk[repairs].db.bound /\ new.snapshots = disk[repairs].db.snapshots
  BY <1>2 DEF Content, Command
<1>6. /\ r.pc = "close" /\ r.kind = run[p].kind /\ r.archive = run[p].archive /\ r.path = run[p].path
      /\ r.todo = run[p].todo /\ r.plan = run[p].plan /\ r.dir = run[p].dir /\ r.lock = run[p].lock
  BY <1>2 DEF Command
<1> HIDE DEF r, new
<1>7. PlaceInv(r, repairs, new.bound)
  BY <1>1, <1>2, <1>5, <1>6 DEF PlaceInv, Open
<1>8. r.pc \in Open
  BY <1>6 DEF Open
<1> QED BY <1>1, <1>2, <1>3, <1>4, <1>5, <1>6, <1>7, <1>8, CommitStays DEF Record, OwnHistory

LEMMA ReconcileStays ==
    ASSUME RepairInv, MaxRepairs \in {0, 1}, NEW p \in Process, Reconcile(p) PROVE RepairInv'
<1> DEFINE health == IF disk[repairs].health = "drifted" THEN "sound" ELSE disk[repairs].health
           r == [run[p] EXCEPT !.pc = "close"]
           d == [disk[repairs] EXCEPT !.health = health]
<1>1. run[p].pc = "reconcile" /\ run[p].pc \in Open
  BY DEF Reconcile, At, Open
<1>2. /\ run[p] \in Command /\ run[p].dir = repairs /\ disk[repairs] \in Directory
      /\ PlaceInv(run[p], repairs, disk[repairs].db.bound) /\ OwnHistory(disk[repairs])
  BY <1>1, OpenBefore
<1>3. run' = [run EXCEPT ![p] = r] /\ disk' = [disk EXCEPT ![repairs] = d]
  BY <1>2, RepairBefore DEF Reconcile, Goto
<1>4. r \in Command
  BY <1>2 DEF Command, Phase, Open
<1>5. d \in Directory /\ d.db = disk[repairs].db /\ d.witness = disk[repairs].witness
  <2>1. health \in Health
    BY <1>2 DEF Directory, Health
  <2> HIDE DEF health
  <2> QED BY <1>2, <2>1 DEF Directory
<1>6. /\ r.pc = "close" /\ r.kind = run[p].kind /\ r.archive = run[p].archive /\ r.path = run[p].path
      /\ r.todo = run[p].todo /\ r.plan = run[p].plan /\ r.dir = run[p].dir /\ r.lock = run[p].lock
  BY <1>2 DEF Command
<1> HIDE DEF r, d
<1>7. PlaceInv(r, repairs, d.db.bound)
  BY <1>1, <1>2, <1>5, <1>6 DEF PlaceInv, Open
<1>8. OwnHistory(d)
  BY <1>2, <1>5 DEF OwnHistory
<1>9. /\ r.kind = "repair" => \A q \in Process : q # p => run[q].kind # "repair"
      /\ r.pc # "build" /\ \A q \in Process : q # p => run[q].pc # "build"
  BY <1>1, <1>6 DEF RepairInv
<1>10. /\ UNCHANGED <<latest, leads, repairs>> /\ claimed' \in BOOLEAN
       /\ budget' \in [kills: 0 .. MaxKills, errors: 0 .. MaxErrors, damage: 0 .. MaxDamage]
  BY RepairBefore DEF Reconcile
<1>11. disk[repairs].db.bound \in {None, d.db.bound}
  BY <1>5
<1> QED BY <1>3, <1>4, <1>5, <1>7, <1>8, <1>9, <1>10, <1>11, MoveKeeps

LEMMA CloseDatabaseStays ==
    ASSUME RepairInv, MaxRepairs \in {0, 1}, NEW p \in Process, CloseDatabase(p) PROVE RepairInv'
<1>1. run[p].pc = "close" /\ run[p].pc \in Open
  BY DEF CloseDatabase, At, Open
<1>2. run[p].dir = repairs /\ disk[repairs] \in Directory /\ OwnHistory(disk[repairs])
  BY <1>1, OpenBefore
<1>3. CASE UNCHANGED disk
  BY <1>3, RepairBefore, EndStays DEF CloseDatabase
<1>4. CASE disk' = [disk EXCEPT ![repairs].wal = FALSE, ![repairs].file = disk[repairs].db]
  <2> DEFINE d == [disk[repairs] EXCEPT !.wal = FALSE, !.file = disk[repairs].db]
  <2>1. disk' = [disk EXCEPT ![repairs] = d]
    BY <1>4, RepairBefore
  <2>2. d \in Directory /\ d.db = disk[repairs].db /\ d.witness = disk[repairs].witness
    BY <1>2 DEF Directory
  <2> HIDE DEF d
  <2>3. OwnHistory(d) /\ disk[repairs].db.bound \in {None, d.db.bound}
    BY <1>2, <2>2 DEF OwnHistory
  <2>4. Idle \in Command /\ PlaceInv(Idle, repairs, d.db.bound) /\ Idle.kind # "repair"
        /\ Idle.pc # "build" /\ Idle.pc \notin Open
    <3>1. repairs \in Nat
      BY RepairBefore
    <3> QED BY <3>1, IdleHasNoPlace
  <2>5. /\ UNCHANGED <<latest, leads, repairs>> /\ claimed' \in BOOLEAN
        /\ budget' \in [kills: 0 .. MaxKills, errors: 0 .. MaxErrors, damage: 0 .. MaxDamage]
    BY RepairBefore DEF CloseDatabase
  <2>6. run' = [run EXCEPT ![p] = Idle]
    BY DEF CloseDatabase, End
  <2> QED BY <2>1, <2>2, <2>3, <2>4, <2>5, <2>6, MoveKeeps
<1> QED BY <1>2, <1>3, <1>4 DEF CloseDatabase

LEMMA InspectRepairStays ==
    ASSUME RepairInv, MaxRepairs \in {0, 1}, NEW p \in Process, InspectRepair(p) PROVE RepairInv'
<1>1. CASE End(p)
  BY <1>1, RepairBefore, EndStays DEF InspectRepair
<1>2. CASE Goto(p, "begin") \/ Goto(p, "health")
  BY <1>2, GotoStays DEF InspectRepair, At
<1> QED BY <1>1, <1>2 DEF InspectRepair

LEMMA CheckHealthStays ==
    ASSUME RepairInv, MaxRepairs \in {0, 1}, NEW p \in Process, CheckHealth(p) PROVE RepairInv'
<1>1. CASE End(p)
  BY <1>1, RepairBefore, EndStays DEF CheckHealth
<1>2. CASE Goto(p, "begin")
  <2>1. run[p].pc = "health" /\ PlaceInv(run[p], repairs, disk[repairs].db.bound)
    BY RepairBefore DEF CheckHealth, At
  <2>2. run[p].kind = "repair"
    BY <2>1 DEF PlaceInv
  <2> QED BY <1>2, <2>1, <2>2, GotoStays DEF CheckHealth
<1> QED BY <1>1, <1>2 DEF CheckHealth

\* The directory a repair finds is the one its lock will be named after.
LEMMA BeginRepairStays ==
    ASSUME RepairInv, MaxRepairs \in {0, 1}, NEW p \in Process, BeginRepair(p) PROVE RepairInv'
<1>1. CASE End(p)
  BY <1>1, RepairBefore, EndStays DEF BeginRepair
<1>2. CASE run' = [run EXCEPT ![p].pc = "name", ![p].path = leads[0]]
  <2> DEFINE r == [run[p] EXCEPT !.pc = "name", !.path = repairs]
  <2>1. run' = [run EXCEPT ![p] = r] /\ run[p] \in Command /\ run[p].pc = "begin"
        /\ PlaceInv(run[p], repairs, disk[repairs].db.bound) /\ repairs \in Dir /\ Fresh \notin Dir
    BY <1>2, RepairBefore DEF BeginRepair, At
  <2>2. r \in Command
    BY <2>1 DEF Command, Phase
  <2>3. /\ r.pc = "name" /\ r.kind = run[p].kind /\ r.archive = run[p].archive /\ r.path = repairs
        /\ r.todo = run[p].todo /\ r.plan = run[p].plan /\ r.dir = run[p].dir /\ r.lock = run[p].lock
    BY <2>1 DEF Command
  <2> HIDE DEF r
  <2>4. repairs <= repairs
    BY RepairBefore
  <2>5. PlaceInv(r, repairs, disk[repairs].db.bound)
    BY <2>1, <2>3, <2>4 DEF PlaceInv, Open
  <2>6. r.pc # "build" /\ r.pc \notin Open
    BY <2>3 DEF Open
  <2> QED BY <2>1, <2>2, <2>3, <2>5, <2>6, RepairBefore, GoesOn DEF BeginRepair
<1> QED BY <1>1, <1>2 DEF BeginRepair

\* A repair that has its lock is alone: whoever has a database open holds the same
\* one until the exchange.
LEMMA LockExclusivelyStays ==
    ASSUME RepairInv, MaxRepairs \in {0, 1}, NEW p \in Process, LockExclusively(p) PROVE RepairInv'
<1> DEFINE r == [run[p] EXCEPT !.pc = "build"]
<1>1. /\ run' = [run EXCEPT ![p] = r] /\ run[p] \in Command /\ run[p].pc = "wait"
      /\ run[p].kind = "repair" /\ PlaceInv(run[p], repairs, disk[repairs].db.bound)
  BY RepairBefore DEF LockExclusively, At, Goto
<1>2. r \in Command
  BY <1>1 DEF Command, Phase
<1>3. /\ r.pc = "build" /\ r.kind = run[p].kind /\ r.archive = run[p].archive /\ r.path = run[p].path
      /\ r.todo = run[p].todo /\ r.plan = run[p].plan /\ r.dir = run[p].dir /\ r.lock = run[p].lock
  BY <1>1 DEF Command
<1> HIDE DEF r
<1>4. repairs = 0 /\ run[p].lock = 0
  BY <1>1 DEF PlaceInv
<1>5. PlaceInv(r, repairs, disk[repairs].db.bound)
  BY <1>1, <1>3 DEF PlaceInv, Open
<1>6. ASSUME NEW q \in Process, q # p, run[q].pc \in Open PROVE FALSE
  <2>1. run[q].lock = 0
    BY <1>4, <1>6, RepairBefore DEF PlaceInv
  <2> QED BY <1>1, <1>4, <1>6, <2>1 DEF LockExclusively, Obtainable, Holds
<1>7. \A q \in Process : q # p => run[q].kind # "repair"
  BY <1>1 DEF RepairInv
<1>8. r.pc \notin Open
  BY <1>3 DEF Open
<1> QED BY <1>1, <1>2, <1>5, <1>6, <1>7, <1>8, RepairBefore, StayKeeps DEF LockExclusively

\* What a repair that exchanges starts from: the first directory, and nobody in it.
LEMMA SwapBefore ==
    ASSUME RepairInv, MaxRepairs \in {0, 1}, NEW p \in Process, Swap(p)
    PROVE  /\ run[p] \in Command /\ run[p].pc = "build" /\ run[p].kind = "repair"
           /\ run[p].archive \in Archive /\ run[p].todo \subseteq Machine
           /\ PlaceInv(run[p], repairs, disk[repairs].db.bound)
           /\ MaxRepairs = 1 /\ Dir = {0, 1} /\ Fresh = 2 /\ repairs = 0 /\ run[p].path = 0
           /\ leads[0] = 0 /\ leads[1] = 1
           /\ \A q \in Process : run[q].pc \notin Open /\ run[q].dir = None
           /\ \A q \in Process : q # p => run[q].kind # "repair"
<1>1. /\ run[p] \in Command /\ run[p].pc = "build"
      /\ PlaceInv(run[p], repairs, disk[repairs].db.bound)
  BY RepairBefore DEF Swap, At
<1>2. run[p].kind = "repair" /\ run[p].archive \in Archive
  BY <1>1 DEF PlaceInv
<1>3. MaxRepairs = 1 /\ repairs = 0
  BY <1>1, <1>2 DEF PlaceInv
<1>4. Dir = {0, 1} /\ Fresh = 2
  BY <1>3 DEF Dir, Fresh
<1>5. run[p].path = 0
  <2>1. run[p].path # Fresh /\ run[p].path <= 0 /\ run[p].path \in Dir \cup {Fresh}
    BY <1>1, <1>3 DEF PlaceInv, Command
  <2> QED BY <1>4, <2>1
<1>6. leads[0] = 0 /\ leads[1] = 1
  BY <1>3, <1>4 DEF RepairInv
<1>7. \A q \in Process : run[q].pc \notin Open
  BY <1>1 DEF RepairInv
<1>8. \A q \in Process : run[q].dir = None
  BY <1>7, RepairBefore DEF PlaceInv
<1>9. \A q \in Process : q # p => run[q].kind # "repair"
  BY <1>2 DEF RepairInv
<1>10. run[p].todo \subseteq Machine
  BY <1>1 DEF Command
<1> QED BY <1>1, <1>2, <1>3, <1>4, <1>5, <1>6, <1>7, <1>8, <1>9, <1>10

LEMMA SwapStays ==
    ASSUME RepairInv, MaxRepairs \in {0, 1}, NEW p \in Process, Swap(p) PROVE RepairInv'
<1> DEFINE planned == {n \in Machine : run[p].plan[n] # 0}
           full == [tables |-> TRUE, bound |-> run[p].archive,
                    snapshots |-> {<<run[p].archive, m, run[p].plan[m]>> : m \in planned},
                    vector |-> run[p].plan]
           new == [exists |-> TRUE, file |-> full, db |-> full, wal |-> FALSE,
                   witness |-> run[p].archive, health |-> "sound"]
           r == [run[p] EXCEPT !.pc = "release"]
<1>1. /\ run[p] \in Command /\ run[p].pc = "build" /\ run[p].kind = "repair"
      /\ run[p].archive \in Archive
      /\ PlaceInv(run[p], repairs, disk[repairs].db.bound)
      /\ MaxRepairs = 1 /\ Dir = {0, 1} /\ Fresh = 2 /\ repairs = 0 /\ run[p].path = 0
      /\ leads[0] = 0 /\ leads[1] = 1
      /\ \A q \in Process : run[q].pc \notin Open /\ run[q].dir = None
      /\ \A q \in Process : q # p => run[q].kind # "repair"
  BY SwapBefore
<1>2. repairs' = 1 /\ disk' = [disk EXCEPT ![1] = new] /\ run' = [run EXCEPT ![p] = r]
  BY <1>1, RepairBefore DEF Swap, Goto
<1>3. leads' = [n \in Dir |-> IF n <= 0 /\ leads[n] = leads[0] THEN 1 ELSE leads[n]]
  BY <1>1 DEF Swap
<1>4. leads' \in [Dir -> Dir] /\ \A n \in Dir : leads'[n] = IF n = 0 THEN 1 ELSE n
  BY <1>1, <1>3
<1>5. planned \subseteq Machine /\ \A m \in planned : run[p].plan[m] \in 1 .. MaxSnapshot
  <2>1. run[p].plan \in [Machine -> 0 .. MaxSnapshot]
    BY <1>1 DEF Command, Vector
  <2> QED BY <2>1, ConstantsAssumption, SMT
<1>6. full.snapshots \subseteq Archive \X Machine \X (1 .. MaxSnapshot)
      /\ \A s \in full.snapshots : s[1] = run[p].archive
  BY <1>1, <1>5
<1>7. full \in Content /\ full.bound = run[p].archive
  <2>1. run[p].plan \in Vector
    BY <1>1 DEF Command
  <2> QED BY <1>1, <1>6, <2>1 DEF Content
<1> HIDE DEF full, planned
<1>8. new \in Directory /\ new.db = full /\ new.witness = run[p].archive
  BY <1>1, <1>7 DEF Directory, Health
<1> HIDE DEF new
<1>9. OwnHistory(new)
  BY <1>6, <1>7, <1>8 DEF OwnHistory
<1>10. disk' \in [Dir -> Directory] /\ disk'[1] = new /\ disk'[0] = disk[0]
  BY <1>1, <1>2, <1>8, RepairBefore
<1>11. \A d \in Dir : OwnHistory(disk'[d])
  BY <1>1, <1>9, <1>10, RepairBefore
<1>12. r \in Command
  BY <1>1 DEF Command, Phase
<1>13. /\ r.pc = "release" /\ r.kind = run[p].kind /\ r.archive = run[p].archive /\ r.path = run[p].path
       /\ r.todo = run[p].todo /\ r.plan = run[p].plan /\ r.dir = run[p].dir /\ r.lock = run[p].lock
  BY <1>1 DEF Command
<1> HIDE DEF r
<1>14. run' \in [Process -> Command] /\ run'[p] = r /\ \A q \in Process : q # p => run'[q] = run[q]
  BY <1>2, <1>12, RepairBefore
<1>15. TypeOK'
  <2>1. TypeOK
    BY DEF RepairInv
  <2>2. repairs' \in Dir
    BY <1>1, <1>2
  <2> QED BY <1>4, <1>10, <1>14, <2>1, <2>2 DEF TypeOK, Swap
<1>16. ASSUME NEW q \in Process PROVE PlaceInv(run'[q], 1, new.db.bound)
  <2>1. CASE q = p
    <3>1. PlaceInv(r, 1, new.db.bound)
      BY <1>1, <1>13 DEF PlaceInv, Open
    <3> QED BY <1>14, <2>1, <3>1
  <2>2. CASE q # p
    <3>1. PlaceInv(run[q], 0, disk[0].db.bound) /\ run[q].pc \notin Open /\ run[q].kind # "repair"
          /\ run[q] \in Command
      BY <1>1, <2>2, RepairBefore
    <3>2. run[q].path # Fresh => run[q].path <= 1
      BY <1>1, <3>1 DEF Command
    <3>3. run[q].pc \notin {"witness", "ingest"}
      BY <3>1 DEF Open
    <3>4. PlaceInv(run[q], 1, new.db.bound)
      BY <3>1, <3>2, <3>3 DEF PlaceInv
    <3> QED BY <1>14, <2>2, <3>4
  <2> QED BY <2>1, <2>2
<1>17. \A q, s \in Process : run'[q].kind = "repair" /\ run'[s].kind = "repair" => q = s
  BY <1>1, <1>14
<1>18. \A q \in Process : run'[q].pc \notin Open
  <2>1. r.pc \notin Open
    BY <1>13 DEF Open
  <2> QED BY <1>1, <1>14, <2>1
<1> QED BY <1>2, <1>4, <1>10, <1>11, <1>15, <1>16, <1>17, <1>18 DEF RepairInv

LEMMA UnlockStays ==
    ASSUME RepairInv, MaxRepairs \in {0, 1}, NEW p \in Process, Unlock(p) PROVE RepairInv'
BY RepairBefore, EndStays DEF Unlock

LEMMA FailStays ==
    ASSUME RepairInv, MaxRepairs \in {0, 1}, NEW p \in Process, Fail(p) PROVE RepairInv'
<1>1. budget' \in [kills: 0 .. MaxKills, errors: 0 .. MaxErrors, damage: 0 .. MaxDamage]
  <2>1. budget.errors + 1 \in 0 .. MaxErrors
    BY RepairBefore, ConstantsAssumption, SMT DEF Fail
  <2> QED BY <2>1, RepairBefore DEF Fail
<1>2. CASE End(p)
  BY <1>1, <1>2, RepairBefore, EndStays DEF Fail
<1>3. CASE /\ run[p].pc \in Open
           /\ run' = [run EXCEPT ![p].pc = "close", ![p].ok = FALSE]
  BY <1>1, <1>3, RepairBefore, ClosesStays DEF Fail
<1> QED BY <1>2, <1>3 DEF Fail

LEMMA KillStays ==
    ASSUME RepairInv, MaxRepairs \in {0, 1}, NEW p \in Process, Kill(p) PROVE RepairInv'
<1>1. budget' \in [kills: 0 .. MaxKills, errors: 0 .. MaxErrors, damage: 0 .. MaxDamage]
  <2>1. budget.kills + 1 \in 0 .. MaxKills
    BY RepairBefore, ConstantsAssumption, SMT DEF Kill
  <2> QED BY <2>1, RepairBefore DEF Kill
<1> QED BY <1>1, RepairBefore, EndStays DEF Kill

LEMMA PublishStays == ASSUME RepairInv, MaxRepairs \in {0, 1}, Publish PROVE RepairInv'
<1>1. PICK a \in Archive, m \in Machine :
         latest[a][m] < MaxSnapshot /\ latest' = [latest EXCEPT ![a][m] = @ + 1]
  BY DEF Publish
<1>2. latest[a] \in [Machine -> 0 .. MaxSnapshot] /\ latest \in [Archive -> Vector]
  BY RepairBefore DEF Vector
<1>3. latest[a][m] + 1 \in 0 .. MaxSnapshot
  BY <1>1, <1>2, ConstantsAssumption, SMT
<1>4. [latest[a] EXCEPT ![m] = @ + 1] \in Vector
  BY <1>2, <1>3 DEF Vector
<1>5. latest' \in [Archive -> Vector]
  BY <1>1, <1>2, <1>4
<1>6. TypeOK'
  BY <1>5 DEF RepairInv, TypeOK, Publish
<1> QED BY <1>6 DEF RepairInv, Publish

LEMMA DamageStays == ASSUME RepairInv, MaxRepairs \in {0, 1}, Damage PROVE RepairInv'
<1>1. /\ leads[0] = repairs /\ disk \in [Dir -> Directory] /\ repairs \in Dir
      /\ disk[repairs] \in Directory /\ OwnHistory(disk[repairs])
  BY RepairBefore
<1>2. PICK h \in Health : disk' = [disk EXCEPT ![repairs].health = h]
  BY <1>1 DEF Damage
<1> DEFINE d == [disk[repairs] EXCEPT !.health = h]
<1>3. d \in Directory /\ d.db = disk[repairs].db /\ d.witness = disk[repairs].witness
  BY <1>1 DEF Directory
<1>4. disk' = [disk EXCEPT ![repairs] = d]
  BY <1>1, <1>2
<1> HIDE DEF d
<1>5. disk' \in [Dir -> Directory] /\ disk'[repairs] = d /\ \A e \in Dir : e # repairs => disk'[e] = disk[e]
  BY <1>1, <1>3, <1>4
<1>6. budget' \in [kills: 0 .. MaxKills, errors: 0 .. MaxErrors, damage: 0 .. MaxDamage]
  <2>1. budget.damage + 1 \in 0 .. MaxDamage
    BY RepairBefore, ConstantsAssumption, SMT DEF Damage
  <2> QED BY <2>1, RepairBefore DEF Damage
<1>7. TypeOK'
  BY <1>5, <1>6 DEF RepairInv, TypeOK, Damage
<1>8. \A e \in Dir : OwnHistory(disk'[e])
  <2>1. OwnHistory(d)
    BY <1>1, <1>3 DEF OwnHistory
  <2> QED BY <1>5, <2>1, RepairBefore
<1>9. disk'[repairs].db.bound = disk[repairs].db.bound
  BY <1>3, <1>5
<1> QED BY <1>7, <1>8, <1>9 DEF RepairInv, Damage

----------------------------------------------------------------------------
LEMMA RepairInit == ASSUME MaxRepairs \in {0, 1}, Init PROVE RepairInv
<1>1. Empty \in Content /\ Empty.snapshots = {}
  BY ConstantsAssumption DEF Empty, Content, Vector, Nothing
<1>2. NoDirectory \in Directory /\ OwnHistory(NoDirectory)
  BY <1>1 DEF NoDirectory, Directory, OwnHistory, Health
<1>3. 0 \in Dir
  BY DEF Dir
<1>4. disk \in [Dir -> Directory] /\ \A d \in Dir : OwnHistory(disk[d])
  BY <1>2 DEF Init
<1>5. leads \in [Dir -> Dir] /\ \A n \in Dir : leads[n] = n
  BY DEF Init
<1>6. budget \in [kills: 0 .. MaxKills, errors: 0 .. MaxErrors, damage: 0 .. MaxDamage]
  BY ConstantsAssumption, SMT DEF Init
<1>7. latest \in [Archive -> Vector]
  BY ConstantsAssumption DEF Init, Vector, Nothing
<1>8. repairs = 0 /\ claimed \in BOOLEAN /\ \A p \in Process : run[p] = Idle
  BY DEF Init
<1>9. Idle \in Command /\ PlaceInv(Idle, 0, disk[0].db.bound) /\ Idle.kind # "repair" /\ Idle.pc # "build"
  BY IdleHasNoPlace
<1>10. run \in [Process -> Command]
  BY <1>9 DEF Init
<1>11. TypeOK
  BY <1>3, <1>4, <1>5, <1>6, <1>7, <1>8, <1>10 DEF TypeOK
<1> QED BY <1>4, <1>5, <1>8, <1>9, <1>11 DEF RepairInv

LEMMA RepairStep == ASSUME RepairInv, MaxRepairs \in {0, 1}, [Next]_vars PROVE RepairInv'
<1>1. CASE UNCHANGED vars
  BY <1>1 DEF vars, RepairInv, TypeOK
<1>2. CASE Publish
  BY <1>2, PublishStays
<1>3. CASE Damage
  BY <1>3, DamageStays
<1>4. ASSUME NEW p \in Process, NEW k \in Kind, NEW a \in Archive, Plan(p, k, a)
      PROVE  RepairInv'
  BY <1>4, PlanStays
<1>5. ASSUME NEW p \in Process, Step(p)
      PROVE  RepairInv'
  BY <1>5, PrepareDestinationStays, InspectDownloadStays, LookupStays, ClaimStays, NameLockStays,
     OpenDatabaseStays, MigrateStays, BindStays, WriteWitnessStays, IngestStays, RecordStays,
     ReconcileStays, CloseDatabaseStays, InspectRepairStays, CheckHealthStays, BeginRepairStays,
     LockExclusivelyStays, SwapStays, UnlockStays
     DEF Step
<1>6. ASSUME NEW p \in Process, Fail(p) \/ Kill(p)
      PROVE  RepairInv'
  BY <1>6, FailStays, KillStays
<1> QED BY <1>1, <1>2, <1>3, <1>4, <1>5, <1>6 DEF Next

(* While at most one repair is promoted, the commands that have a database *)
(* open have the live one, and none has while a repair builds its          *)
(* replacement, however commands, kills and damage interleave.             *)
THEOREM RepairInvariant == ASSUME MaxRepairs <= 1 PROVE Spec => []RepairInv
<1>0. MaxRepairs \in {0, 1}
  BY ConstantsAssumption
<1>1. Init => RepairInv
  BY <1>0, RepairInit
<1>2. RepairInv /\ [Next]_vars => RepairInv'
  BY <1>0, RepairStep
<1> QED BY <1>1, <1>2, PTL DEF Spec

(* The first repair exchanges the directory away only when no command has  *)
(* its database open.  A second one need not: see the run                  *)
(* workspace_swapped.                                                      *)
THEOREM NeverUnderneath == ASSUME MaxRepairs <= 1 PROVE Spec => NothingSwappedUnderneath
<1> DEFINE Alone ==
      \A p \in Process :
         Swap(p) => \A q \in Process : run[q].dir # leads[run[p].path]
<1>0. MaxRepairs \in {0, 1}
  BY ConstantsAssumption
<1>1. RepairInv /\ [Next]_vars => [Alone]_vars
  <2> SUFFICES ASSUME RepairInv, NEW p \in Process, Swap(p), NEW q \in Process
               PROVE  run[q].dir # leads[run[p].path]
    OBVIOUS
  <2>1. run[q].dir = None /\ leads[run[p].path] = 0
    BY <1>0, SwapBefore
  <2> QED BY <2>1, ConstantsAssumption
<1>2. Spec => [][Alone]_vars
  BY <1>1, RepairInvariant, PTL DEF Spec
<1> QED BY <1>2 DEF NothingSwappedUnderneath
----------------------------------------------------------------------------
(***************************************************************************)
(* The steps however many repairs are promoted.                            *)
(***************************************************************************)
\* What every step starts from: whatever name or path a command goes by, it leads
\* to a directory of the same owner.
LEMMA OwnerBefore ==
    ASSUME OwnerInv
    PROVE  /\ repairs \in Dir /\ repairs \in Nat /\ 0 \in Dir /\ 0 \in 0..repairs
           /\ 0..repairs \subseteq Dir /\ Fresh \notin Dir /\ Fresh \in Nat /\ MaxRepairs \in Nat
           /\ \A n \in 0..repairs : leads[n] \in 0..repairs
           /\ Here = disk[leads[0]] /\ disk \in [Dir -> Directory] /\ leads \in [Dir -> Dir]
           /\ \A d \in Dir : /\ disk[d] \in Directory /\ disk[d].db \in Content
                             /\ disk[d].file \in Content /\ OwnHistory(disk[d])
                             /\ disk[d].file.bound \in {None, disk[d].db.bound}
           /\ \A d \in 0..repairs : disk[d].db.bound = disk[0].db.bound
           /\ \A d \in 1..repairs : disk[d].db.bound # None
           /\ run \in [Process -> Command]
           /\ \A p \in Process : run[p] \in Command /\ OwnedBy(run[p], repairs, disk[0].db.bound)
           /\ claimed \in BOOLEAN /\ latest \in [Archive -> Vector]
           /\ budget \in [kills: 0 .. MaxKills, errors: 0 .. MaxErrors, damage: 0 .. MaxDamage]
<1>1. TypeOK /\ MaxRepairs \in Nat
  BY ConstantsAssumption DEF OwnerInv
<1>2. repairs \in Dir /\ repairs \in Nat /\ 0 \in Dir /\ 0 \in 0..repairs
      /\ 0..repairs \subseteq Dir /\ Fresh \notin Dir /\ Fresh \in Nat
  BY <1>1 DEF TypeOK, Dir, Fresh
<1>3. disk \in [Dir -> Directory] /\ leads \in [Dir -> Dir] /\ run \in [Process -> Command]
      /\ claimed \in BOOLEAN /\ latest \in [Archive -> Vector]
      /\ budget \in [kills: 0 .. MaxKills, errors: 0 .. MaxErrors, damage: 0 .. MaxDamage]
  BY <1>1 DEF TypeOK
<1>4. ASSUME NEW n \in 0..repairs PROVE leads[n] \in 0..repairs
  <2>1. n \in Dir /\ n <= repairs
    BY <1>2
  <2>2. leads[n] <= repairs
    BY <2>1 DEF OwnerInv
  <2>3. leads[n] \in Nat
    BY <1>3, <2>1 DEF Dir
  <2> QED BY <1>2, <2>2, <2>3
<1>5. \A d \in Dir : /\ disk[d] \in Directory /\ disk[d].db \in Content
                     /\ disk[d].file \in Content /\ OwnHistory(disk[d])
                     /\ disk[d].file.bound \in {None, disk[d].db.bound}
  BY <1>3 DEF OwnerInv, Directory
<1>6. ASSUME NEW d \in 0..repairs PROVE disk[d].db.bound = disk[0].db.bound
  <2>1. d = 0 \/ d \in 1..repairs
    BY <1>2
  <2> QED BY <2>1 DEF OwnerInv
<1>7. \A d \in 1..repairs : disk[d].db.bound # None
  BY DEF OwnerInv
<1>8. \A p \in Process : run[p] \in Command /\ OwnedBy(run[p], repairs, disk[0].db.bound)
  BY <1>3 DEF OwnerInv
<1> QED BY <1>1, <1>2, <1>3, <1>4, <1>5, <1>6, <1>7, <1>8 DEF Here

\* An owner, once there is one, is never replaced: a command keeps the one it has
\* when a directory's binding is only ever made where there was none.
LEMMA OwnerStays ==
    ASSUME NEW r, NEW n, NEW old, NEW new, OwnedBy(r, n, old), old \in {None, new}
    PROVE  OwnedBy(r, n, new)
<1>1. old # None \/ r.archive # old \/ r.pc = "idle"
  BY ConstantsAssumption DEF OwnedBy
<1>2. r.kind = "repair" /\ r.pc # "inspect" => r.archive = new
  BY <1>1 DEF OwnedBy
<1>3. r.pc \in {"witness", "ingest"} => r.archive = new
  BY <1>1 DEF OwnedBy
<1> QED BY <1>2, <1>3 DEF OwnedBy

\* One process goes on as r and leaves the directory e as d.
LEMMA OwnerMoves ==
    ASSUME OwnerInv, NEW p \in Process, NEW r \in Command,
           NEW e \in 0..repairs, NEW d \in Directory,
           run' = [run EXCEPT ![p] = r], disk' = [disk EXCEPT ![e] = d],
           UNCHANGED <<latest, leads, repairs>>, claimed' \in BOOLEAN,
           budget' \in [kills: 0 .. MaxKills, errors: 0 .. MaxErrors, damage: 0 .. MaxDamage],
           OwnHistory(d), d.file.bound \in {None, d.db.bound},
           disk[e].db.bound \in {None, d.db.bound},
           OwnedBy(r, repairs, d.db.bound),
           IsFiniteSet(Repairing'), repairs + Cardinality(Pending') <= MaxRepairs
    PROVE  OwnerInv'
<1> DEFINE old == disk[0].db.bound
           new == disk'[0].db.bound
<1>1. disk' \in [Dir -> Directory] /\ disk'[e] = d /\ \A i \in Dir : i # e => disk'[i] = disk[i]
  BY OwnerBefore
<1>2. run' \in [Process -> Command] /\ run'[p] = r /\ \A q \in Process : q # p => run'[q] = run[q]
  BY OwnerBefore
<1>3. TypeOK'
  <2>1. TypeOK
    BY DEF OwnerInv
  <2> QED BY <1>1, <1>2, <2>1 DEF TypeOK
<1>4. \A n \in Dir : leads'[n] <= IF n <= repairs' THEN repairs' ELSE n
  BY DEF OwnerInv
<1>5. \A i \in Dir : OwnHistory(disk'[i]) /\ disk'[i].file.bound \in {None, disk'[i].db.bound}
  BY <1>1, OwnerBefore
<1>6. old \in {None, new}
  BY <1>1, OwnerBefore
<1>7. e \in 1..repairs => d.db.bound = disk[e].db.bound /\ d.db.bound = old
  BY OwnerBefore
<1>8. \A i \in 1..repairs : disk'[i].db.bound = old /\ old # None
  <2> SUFFICES ASSUME NEW i \in 1..repairs PROVE disk'[i].db.bound = old /\ old # None
    OBVIOUS
  <2>1. i \in Dir /\ i \in 0..repairs /\ disk[i].db.bound = old /\ disk[i].db.bound # None
    BY OwnerBefore
  <2> QED BY <1>1, <1>7, <2>1
<1>9. new = d.db.bound
  <2>1. CASE e = 0
    BY <1>1, <2>1, OwnerBefore
  <2>2. CASE e # 0
    <3>1. e \in 1..repairs /\ disk'[0] = disk[0]
      BY <1>1, <2>2, OwnerBefore
    <3> QED BY <1>7, <3>1
  <2> QED BY <2>1, <2>2
<1>10. \A i \in 1..repairs' : disk'[i].db.bound = disk'[0].db.bound /\ disk'[i].db.bound # None
  BY <1>6, <1>8
<1>11. ASSUME NEW q \in Process PROVE OwnedBy(run'[q], repairs, new)
  <2>1. CASE q = p
    BY <1>2, <1>9, <2>1
  <2>2. CASE q # p
    <3>1. OwnedBy(run[q], repairs, old)
      BY OwnerBefore
    <3> HIDE DEF old, new
    <3>2. OwnedBy(run[q], repairs, new)
      BY <1>6, <3>1, OwnerStays
    <3> QED BY <1>2, <2>2, <3>2
  <2> QED BY <2>1, <2>2
<1> QED BY <1>3, <1>4, <1>5, <1>10, <1>11 DEF OwnerInv

\* A process that repairs only if it was a repair that had not exchanged yet takes
\* nothing from the bound.
LEMMA OwnerCounts ==
    ASSUME OwnerInv, NEW p \in Process, NEW r,
           run' = [run EXCEPT ![p] = r],
           r.kind = "repair" => run[p].kind = "repair" /\ run[p].pc # "release"
    PROVE  IsFiniteSet(Repairing') /\ repairs + Cardinality(Pending') <= MaxRepairs
<1>1. run'[p] = r /\ \A q \in Process : q # p => run'[q] = run[q]
  BY OwnerBefore
<1>2. Repairing' \subseteq Repairing
  BY <1>1 DEF Repairing
<1>3. Pending' \subseteq Pending
  BY <1>1 DEF Repairing, Pending
<1>4. IsFiniteSet(Repairing) /\ Pending \subseteq Repairing
  BY DEF OwnerInv, Pending
<1>5. IsFiniteSet(Repairing') /\ IsFiniteSet(Pending)
  BY <1>2, <1>4, FS_Subset
<1>6. Cardinality(Pending') <= Cardinality(Pending)
  BY <1>3, <1>5, FS_Subset
<1>7. Cardinality(Pending') \in Nat /\ Cardinality(Pending) \in Nat
  BY <1>3, <1>5, FS_Subset, FS_CardinalityType
<1>8. repairs + Cardinality(Pending) <= MaxRepairs
  BY DEF OwnerInv
<1> QED BY <1>5, <1>6, <1>7, <1>8, OwnerBefore

\* Steps that leave the directories alone.
LEMMA OwnerRests ==
    ASSUME OwnerInv, NEW p \in Process, NEW r \in Command, run' = [run EXCEPT ![p] = r],
           UNCHANGED <<latest, leads, disk, repairs>>, claimed' \in BOOLEAN,
           budget' \in [kills: 0 .. MaxKills, errors: 0 .. MaxErrors, damage: 0 .. MaxDamage],
           OwnedBy(r, repairs, disk[0].db.bound),
           r.kind = "repair" => run[p].kind = "repair" /\ run[p].pc # "release"
    PROVE  OwnerInv'
<1>1. disk' = [disk EXCEPT ![0] = disk[0]]
  BY OwnerBefore
<1>2. /\ disk[0] \in Directory /\ OwnHistory(disk[0]) /\ 0 \in 0..repairs
      /\ disk[0].file.bound \in {None, disk[0].db.bound}
  BY OwnerBefore
<1>3. IsFiniteSet(Repairing') /\ repairs + Cardinality(Pending') <= MaxRepairs
  BY OwnerCounts
<1> QED BY <1>1, <1>2, <1>3, OwnerMoves

\* A command that ends owes nobody anything.
LEMMA IdleOwesNothing ==
    ASSUME NEW n \in Nat, NEW owner
    PROVE  Idle \in Command /\ OwnedBy(Idle, n, owner) /\ Idle.kind # "repair"
<1>1. Idle \in Command
  <2>1. 0 \in Dir
    BY ConstantsAssumption DEF Dir
  <2> QED BY <2>1, ConstantsAssumption DEF Idle, Command, Phase, Open, Kind, Vector, Nothing
<1>2. OwnedBy(Idle, n, owner)
  BY DEF Idle, OwnedBy, Open
<1> QED BY <1>1, <1>2 DEF Idle

LEMMA OwnerEnds ==
    ASSUME OwnerInv, NEW p \in Process, End(p),
           UNCHANGED <<latest, leads, disk, repairs>>, claimed' \in BOOLEAN,
           budget' \in [kills: 0 .. MaxKills, errors: 0 .. MaxErrors, damage: 0 .. MaxDamage]
    PROVE  OwnerInv'
<1>1. run' = [run EXCEPT ![p] = Idle]
  BY DEF End
<1>2. Idle \in Command /\ OwnedBy(Idle, repairs, disk[0].db.bound) /\ Idle.kind # "repair"
  BY OwnerBefore, IdleOwesNothing
<1> QED BY <1>1, <1>2, OwnerRests

\* A process with the directory e open commits and goes on as r.
LEMMA OwnerCommits ==
    ASSUME OwnerInv, NEW p \in Process, NEW r \in Command, NEW new \in Content, NEW e \in 0..repairs,
           Commit(e, new), run' = [run EXCEPT ![p] = r],
           UNCHANGED <<latest, claimed, leads, repairs, budget>>,
           disk[e].witness # None => new.bound = disk[e].witness,
           \A s \in new.snapshots : s[1] = new.bound,
           disk[e].db.bound \in {None, new.bound},
           OwnedBy(r, repairs, new.bound), r.kind # "repair"
    PROVE  OwnerInv'
<1>1. /\ disk[e] \in Directory /\ disk \in [Dir -> Directory] /\ e \in Dir
      /\ disk[e].file.bound \in {None, disk[e].db.bound}
  BY OwnerBefore
<1>2. PICK file \in {disk[e].file, new} :
         disk' = [disk EXCEPT ![e].db = new, ![e].file = file, ![e].wal = TRUE]
  BY DEF Commit
<1> DEFINE d == [disk[e] EXCEPT !.db = new, !.file = file, !.wal = TRUE]
<1>3. disk' = [disk EXCEPT ![e] = d]
  BY <1>1, <1>2
<1>4. d \in Directory /\ d.db = new /\ d.witness = disk[e].witness /\ d.file = file
  BY <1>1 DEF Directory
<1> HIDE DEF d
<1>5. OwnHistory(d) /\ d.file.bound \in {None, d.db.bound}
  BY <1>1, <1>4 DEF OwnHistory
<1>6. claimed' \in BOOLEAN
      /\ budget' \in [kills: 0 .. MaxKills, errors: 0 .. MaxErrors, damage: 0 .. MaxDamage]
  BY OwnerBefore
<1>7. IsFiniteSet(Repairing') /\ repairs + Cardinality(Pending') <= MaxRepairs
  BY OwnerCounts
<1> QED BY <1>3, <1>4, <1>5, <1>6, <1>7, OwnerMoves

LEMMA OwnerPlans ==
    ASSUME OwnerInv, NEW p \in Process, NEW k \in Kind, NEW a \in Archive, Plan(p, k, a)
    PROVE  OwnerInv'
<1> DEFINE r == [Idle EXCEPT !.pc = IF k = "repair" THEN "inspect" ELSE "destination",
                             !.kind = k, !.archive = a, !.plan = latest[a]]
<1>1. run' = [run EXCEPT ![p] = r] /\ UNCHANGED <<latest, claimed, leads, disk, repairs, budget>>
      /\ run[p].pc = "idle"
  BY DEF Plan, At
<1>2. repairs \in Nat /\ MaxRepairs \in Nat /\ latest[a] \in Vector /\ run[p].kind = "download"
  BY <1>1, OwnerBefore DEF OwnedBy
<1>3. r \in Command
  BY <1>2, IdleOwesNothing DEF Command, Phase
<1>4. /\ r.pc = (IF k = "repair" THEN "inspect" ELSE "destination") /\ r.kind = k /\ r.archive = a
      /\ r.path = 0 /\ r.todo = {} /\ r.dir = None /\ r.lock = None
  BY DEF Idle
<1> HIDE DEF r
<1>5. OwnedBy(r, repairs, disk[0].db.bound)
  BY <1>2, <1>4 DEF OwnedBy, Open
<1>6. IsFiniteSet(Repairing') /\ repairs + Cardinality(Pending') <= MaxRepairs
  <2>1. CASE k # "repair"
    BY <1>1, <1>4, <2>1, OwnerCounts
  <2>2. CASE k = "repair"
    <3>1. repairs + Cardinality(Repairing) < MaxRepairs
      BY <2>2 DEF Plan
    <3>2. run'[p] = r /\ \A q \in Process : q # p => run'[q] = run[q]
      BY <1>1, OwnerBefore
    <3>3. Repairing' = Repairing \cup {p} /\ p \notin Repairing
      BY <1>2, <1>4, <2>2, <3>2 DEF Repairing
    <3>4. IsFiniteSet(Repairing)
      BY DEF OwnerInv
    <3>5. /\ IsFiniteSet(Repairing') /\ Cardinality(Repairing') = Cardinality(Repairing) + 1
          /\ Cardinality(Repairing) \in Nat
      BY <3>3, <3>4, FS_AddElement, FS_CardinalityType
    <3>6. Pending' \subseteq Repairing'
      BY DEF Pending
    <3>7. Cardinality(Pending') <= Cardinality(Repairing') /\ Cardinality(Pending') \in Nat
      BY <3>5, <3>6, FS_Subset, FS_CardinalityType
    <3> QED BY <1>2, <3>1, <3>5, <3>7
  <2> QED BY <2>1, <2>2
<1>7. disk' = [disk EXCEPT ![0] = disk[0]]
  BY <1>1, OwnerBefore
<1>8. /\ disk[0] \in Directory /\ OwnHistory(disk[0]) /\ 0 \in 0..repairs
      /\ disk[0].file.bound \in {None, disk[0].db.bound}
      /\ claimed' \in BOOLEAN
      /\ budget' \in [kills: 0 .. MaxKills, errors: 0 .. MaxErrors, damage: 0 .. MaxDamage]
  BY <1>1, OwnerBefore
<1> QED BY <1>1, <1>3, <1>5, <1>6, <1>7, <1>8, OwnerMoves

\* A command goes to a phase before it holds a lock.
LEMMA OwnerGoes ==
    ASSUME OwnerInv, NEW p \in Process,
           NEW phase \in {"lookup", "health", "begin"}, Goto(p, phase),
           run[p].pc \in {"inspect", "health"}, run[p].kind = "repair" <=> phase # "lookup",
           run[p].kind = "repair" => run[p].archive = disk[0].db.bound,
           UNCHANGED <<latest, claimed, leads, disk, repairs, budget>>
    PROVE  OwnerInv'
<1> DEFINE r == [run[p] EXCEPT !.pc = phase]
<1>1. run' = [run EXCEPT ![p] = r] /\ run[p] \in Command
      /\ OwnedBy(run[p], repairs, disk[0].db.bound)
  BY OwnerBefore DEF Goto
<1>2. r \in Command
  BY <1>1 DEF Command, Phase
<1>3. /\ r.pc = phase /\ r.kind = run[p].kind /\ r.archive = run[p].archive /\ r.path = run[p].path
      /\ r.todo = run[p].todo /\ r.plan = run[p].plan /\ r.dir = run[p].dir
  BY <1>1 DEF Command
<1> HIDE DEF r
<1>4. OwnedBy(r, repairs, disk[0].db.bound)
  BY <1>1, <1>3 DEF OwnedBy, Open
<1> QED BY <1>1, <1>2, <1>3, <1>4, OwnerBefore, OwnerRests

LEMMA OwnerPrepares ==
    ASSUME OwnerInv, NEW p \in Process, PrepareDestination(p) PROVE OwnerInv'
<1> DEFINE path == IF claimed THEN leads[0] ELSE Fresh
           pc == IF run[p].kind = "download" THEN "inspect" ELSE "claim"
           r == [run[p] EXCEPT !.path = path, !.pc = pc]
<1>1. run' = [run EXCEPT ![p] = r] /\ run[p] \in Command /\ run[p].pc = "destination"
      /\ OwnedBy(run[p], repairs, disk[0].db.bound)
  BY OwnerBefore DEF PrepareDestination, At
<1>2. path \in Dir \cup {Fresh} /\ (path # Fresh => path <= repairs)
  BY OwnerBefore
<1>3. pc \in {"inspect", "claim"} /\ run[p].kind # "repair"
  BY <1>1 DEF OwnedBy
<1> HIDE DEF path, pc
<1>4. r \in Command
  BY <1>1, <1>2, <1>3 DEF Command, Phase
<1>5. /\ r.pc = pc /\ r.kind = run[p].kind /\ r.archive = run[p].archive /\ r.path = path
      /\ r.todo = run[p].todo /\ r.plan = run[p].plan /\ r.dir = run[p].dir
  BY <1>1 DEF Command
<1> HIDE DEF r
<1>6. OwnedBy(r, repairs, disk[0].db.bound)
  BY <1>1, <1>2, <1>3, <1>5 DEF OwnedBy, Open
<1>7. /\ UNCHANGED <<latest, leads, disk, repairs>> /\ claimed' \in BOOLEAN
      /\ budget' \in [kills: 0 .. MaxKills, errors: 0 .. MaxErrors, damage: 0 .. MaxDamage]
  BY OwnerBefore DEF PrepareDestination
<1> QED BY <1>1, <1>3, <1>4, <1>5, <1>6, <1>7, OwnerRests

LEMMA OwnerInspectsDownload ==
    ASSUME OwnerInv, NEW p \in Process, InspectDownload(p) PROVE OwnerInv'
<1>1. CASE End(p)
  BY <1>1, OwnerBefore, OwnerEnds DEF InspectDownload
<1>2. CASE Goto(p, "lookup")
  BY <1>2, OwnerGoes DEF InspectDownload, At
<1> QED BY <1>1, <1>2 DEF InspectDownload

LEMMA OwnerLooksUp ==
    ASSUME OwnerInv, NEW p \in Process, Lookup(p) PROVE OwnerInv'
<1>1. CASE End(p)
  BY <1>1, OwnerBefore, OwnerEnds DEF Lookup
<1>2. CASE ~End(p)
  <2> DEFINE planned == {m \in Machine : run[p].plan[m] # 0}
  <2>1. PICK todo \in SUBSET planned : run' = [run EXCEPT ![p].pc = "claim", ![p].todo = todo]
    BY <1>2 DEF Lookup
  <2> DEFINE r == [run[p] EXCEPT !.pc = "claim", !.todo = todo]
  <2>2. run' = [run EXCEPT ![p] = r] /\ run[p] \in Command /\ run[p].pc = "lookup"
        /\ OwnedBy(run[p], repairs, disk[0].db.bound)
    BY <2>1, OwnerBefore DEF Lookup, At
  <2>3. r \in Command
    BY <2>2 DEF Command, Phase
  <2>4. /\ r.pc = "claim" /\ r.kind = run[p].kind /\ r.archive = run[p].archive /\ r.path = run[p].path
        /\ r.todo = todo /\ r.plan = run[p].plan /\ r.dir = run[p].dir
    BY <2>2 DEF Command
  <2> HIDE DEF r
  <2>5. run[p].kind # "repair"
    BY <2>2 DEF OwnedBy
  <2>6. OwnedBy(r, repairs, disk[0].db.bound)
    BY <2>2, <2>4, <2>5 DEF OwnedBy, Open
  <2> QED BY <2>2, <2>3, <2>4, <2>5, <2>6, OwnerBefore, OwnerRests DEF Lookup
<1> QED BY <1>1, <1>2

LEMMA OwnerClaims ==
    ASSUME OwnerInv, NEW p \in Process, Claim(p) PROVE OwnerInv'
<1>1. /\ UNCHANGED <<latest, leads, disk, repairs>> /\ claimed' \in BOOLEAN
      /\ budget' \in [kills: 0 .. MaxKills, errors: 0 .. MaxErrors, damage: 0 .. MaxDamage]
  BY OwnerBefore DEF Claim
<1>2. CASE End(p)
  BY <1>1, <1>2, OwnerEnds
<1>3. CASE ~End(p)
  <2>1. run[p] \in Command /\ run[p].pc = "claim" /\ OwnedBy(run[p], repairs, disk[0].db.bound)
    BY OwnerBefore DEF Claim, At
  <2>2. \/ run' = [run EXCEPT ![p].pc = "name", ![p].path = 0]
        \/ run[p].path # Fresh /\ run' = [run EXCEPT ![p].pc = "name"]
    BY <1>3 DEF Claim, Goto
  <2>3. PICK path \in {0, run[p].path} :
           run' = [run EXCEPT ![p].pc = "name", ![p].path = path] /\ path # Fresh
    <3>1. 0 # Fresh
      BY OwnerBefore
    <3>2. CASE run' = [run EXCEPT ![p].pc = "name", ![p].path = 0]
      BY <3>1, <3>2
    <3>3. CASE run[p].path # Fresh /\ run' = [run EXCEPT ![p].pc = "name"]
      <4>1. [run[p] EXCEPT !.pc = "name"] = [run[p] EXCEPT !.pc = "name", !.path = run[p].path]
        BY <2>1 DEF Command
      <4> QED BY <3>3, <4>1
    <3> QED BY <2>2, <3>2, <3>3
  <2> DEFINE r == [run[p] EXCEPT !.pc = "name", !.path = path]
  <2>4. run' = [run EXCEPT ![p] = r]
    BY <2>3, OwnerBefore
  <2>5. path \in Dir /\ path <= repairs
    <3>1. run[p].path \in Dir \cup {Fresh}
      BY <2>1 DEF Command
    <3>2. run[p].path # Fresh => run[p].path <= repairs
      BY <2>1 DEF OwnedBy
    <3> QED BY <2>3, <3>1, <3>2, OwnerBefore
  <2>6. r \in Command
    BY <2>1, <2>5 DEF Command, Phase
  <2>7. /\ r.pc = "name" /\ r.kind = run[p].kind /\ r.archive = run[p].archive /\ r.path = path
        /\ r.todo = run[p].todo /\ r.plan = run[p].plan /\ r.dir = run[p].dir
    BY <2>1 DEF Command
  <2> HIDE DEF r
  <2>8. OwnedBy(r, repairs, disk[0].db.bound) /\ run[p].kind # "repair"
    BY <2>1, <2>3, <2>5, <2>7 DEF OwnedBy, Open
  <2> QED BY <1>1, <2>4, <2>6, <2>7, <2>8, OwnerRests
<1> QED BY <1>2, <1>3

\* A path a command goes by leads to a directory there is.
LEMMA PathLeads ==
    ASSUME OwnerInv, NEW p \in Process, run[p].pc \in Open \cup {"name", "wait", "build"}
    PROVE  /\ run[p].path \in 0..repairs /\ leads[run[p].path] \in 0..repairs
           /\ leads[run[p].path] \in Dir
<1>1. run[p] \in Command /\ OwnedBy(run[p], repairs, disk[0].db.bound)
  BY OwnerBefore
<1>2. run[p].path # Fresh /\ run[p].path <= repairs /\ run[p].path \in Dir
  BY <1>1 DEF OwnedBy, Command
<1>3. run[p].path \in 0..repairs
  BY <1>2, OwnerBefore DEF Dir
<1> QED BY <1>3, OwnerBefore

LEMMA OwnerNamesLock ==
    ASSUME OwnerInv, NEW p \in Process, NameLock(p) PROVE OwnerInv'
<1> DEFINE lock == leads[run[p].path]
           r == [run[p] EXCEPT !.pc = "wait", !.lock = lock]
<1>1. run[p] \in Command /\ run[p].pc = "name" /\ OwnedBy(run[p], repairs, disk[0].db.bound)
  BY OwnerBefore DEF NameLock, At
<1>2. lock \in Dir
  BY <1>1, PathLeads
<1>3. run' = [run EXCEPT ![p] = r]
  BY OwnerBefore DEF NameLock
<1> HIDE DEF lock
<1>4. r \in Command
  BY <1>1, <1>2 DEF Command, Phase
<1>5. /\ r.pc = "wait" /\ r.kind = run[p].kind /\ r.archive = run[p].archive /\ r.path = run[p].path
      /\ r.todo = run[p].todo /\ r.plan = run[p].plan /\ r.dir = run[p].dir
  BY <1>1 DEF Command
<1> HIDE DEF r
<1>6. OwnedBy(r, repairs, disk[0].db.bound)
  BY <1>1, <1>5 DEF OwnedBy, Open
<1>7. /\ UNCHANGED <<latest, leads, disk, repairs>> /\ claimed' \in BOOLEAN
      /\ budget' \in [kills: 0 .. MaxKills, errors: 0 .. MaxErrors, damage: 0 .. MaxDamage]
  BY OwnerBefore DEF NameLock
<1> QED BY <1>1, <1>3, <1>4, <1>5, <1>6, <1>7, OwnerRests

\* The process p opens the directory e, whatever the lock it holds is named after.
LEMMA OwnerOpens ==
    ASSUME OwnerInv, NEW p \in Process, OpenDatabase(p) PROVE OwnerInv'
<1>1. /\ run[p] \in Command /\ run[p].pc = "wait" /\ run[p].kind # "repair"
      /\ OwnedBy(run[p], repairs, disk[0].db.bound)
  BY OwnerBefore DEF OpenDatabase, At
<1>2. PICK e \in 0..repairs : e = leads[run[p].path] /\ e \in Dir
  BY <1>1, PathLeads
<1>3. CASE End(p) /\ UNCHANGED disk
  BY <1>3, OwnerBefore, OwnerEnds DEF OpenDatabase
<1>4. CASE /\ run' = [run EXCEPT ![p].pc = "migrate", ![p].dir = e]
           /\ disk' = [disk EXCEPT ![e].exists = TRUE, ![e].wal = @ \/ disk[e].exists]
  <2> DEFINE r == [run[p] EXCEPT !.pc = "migrate", !.dir = e]
             d == [disk[e] EXCEPT !.exists = TRUE, !.wal = @ \/ disk[e].exists]
  <2>1. run' = [run EXCEPT ![p] = r]
    BY <1>4, OwnerBefore
  <2>2. disk' = [disk EXCEPT ![e] = d]
    BY <1>2, <1>4, OwnerBefore
  <2>3. r \in Command
    BY <1>1, <1>2 DEF Command, Phase, Open
  <2>4. d \in Directory /\ d.db = disk[e].db /\ d.file = disk[e].file /\ d.witness = disk[e].witness
    <3>1. disk[e] \in Directory
      BY <1>2, OwnerBefore
    <3>2. (disk[e].wal \/ disk[e].exists) \in BOOLEAN
      OBVIOUS
    <3> QED BY <3>1, <3>2 DEF Directory
  <2>5. /\ r.pc = "migrate" /\ r.kind = run[p].kind /\ r.archive = run[p].archive /\ r.path = run[p].path
        /\ r.todo = run[p].todo /\ r.plan = run[p].plan /\ r.dir = e
    BY <1>1 DEF Command
  <2> HIDE DEF r, d
  <2>6. OwnHistory(d) /\ d.file.bound \in {None, d.db.bound}
    BY <1>2, <2>4, OwnerBefore DEF OwnHistory
  <2>7. OwnedBy(r, repairs, d.db.bound)
    <3>1. d.db.bound = disk[0].db.bound
      BY <2>4, OwnerBefore
    <3>2. OwnedBy(r, repairs, disk[0].db.bound)
      BY <1>1, <1>2, <2>5 DEF OwnedBy, Open
    <3> QED BY <3>1, <3>2
  <2>8. IsFiniteSet(Repairing') /\ repairs + Cardinality(Pending') <= MaxRepairs
    BY <1>1, <2>1, <2>5, OwnerCounts
  <2>9. /\ UNCHANGED <<latest, leads, repairs>> /\ claimed' \in BOOLEAN
        /\ budget' \in [kills: 0 .. MaxKills, errors: 0 .. MaxErrors, damage: 0 .. MaxDamage]
    BY OwnerBefore DEF OpenDatabase
  <2>10. disk[e].db.bound \in {None, d.db.bound}
    BY <2>4
  <2> QED BY <2>1, <2>2, <2>3, <2>4, <2>6, <2>7, <2>8, <2>9, <2>10, OwnerMoves
<1> QED BY <1>2, <1>3, <1>4 DEF OpenDatabase

\* A command with the directory e open, between two of its steps.
LEMMA OwnerOpen ==
    ASSUME OwnerInv, NEW p \in Process, run[p].pc \in Open, NEW e, e = run[p].dir
    PROVE  /\ run[p] \in Command /\ OwnedBy(run[p], repairs, disk[0].db.bound)
           /\ e \in 0..repairs /\ e \in Dir /\ run[p].archive \in Archive /\ run[p].kind # "repair"
           /\ disk[e].db \in Content /\ disk[e] \in Directory /\ OwnHistory(disk[e])
           /\ disk[e].file.bound \in {None, disk[e].db.bound}
           /\ disk[e].db.bound = disk[0].db.bound
           /\ disk \in [Dir -> Directory] /\ run \in [Process -> Command]
<1>1. run[p] \in Command /\ OwnedBy(run[p], repairs, disk[0].db.bound)
  BY OwnerBefore
<1>2. e \in 0..repairs /\ run[p].kind # "repair" /\ run[p].archive \in Archive
  BY <1>1 DEF OwnedBy, Open
<1>3. e \in Dir
  BY <1>2, OwnerBefore
<1> QED BY <1>1, <1>2, <1>3, OwnerBefore

LEMMA OwnerMigrates ==
    ASSUME OwnerInv, NEW p \in Process, Migrate(p) PROVE OwnerInv'
<1>1. run[p].pc = "migrate" /\ run[p].pc \in Open
  BY DEF Migrate, At, Open
<1> DEFINE e == run[p].dir
           next == IF run[p].kind = "download" THEN "bind" ELSE "reconcile"
           r == [run[p] EXCEPT !.pc = next]
           new == [disk[e].db EXCEPT !.tables = TRUE]
<1>2. /\ run[p] \in Command /\ OwnedBy(run[p], repairs, disk[0].db.bound) /\ e \in 0..repairs
      /\ run[p].kind # "repair" /\ disk[e].db \in Content /\ OwnHistory(disk[e])
      /\ disk[e].db.bound = disk[0].db.bound
  BY <1>1, OwnerOpen
<1>3. Commit(e, new)
  BY DEF Migrate
<1>4. run' = [run EXCEPT ![p] = r]
  BY OwnerBefore DEF Migrate, Goto
<1>5. next \in {"bind", "reconcile"}
  OBVIOUS
<1> HIDE DEF next
<1>6. r \in Command
  BY <1>2, <1>5 DEF Command, Phase, Open
<1>7. /\ r.pc = next /\ r.kind = run[p].kind /\ r.archive = run[p].archive /\ r.path = run[p].path
      /\ r.todo = run[p].todo /\ r.plan = run[p].plan /\ r.dir = e
  BY <1>2 DEF Command
<1>8. new \in Content /\ new.bound = disk[e].db.bound /\ new.snapshots = disk[e].db.snapshots
  BY <1>2 DEF Content
<1> HIDE DEF r, new, e
<1>9. OwnedBy(r, repairs, new.bound)
  <2>1. r.dir \in 0..repairs
    BY <1>2, <1>7
  <2>2. OwnedBy(r, repairs, disk[0].db.bound)
    BY <1>1, <1>2, <1>5, <1>7, <2>1 DEF OwnedBy, Open
  <2> QED BY <1>2, <1>8, <2>2
<1>10. /\ disk[e].witness # None => new.bound = disk[e].witness
       /\ \A s \in new.snapshots : s[1] = new.bound
       /\ disk[e].db.bound \in {None, new.bound} /\ r.kind # "repair"
  BY <1>2, <1>7, <1>8 DEF OwnHistory
<1> QED BY <1>2, <1>3, <1>4, <1>6, <1>8, <1>9, <1>10, OwnerCommits DEF Migrate

\* A command that closes without having changed the database.
LEMMA OwnerCloses ==
    ASSUME OwnerInv, NEW p \in Process, run[p].pc \in Open,
           run' = [run EXCEPT ![p].pc = "close", ![p].ok = FALSE],
           UNCHANGED <<latest, leads, disk, repairs>>, claimed' \in BOOLEAN,
           budget' \in [kills: 0 .. MaxKills, errors: 0 .. MaxErrors, damage: 0 .. MaxDamage]
    PROVE  OwnerInv'
<1> DEFINE r == [run[p] EXCEPT !.pc = "close", !.ok = FALSE]
<1>1. run' = [run EXCEPT ![p] = r] /\ run[p] \in Command /\ run[p].kind # "repair"
      /\ OwnedBy(run[p], repairs, disk[0].db.bound)
  BY OwnerBefore, OwnerOpen
<1>2. r \in Command
  BY <1>1 DEF Command, Phase, Open
<1>3. /\ r.pc = "close" /\ r.kind = run[p].kind /\ r.archive = run[p].archive /\ r.path = run[p].path
      /\ r.todo = run[p].todo /\ r.plan = run[p].plan /\ r.dir = run[p].dir
  BY <1>1 DEF Command
<1> HIDE DEF r
<1>4. OwnedBy(r, repairs, disk[0].db.bound)
  BY <1>1, <1>3 DEF OwnedBy, Open
<1> QED BY <1>1, <1>2, <1>3, <1>4, OwnerRests

\* Only an unbound database is bound, and there is one only while no repair has
\* been promoted: so its Archive becomes the owner, and nobody had another.
LEMMA OwnerBinds ==
    ASSUME OwnerInv, NEW p \in Process, Bind(p) PROVE OwnerInv'
<1>1. run[p].pc = "bind" /\ run[p].pc \in Open
  BY DEF Bind, At, Open
<1> DEFINE e == run[p].dir
           w == leads[run[p].path]
           a == run[p].archive
           owner == disk[0].db.bound
<1>2. /\ run[p] \in Command /\ OwnedBy(run[p], repairs, owner) /\ e \in 0..repairs
      /\ run[p].kind # "repair" /\ disk[e].db \in Content /\ OwnHistory(disk[e])
      /\ disk[e].db.bound = owner /\ a \in Archive
  BY <1>1, OwnerOpen
<1>3. CASE ~(disk[w].witness \in {None, a} /\ disk[e].db.bound \in {None, a})
  BY <1>1, <1>3, OwnerBefore, OwnerCloses DEF Bind
<1>4. CASE disk[w].witness \in {None, a} /\ disk[e].db.bound \in {None, a}
  <2> DEFINE next == IF disk[w].witness = None THEN "witness" ELSE "ingest"
             new == [disk[e].db EXCEPT !.bound = a]
             r == [run[p] EXCEPT !.pc = next]
  <2>1. Commit(e, new) /\ run' = [run EXCEPT ![p] = r]
    BY <1>4, OwnerBefore DEF Bind, Goto
  <2>2. next \in {"witness", "ingest"}
    OBVIOUS
  <2> HIDE DEF next
  <2>3. r \in Command
    BY <1>2, <2>2 DEF Command, Phase, Open
  <2>4. /\ r.pc = next /\ r.kind = run[p].kind /\ r.archive = a /\ r.path = run[p].path
        /\ r.todo = run[p].todo /\ r.plan = run[p].plan /\ r.dir = e
    BY <1>2 DEF Command
  <2>5. new \in Content /\ new.bound = a /\ new.snapshots = disk[e].db.snapshots
    BY <1>2 DEF Content
  <2> HIDE DEF r, new, e, w
  <2>6. \A s \in new.snapshots : s[1] = new.bound
    <3>1. SUFFICES ASSUME NEW s \in new.snapshots PROVE s[1] = new.bound
      OBVIOUS
    <3>2. s[1] = disk[e].db.bound /\ s[1] \in Archive
      BY <1>2, <2>5 DEF OwnHistory, Content
    <3> QED BY <1>4, <2>5, <3>2, ConstantsAssumption
  <2>7. disk[e].witness # None => new.bound = disk[e].witness
    BY <1>2, <1>4, <2>5 DEF OwnHistory
  <2>8. OwnedBy(r, repairs, new.bound)
    <3>1. r.dir \in 0..repairs /\ r.archive = new.bound
      BY <1>2, <2>4, <2>5
    <3> QED BY <1>1, <1>2, <2>2, <2>4, <3>1 DEF OwnedBy, Open
  <2>9. disk[e].db.bound \in {None, new.bound} /\ r.kind # "repair"
    BY <1>2, <1>4, <2>4, <2>5
  <2> QED BY <1>2, <2>1, <2>3, <2>5, <2>6, <2>7, <2>8, <2>9, OwnerCommits DEF Bind
<1> QED BY <1>3, <1>4

\* The witness is written where the path leads, which may no longer be where the
\* database was opened: both have the same owner.
LEMMA OwnerWitnesses ==
    ASSUME OwnerInv, NEW p \in Process, WriteWitness(p) PROVE OwnerInv'
<1>1. run[p].pc = "witness" /\ run[p].pc \in Open
  BY DEF WriteWitness, At, Open
<1> DEFINE w == leads[run[p].path]
           r == [run[p] EXCEPT !.pc = "ingest"]
           d == [disk[w] EXCEPT !.witness = run[p].archive]
<1>2. /\ run[p] \in Command /\ run[p].archive \in Archive /\ run[p].kind # "repair"
      /\ OwnedBy(run[p], repairs, disk[0].db.bound) /\ run \in [Process -> Command]
  BY <1>1, OwnerOpen
<1>3. w \in 0..repairs /\ w \in Dir
  BY <1>1, PathLeads
<1>4. run' = [run EXCEPT ![p] = r] /\ disk' = [disk EXCEPT ![w] = d]
  BY <1>2, OwnerBefore DEF WriteWitness, Goto
<1>5. r \in Command
  BY <1>2 DEF Command, Phase, Open
<1>6. /\ r.pc = "ingest" /\ r.kind = run[p].kind /\ r.archive = run[p].archive /\ r.path = run[p].path
      /\ r.todo = run[p].todo /\ r.plan = run[p].plan /\ r.dir = run[p].dir
  BY <1>2 DEF Command
<1> HIDE DEF w
<1>7. /\ disk[w] \in Directory /\ OwnHistory(disk[w]) /\ disk[w].db.bound = disk[0].db.bound
      /\ disk[w].file.bound \in {None, disk[w].db.bound}
  BY <1>3, OwnerBefore
<1>8. d \in Directory /\ d.db = disk[w].db /\ d.file = disk[w].file /\ d.witness = run[p].archive
  BY <1>2, <1>7 DEF Directory
<1> HIDE DEF r, d
<1>9. disk[0].db.bound = run[p].archive
  BY <1>1, <1>2 DEF OwnedBy
<1>10. OwnHistory(d) /\ d.file.bound \in {None, d.db.bound} /\ disk[w].db.bound \in {None, d.db.bound}
  BY <1>7, <1>8, <1>9 DEF OwnHistory
<1>11. OwnedBy(r, repairs, d.db.bound)
  <2>1. OwnedBy(r, repairs, disk[0].db.bound)
    BY <1>1, <1>2, <1>6 DEF OwnedBy, Open
  <2> QED BY <1>7, <1>8, <2>1
<1>12. /\ UNCHANGED <<latest, leads, repairs>> /\ claimed' \in BOOLEAN
       /\ budget' \in [kills: 0 .. MaxKills, errors: 0 .. MaxErrors, damage: 0 .. MaxDamage]
  BY OwnerBefore DEF WriteWitness
<1>13. IsFiniteSet(Repairing') /\ repairs + Cardinality(Pending') <= MaxRepairs
  BY <1>2, <1>4, <1>6, OwnerCounts
<1> QED BY <1>3, <1>4, <1>5, <1>8, <1>10, <1>11, <1>12, <1>13, OwnerMoves

LEMMA OwnerIngests ==
    ASSUME OwnerInv, NEW p \in Process, Ingest(p) PROVE OwnerInv'
<1>1. run[p].pc = "ingest" /\ run[p].pc \in Open
  BY DEF Ingest, At, Open
<1> DEFINE e == run[p].dir
<1>2. /\ run[p] \in Command /\ OwnedBy(run[p], repairs, disk[0].db.bound) /\ e \in 0..repairs
      /\ run[p].kind # "repair" /\ disk[e].db \in Content /\ OwnHistory(disk[e])
      /\ disk[e].db.bound = disk[0].db.bound /\ run[p].archive \in Archive
  BY <1>1, OwnerOpen
<1>3. PICK m \in run[p].todo :
         /\ Commit(e, [disk[e].db EXCEPT
                          !.snapshots = @ \cup {<<run[p].archive, m, run[p].plan[m]>>}])
         /\ run' = [run EXCEPT ![p].todo = @ \ {m}]
  BY DEF Ingest
<1> DEFINE s == <<run[p].archive, m, run[p].plan[m]>>
           new == [disk[e].db EXCEPT !.snapshots = @ \cup {s}]
           r == [run[p] EXCEPT !.todo = @ \ {m}]
<1>4. Commit(e, new) /\ run' = [run EXCEPT ![p] = r]
  BY <1>3, OwnerBefore
<1>5. m \in Machine /\ run[p].plan[m] \in 1 .. MaxSnapshot
  <2>1. run[p].todo \subseteq Machine /\ run[p].plan \in [Machine -> 0 .. MaxSnapshot]
    BY <1>2 DEF Command, Vector
  <2>2. run[p].plan[m] # 0
    BY <1>2 DEF OwnedBy
  <2> QED BY <2>1, <2>2, ConstantsAssumption, SMT
<1>6. r \in Command
  BY <1>2 DEF Command
<1>7. /\ new \in Content /\ new.bound = disk[e].db.bound
      /\ new.snapshots = disk[e].db.snapshots \cup {s}
  BY <1>2, <1>5 DEF Content
<1>8. /\ r.pc = "ingest" /\ r.kind = run[p].kind /\ r.archive = run[p].archive /\ r.path = run[p].path
      /\ r.todo = run[p].todo \ {m} /\ r.plan = run[p].plan /\ r.dir = run[p].dir
  BY <1>1, <1>2 DEF Command
<1>9. s[1] = run[p].archive
  OBVIOUS
<1> HIDE DEF r, new, s
<1>10. disk[e].db.bound = run[p].archive
  BY <1>1, <1>2 DEF OwnedBy
<1>11. OwnedBy(r, repairs, new.bound)
  <2>1. OwnedBy(r, repairs, disk[0].db.bound)
    BY <1>1, <1>2, <1>8 DEF OwnedBy, Open
  <2> QED BY <1>2, <1>7, <2>1
<1> HIDE DEF e
<1>12. /\ \A x \in new.snapshots : x[1] = new.bound
       /\ disk[e].witness # None => new.bound = disk[e].witness
       /\ disk[e].db.bound \in {None, new.bound} /\ r.kind # "repair"
  BY <1>2, <1>7, <1>8, <1>9, <1>10 DEF OwnHistory
<1> QED BY <1>2, <1>4, <1>6, <1>7, <1>11, <1>12, OwnerCommits DEF Ingest

LEMMA OwnerRecords ==
    ASSUME OwnerInv, NEW p \in Process, Record(p) PROVE OwnerInv'
<1>1. run[p].pc = "ingest" /\ run[p].pc \in Open
  BY DEF Record, At, Open
<1> DEFINE e == run[p].dir
           new == [disk[e].db EXCEPT !.vector = run[p].plan]
           r == [run[p] EXCEPT !.pc = "close"]
<1>2. /\ run[p] \in Command /\ OwnedBy(run[p], repairs, disk[0].db.bound) /\ e \in 0..repairs
      /\ run[p].kind # "repair" /\ disk[e].db \in Content /\ OwnHistory(disk[e])
      /\ disk[e].db.bound = disk[0].db.bound
  BY <1>1, OwnerOpen
<1>3. Commit(e, new) /\ run' = [run EXCEPT ![p] = r]
  BY OwnerBefore DEF Record, Goto
<1>4. r \in Command
  BY <1>2 DEF Command, Phase, Open
<1>5. new \in Content /\ new.bound = disk[e].db.bound /\ new.snapshots = disk[e].db.snapshots
  BY <1>2 DEF Content, Command
<1>6. /\ r.pc = "close" /\ r.kind = run[p].kind /\ r.archive = run[p].archive /\ r.path = run[p].path
      /\ r.todo = run[p].todo /\ r.plan = run[p].plan /\ r.dir = run[p].dir
  BY <1>2 DEF Command
<1> HIDE DEF r, new
<1>7. OwnedBy(r, repairs, new.bound)
  <2>1. OwnedBy(r, repairs, disk[0].db.bound)
    BY <1>1, <1>2, <1>6 DEF OwnedBy, Open
  <2> QED BY <1>2, <1>5, <2>1
<1> HIDE DEF e
<1>8. /\ disk[e].witness # None => new.bound = disk[e].witness
      /\ \A s \in new.snapshots : s[1] = new.bound
      /\ disk[e].db.bound \in {None, new.bound} /\ r.kind # "repair"
  BY <1>2, <1>5, <1>6 DEF OwnHistory
<1> QED BY <1>2, <1>3, <1>4, <1>5, <1>7, <1>8, OwnerCommits DEF Record

LEMMA OwnerReconciles ==
    ASSUME OwnerInv, NEW p \in Process, Reconcile(p) PROVE OwnerInv'
<1>1. run[p].pc = "reconcile" /\ run[p].pc \in Open
  BY DEF Reconcile, At, Open
<1> DEFINE e == run[p].dir
           health == IF disk[e].health = "drifted" THEN "sound" ELSE disk[e].health
           r == [run[p] EXCEPT !.pc = "close"]
           d == [disk[e] EXCEPT !.health = health]
<1>2. /\ run[p] \in Command /\ OwnedBy(run[p], repairs, disk[0].db.bound) /\ e \in 0..repairs /\ e \in Dir
      /\ run[p].kind # "repair" /\ disk[e] \in Directory /\ OwnHistory(disk[e])
      /\ disk[e].db.bound = disk[0].db.bound /\ disk[e].file.bound \in {None, disk[e].db.bound}
  BY <1>1, OwnerOpen
<1>3. run' = [run EXCEPT ![p] = r] /\ disk' = [disk EXCEPT ![e] = d]
  BY <1>2, OwnerBefore DEF Reconcile, Goto
<1>4. r \in Command
  BY <1>2 DEF Command, Phase, Open
<1>5. /\ r.pc = "close" /\ r.kind = run[p].kind /\ r.archive = run[p].archive /\ r.path = run[p].path
      /\ r.todo = run[p].todo /\ r.plan = run[p].plan /\ r.dir = run[p].dir
  BY <1>2 DEF Command
<1>6. OwnedBy(r, repairs, disk[0].db.bound)
  BY <1>1, <1>2, <1>5 DEF OwnedBy, Open
<1> HIDE DEF r, e
<1>7. d \in Directory /\ d.db = disk[e].db /\ d.file = disk[e].file /\ d.witness = disk[e].witness
  <2>1. health \in Health
    BY <1>2 DEF Directory, Health
  <2> HIDE DEF health
  <2> QED BY <1>2, <2>1 DEF Directory
<1> HIDE DEF d
<1>8. OwnHistory(d) /\ d.file.bound \in {None, d.db.bound} /\ disk[e].db.bound \in {None, d.db.bound}
  BY <1>2, <1>7 DEF OwnHistory
<1>9. OwnedBy(r, repairs, d.db.bound)
  BY <1>2, <1>6, <1>7
<1>10. /\ UNCHANGED <<latest, leads, repairs>> /\ claimed' \in BOOLEAN
       /\ budget' \in [kills: 0 .. MaxKills, errors: 0 .. MaxErrors, damage: 0 .. MaxDamage]
  BY OwnerBefore DEF Reconcile
<1>11. IsFiniteSet(Repairing') /\ repairs + Cardinality(Pending') <= MaxRepairs
  BY <1>2, <1>3, <1>5, OwnerCounts
<1> QED BY <1>2, <1>3, <1>4, <1>7, <1>8, <1>9, <1>10, <1>11, OwnerMoves

LEMMA OwnerClosesDatabase ==
    ASSUME OwnerInv, NEW p \in Process, CloseDatabase(p) PROVE OwnerInv'
<1>1. run[p].pc = "close" /\ run[p].pc \in Open
  BY DEF CloseDatabase, At, Open
<1>2. PICK e \in 0..repairs : e = run[p].dir
  BY <1>1, OwnerOpen
<1>3. /\ disk[e] \in Directory /\ OwnHistory(disk[e]) /\ disk[e].db.bound = disk[0].db.bound
      /\ run \in [Process -> Command] /\ disk \in [Dir -> Directory] /\ e \in Dir
  BY <1>1, <1>2, OwnerOpen
<1>4. /\ UNCHANGED <<latest, leads, repairs>> /\ claimed' \in BOOLEAN
      /\ budget' \in [kills: 0 .. MaxKills, errors: 0 .. MaxErrors, damage: 0 .. MaxDamage]
      /\ End(p)
  BY OwnerBefore DEF CloseDatabase
<1>5. CASE UNCHANGED disk
  BY <1>4, <1>5, OwnerEnds
<1>6. CASE disk' = [disk EXCEPT ![e].wal = FALSE, ![e].file = disk[e].db]
  <2> DEFINE d == [disk[e] EXCEPT !.wal = FALSE, !.file = disk[e].db]
  <2>1. disk' = [disk EXCEPT ![e] = d]
    BY <1>3, <1>6
  <2>2. d \in Directory /\ d.db = disk[e].db /\ d.file = disk[e].db /\ d.witness = disk[e].witness
    BY <1>3 DEF Directory
  <2> HIDE DEF d
  <2>3. OwnHistory(d) /\ d.file.bound \in {None, d.db.bound} /\ disk[e].db.bound \in {None, d.db.bound}
    BY <1>3, <2>2 DEF OwnHistory
  <2>4. Idle \in Command /\ OwnedBy(Idle, repairs, d.db.bound) /\ Idle.kind # "repair"
    BY OwnerBefore, IdleOwesNothing
  <2>5. run' = [run EXCEPT ![p] = Idle]
    BY <1>4 DEF End
  <2>6. IsFiniteSet(Repairing') /\ repairs + Cardinality(Pending') <= MaxRepairs
    BY <2>4, <2>5, OwnerCounts
  <2> QED BY <1>4, <2>1, <2>2, <2>3, <2>4, <2>5, <2>6, OwnerMoves
<1> QED BY <1>2, <1>5, <1>6 DEF CloseDatabase

\* A repair goes on only against a Workspace of its own Archive: the witness names
\* it, or the binding in the file does.
LEMMA OwnerInspectsRepair ==
    ASSUME OwnerInv, NEW p \in Process, InspectRepair(p) PROVE OwnerInv'
<1> DEFINE a == run[p].archive
           s == Inspect(a, run[p].plan)
<1>1. /\ run[p].pc = "inspect" /\ run[p].kind = "repair"
      /\ OwnedBy(run[p], repairs, disk[0].db.bound)
  BY OwnerBefore DEF InspectRepair, At
<1>2. a # None
  BY <1>1, ConstantsAssumption DEF OwnedBy
<1>3. /\ OwnHistory(Here) /\ Here.db.bound = disk[0].db.bound
      /\ Here.file.bound \in {None, Here.db.bound}
  BY OwnerBefore
<1>4. CASE End(p)
  BY <1>4, OwnerBefore, OwnerEnds DEF InspectRepair
<1>5. CASE s = "damaged" /\ Goto(p, "begin")
  <2>1. Here.witness = a
    <3>1. StateOf(Here, a, run[p].plan) # "damaged"
      BY DEF StateOf
    <3> QED BY <1>5, <3>1 DEF Inspect
  <2>2. disk[0].db.bound = a
    BY <1>2, <1>3, <2>1 DEF OwnHistory
  <2> QED BY <1>1, <1>5, <2>2, OwnerGoes DEF InspectRepair
<1>6. CASE s \in {"current", "behind"} /\ Goto(p, "health")
  <2>1. Here.file.bound = a
    BY <1>6 DEF Inspect, StateOf
  <2>2. disk[0].db.bound = a
    BY <1>2, <1>3, <2>1
  <2> QED BY <1>1, <1>6, <2>2, OwnerGoes DEF InspectRepair
<1> QED BY <1>4, <1>5, <1>6 DEF InspectRepair

LEMMA OwnerChecksHealth ==
    ASSUME OwnerInv, NEW p \in Process, CheckHealth(p) PROVE OwnerInv'
<1>1. CASE End(p)
  BY <1>1, OwnerBefore, OwnerEnds DEF CheckHealth
<1>2. CASE Goto(p, "begin")
  <2>1. run[p].pc = "health" /\ OwnedBy(run[p], repairs, disk[0].db.bound)
    BY OwnerBefore DEF CheckHealth, At
  <2>2. run[p].kind = "repair" /\ run[p].archive = disk[0].db.bound
    BY <2>1 DEF OwnedBy
  <2> QED BY <1>2, <2>1, <2>2, OwnerGoes DEF CheckHealth
<1> QED BY <1>1, <1>2 DEF CheckHealth

LEMMA OwnerBeginsRepair ==
    ASSUME OwnerInv, NEW p \in Process, BeginRepair(p) PROVE OwnerInv'
<1>1. CASE End(p)
  BY <1>1, OwnerBefore, OwnerEnds DEF BeginRepair
<1>2. CASE run' = [run EXCEPT ![p].pc = "name", ![p].path = leads[0]]
  <2> DEFINE e == leads[0]
             r == [run[p] EXCEPT !.pc = "name", !.path = e]
  <2>1. run' = [run EXCEPT ![p] = r] /\ run[p] \in Command /\ run[p].pc = "begin"
        /\ OwnedBy(run[p], repairs, disk[0].db.bound)
    BY <1>2, OwnerBefore DEF BeginRepair, At
  <2>2. e \in Dir /\ e <= repairs /\ e # Fresh
    BY OwnerBefore
  <2> HIDE DEF e
  <2>3. r \in Command
    BY <2>1, <2>2 DEF Command, Phase
  <2>4. /\ r.pc = "name" /\ r.kind = run[p].kind /\ r.archive = run[p].archive /\ r.path = e
        /\ r.todo = run[p].todo /\ r.plan = run[p].plan /\ r.dir = run[p].dir
    BY <2>1 DEF Command
  <2> HIDE DEF r
  <2>5. OwnedBy(r, repairs, disk[0].db.bound)
    BY <2>1, <2>2, <2>4 DEF OwnedBy, Open
  <2>6. /\ UNCHANGED <<latest, leads, disk, repairs>> /\ claimed' \in BOOLEAN
        /\ budget' \in [kills: 0 .. MaxKills, errors: 0 .. MaxErrors, damage: 0 .. MaxDamage]
    BY OwnerBefore DEF BeginRepair
  <2> QED BY <2>1, <2>3, <2>4, <2>5, <2>6, OwnerRests
<1> QED BY <1>1, <1>2 DEF BeginRepair

LEMMA OwnerLocks ==
    ASSUME OwnerInv, NEW p \in Process, LockExclusively(p) PROVE OwnerInv'
<1> DEFINE r == [run[p] EXCEPT !.pc = "build"]
<1>1. /\ run' = [run EXCEPT ![p] = r] /\ run[p] \in Command /\ run[p].pc = "wait"
      /\ run[p].kind = "repair" /\ OwnedBy(run[p], repairs, disk[0].db.bound)
  BY OwnerBefore DEF LockExclusively, At, Goto
<1>2. r \in Command
  BY <1>1 DEF Command, Phase
<1>3. /\ r.pc = "build" /\ r.kind = run[p].kind /\ r.archive = run[p].archive /\ r.path = run[p].path
      /\ r.todo = run[p].todo /\ r.plan = run[p].plan /\ r.dir = run[p].dir
  BY <1>1 DEF Command
<1> HIDE DEF r
<1>4. OwnedBy(r, repairs, disk[0].db.bound)
  BY <1>1, <1>3 DEF OwnedBy, Open
<1>5. /\ UNCHANGED <<latest, leads, disk, repairs>> /\ claimed' \in BOOLEAN
      /\ budget' \in [kills: 0 .. MaxKills, errors: 0 .. MaxErrors, damage: 0 .. MaxDamage]
  BY OwnerBefore DEF LockExclusively
<1> QED BY <1>1, <1>2, <1>3, <1>4, <1>5, OwnerRests

\* What a replacement is: well formed, and of its repair's Archive throughout.
LEMMA ReplacementIsWhole ==
    ASSUME NEW a \in Archive, NEW plan \in Vector, NEW full, NEW new,
           full = [tables |-> TRUE, bound |-> a,
                   snapshots |-> {<<a, m, plan[m]>> : m \in {n \in Machine : plan[n] # 0}},
                   vector |-> plan],
           new = [exists |-> TRUE, file |-> full, db |-> full, wal |-> FALSE,
                  witness |-> a, health |-> "sound"]
    PROVE  /\ new \in Directory /\ OwnHistory(new) /\ new.db.bound = a
           /\ new.file.bound = a
<1> DEFINE planned == {n \in Machine : plan[n] # 0}
<1>1. planned \subseteq Machine /\ \A m \in planned : plan[m] \in 1 .. MaxSnapshot
  <2>1. plan \in [Machine -> 0 .. MaxSnapshot]
    BY DEF Vector
  <2> QED BY <2>1, ConstantsAssumption, SMT
<1>2. full.snapshots = {<<a, m, plan[m]>> : m \in planned} /\ full.bound = a
  OBVIOUS
<1> HIDE DEF planned
<1>3. full.snapshots \subseteq Archive \X Machine \X (1 .. MaxSnapshot)
      /\ \A s \in full.snapshots : s[1] = a
  BY <1>1, <1>2
<1>4. full \in Content
  <2>1. full = [tables |-> TRUE, bound |-> a, snapshots |-> full.snapshots, vector |-> plan]
    OBVIOUS
  <2> QED BY <1>3, <2>1 DEF Content
<1>5. new \in Directory /\ new.db = full /\ new.file = full /\ new.witness = a
  BY <1>4 DEF Directory, Health
<1> QED BY <1>2, <1>3, <1>5 DEF OwnHistory

\* An exchange uses up one of the repairs the bound was counting on.
LEMMA SwapCounts ==
    ASSUME OwnerInv, NEW p \in Process, NEW r, run' = [run EXCEPT ![p] = r],
           run[p].kind = "repair", run[p].pc = "build", r.kind = "repair", r.pc = "release"
    PROVE  /\ IsFiniteSet(Repairing') /\ repairs + 1 \in Dir
           /\ repairs + 1 + Cardinality(Pending') <= MaxRepairs
<1>1. run'[p] = r /\ \A q \in Process : q # p => run'[q] = run[q]
  BY OwnerBefore
<1>2. Repairing' = Repairing
  BY <1>1 DEF Repairing
<1>3. p \in Pending /\ Pending \subseteq Repairing /\ Pending' = Pending \ {p}
  BY <1>1, <1>2 DEF Pending, Repairing
<1>4. IsFiniteSet(Repairing) /\ repairs + Cardinality(Pending) <= MaxRepairs
  BY DEF OwnerInv
<1>5. IsFiniteSet(Pending)
  BY <1>3, <1>4, FS_Subset
<1>6. /\ Cardinality(Pending') = Cardinality(Pending) - 1 /\ IsFiniteSet(Pending')
      /\ Cardinality(Pending) \in Nat /\ Cardinality(Pending') \in Nat
  BY <1>3, <1>5, FS_RemoveElement, FS_CardinalityType
<1>7. repairs + 1 + Cardinality(Pending') <= MaxRepairs
  BY <1>4, <1>6, OwnerBefore
<1>8. repairs + 1 \in Dir
  BY <1>6, <1>7, OwnerBefore DEF Dir
<1> QED BY <1>2, <1>4, <1>7, <1>8

LEMMA OwnerSwaps ==
    ASSUME OwnerInv, NEW p \in Process, Swap(p) PROVE OwnerInv'
<1>1. /\ run[p] \in Command /\ run[p].pc = "build" /\ OwnedBy(run[p], repairs, disk[0].db.bound)
  BY OwnerBefore DEF Swap, At
<1>2. /\ run[p].kind = "repair" /\ run[p].archive = disk[0].db.bound /\ run[p].archive \in Archive
      /\ run[p].plan \in Vector /\ run[p].archive # None
  BY <1>1, ConstantsAssumption DEF OwnedBy, Command
<1> DEFINE a == run[p].archive
           full == [tables |-> TRUE, bound |-> a,
                    snapshots |-> {<<a, m, run[p].plan[m]>> :
                                      m \in {n \in Machine : run[p].plan[n] # 0}},
                    vector |-> run[p].plan]
           new == [exists |-> TRUE, file |-> full, db |-> full, wal |-> FALSE,
                   witness |-> a, health |-> "sound"]
           r == [run[p] EXCEPT !.pc = "release"]
           d == repairs + 1
           e == run[p].path
<1>3. new \in Directory /\ OwnHistory(new) /\ new.db.bound = a /\ new.file.bound = a
  BY <1>2, ReplacementIsWhole
<1>4. disk' = [disk EXCEPT ![d] = new] /\ run' = [run EXCEPT ![p] = r] /\ repairs' = d
  BY OwnerBefore DEF Swap, Goto
<1> HIDE DEF full, new
<1>5. r \in Command
  BY <1>1 DEF Command, Phase
<1>6. /\ r.pc = "release" /\ r.kind = run[p].kind /\ r.archive = a /\ r.path = run[p].path
      /\ r.todo = run[p].todo /\ r.plan = run[p].plan /\ r.dir = run[p].dir
  BY <1>1 DEF Command
<1> HIDE DEF r
<1>7. d \in Dir /\ IsFiniteSet(Repairing') /\ d + Cardinality(Pending') <= MaxRepairs
  BY <1>1, <1>2, <1>4, <1>6, SwapCounts
<1>8. e \in 0..repairs
  BY <1>1, PathLeads
<1>9. leads' = [n \in Dir |-> IF n <= e /\ leads[n] = leads[e] THEN d ELSE leads[n]]
  BY DEF Swap
<1>10. leads' \in [Dir -> Dir]
  BY <1>7, <1>9, OwnerBefore
<1>11. ASSUME NEW n \in Dir PROVE leads'[n] <= IF n <= d THEN d ELSE n
  <2>1. leads[n] \in Nat /\ n \in Nat /\ repairs \in Nat
    <3>1. leads[n] \in Dir
      BY OwnerBefore
    <3> QED BY <3>1, OwnerBefore DEF Dir
  <2>2. leads[n] <= IF n <= repairs THEN repairs ELSE n
    BY DEF OwnerInv
  <2>3. (leads'[n] = d /\ n <= e) \/ leads'[n] = leads[n]
    BY <1>9
  <2>4. n <= e => n <= d
    BY <1>8, <2>1
  <2> HIDE DEF e
  <2> QED BY <2>1, <2>2, <2>3, <2>4
<1>12. disk' \in [Dir -> Directory] /\ disk'[d] = new /\ \A i \in Dir : i # d => disk'[i] = disk[i]
  BY <1>3, <1>4, <1>7, OwnerBefore
<1>13. \A i \in Dir : OwnHistory(disk'[i]) /\ disk'[i].file.bound \in {None, disk'[i].db.bound}
  BY <1>3, <1>12, OwnerBefore
<1>14. disk'[0] = disk[0] /\ disk'[0].db.bound = a
  BY <1>2, <1>12, OwnerBefore
<1>15. ASSUME NEW i \in 1..d PROVE disk'[i].db.bound = a
  <2>1. CASE i = d
    BY <1>3, <1>12, <2>1
  <2>2. CASE i # d
    <3>1. i \in 0..repairs
      BY <2>2, OwnerBefore
    <3>2. i \in Dir /\ disk[i].db.bound = disk[0].db.bound
      BY <3>1, OwnerBefore
    <3> QED BY <1>2, <1>12, <2>2, <3>2
  <2> QED BY <2>1, <2>2
<1>16. run' \in [Process -> Command] /\ run'[p] = r /\ \A q \in Process : q # p => run'[q] = run[q]
  BY <1>4, <1>5, OwnerBefore
<1>17. ASSUME NEW q \in Process PROVE OwnedBy(run'[q], d, a)
  <2> DEFINE c == run[q]
  <2>1. /\ c \in Command /\ OwnedBy(c, repairs, a)
        /\ run'[q].path = c.path /\ run'[q].dir = c.dir
        /\ run'[q] = IF q = p THEN r ELSE c
    <3>1. run[q] \in Command /\ OwnedBy(run[q], repairs, a)
      BY <1>2, OwnerBefore
    <3>2. q = p => r.path = run[q].path /\ r.dir = run[q].dir
      BY <1>6
    <3>3. run'[q] = IF q = p THEN r ELSE run[q]
      BY <1>16
    <3> QED BY <3>1, <3>2, <3>3
  <2>2. run'[q].path # Fresh => run'[q].path <= d
    <3>1. c.path \in Nat
      BY OwnerBefore DEF Command, Dir
    <3> QED BY <2>1, <3>1, OwnerBefore DEF OwnedBy
  <2>3. run'[q].pc \in Open => run'[q].dir \in 0..d
    <3>1. 0..repairs \subseteq 0..d
      BY OwnerBefore
    <3>2. r.pc \notin Open
      BY <1>6 DEF Open
    <3> QED BY <2>1, <3>1, <3>2 DEF OwnedBy
  <2> HIDE DEF d
  <2>4. CASE q # p
    <3>1. OwnedBy(run'[q], repairs, a)
      BY <2>1, <2>4
    <3> QED BY <2>2, <2>3, <3>1 DEF OwnedBy
  <2>5. CASE q = p
    BY <1>1, <1>2, <1>6, <2>1, <2>2, <2>3, <2>5 DEF OwnedBy, Open
  <2> QED BY <2>4, <2>5
<1>18. TypeOK'
  <2>1. TypeOK
    BY DEF OwnerInv
  <2> QED BY <1>4, <1>7, <1>10, <1>12, <1>16, <2>1 DEF TypeOK, Swap
<1> QED BY <1>2, <1>4, <1>7, <1>11, <1>13, <1>14, <1>15, <1>17, <1>18 DEF OwnerInv

LEMMA OwnerUnlocks ==
    ASSUME OwnerInv, NEW p \in Process, Unlock(p) PROVE OwnerInv'
BY OwnerBefore, OwnerEnds DEF Unlock

LEMMA OwnerFails ==
    ASSUME OwnerInv, NEW p \in Process, Fail(p) PROVE OwnerInv'
<1>1. budget' \in [kills: 0 .. MaxKills, errors: 0 .. MaxErrors, damage: 0 .. MaxDamage]
  <2>1. budget.errors + 1 \in 0 .. MaxErrors
    BY OwnerBefore, ConstantsAssumption, SMT DEF Fail
  <2> QED BY <2>1, OwnerBefore DEF Fail
<1>2. CASE End(p)
  BY <1>1, <1>2, OwnerBefore, OwnerEnds DEF Fail
<1>3. CASE /\ run[p].pc \in Open
           /\ run' = [run EXCEPT ![p].pc = "close", ![p].ok = FALSE]
  BY <1>1, <1>3, OwnerBefore, OwnerCloses DEF Fail
<1> QED BY <1>2, <1>3 DEF Fail

LEMMA OwnerKilled ==
    ASSUME OwnerInv, NEW p \in Process, Kill(p) PROVE OwnerInv'
<1>1. budget' \in [kills: 0 .. MaxKills, errors: 0 .. MaxErrors, damage: 0 .. MaxDamage]
  <2>1. budget.kills + 1 \in 0 .. MaxKills
    BY OwnerBefore, ConstantsAssumption, SMT DEF Kill
  <2> QED BY <2>1, OwnerBefore DEF Kill
<1> QED BY <1>1, OwnerBefore, OwnerEnds DEF Kill

LEMMA OwnerPublishes == ASSUME OwnerInv, Publish PROVE OwnerInv'
<1>1. PICK a \in Archive, m \in Machine :
         latest[a][m] < MaxSnapshot /\ latest' = [latest EXCEPT ![a][m] = @ + 1]
  BY DEF Publish
<1>2. latest[a] \in [Machine -> 0 .. MaxSnapshot] /\ latest \in [Archive -> Vector]
  BY OwnerBefore DEF Vector
<1>3. latest[a][m] + 1 \in 0 .. MaxSnapshot
  BY <1>1, <1>2, ConstantsAssumption, SMT
<1>4. [latest[a] EXCEPT ![m] = @ + 1] \in Vector
  BY <1>2, <1>3 DEF Vector
<1>5. latest' \in [Archive -> Vector]
  BY <1>1, <1>2, <1>4
<1>6. TypeOK'
  BY <1>5 DEF OwnerInv, TypeOK, Publish
<1> QED BY <1>6 DEF OwnerInv, Publish, Repairing, Pending

LEMMA OwnerDamaged == ASSUME OwnerInv, Damage PROVE OwnerInv'
<1>1. PICK e \in 0..repairs : e = leads[0] /\ e \in Dir
  BY OwnerBefore
<1>2. PICK h \in Health : disk' = [disk EXCEPT ![e].health = h]
  BY <1>1 DEF Damage
<1> DEFINE d == [disk[e] EXCEPT !.health = h]
<1>3. d \in Directory /\ d.db = disk[e].db /\ d.file = disk[e].file /\ d.witness = disk[e].witness
  <2>1. disk[e] \in Directory
    BY <1>1, OwnerBefore
  <2> QED BY <2>1 DEF Directory
<1>4. disk' = [disk EXCEPT ![e] = d]
  BY <1>1, <1>2, OwnerBefore
<1> HIDE DEF d
<1>5. disk' \in [Dir -> Directory] /\ disk'[e] = d /\ \A i \in Dir : i # e => disk'[i] = disk[i]
  BY <1>1, <1>3, <1>4, OwnerBefore
<1>6. \A i \in Dir : /\ disk'[i].db = disk[i].db /\ disk'[i].file = disk[i].file
                     /\ disk'[i].witness = disk[i].witness
  BY <1>3, <1>5
<1>7. budget' \in [kills: 0 .. MaxKills, errors: 0 .. MaxErrors, damage: 0 .. MaxDamage]
  <2>1. budget.damage + 1 \in 0 .. MaxDamage
    BY OwnerBefore, ConstantsAssumption, SMT DEF Damage
  <2> QED BY <2>1, OwnerBefore DEF Damage
<1>8. TypeOK'
  BY <1>5, <1>7 DEF OwnerInv, TypeOK, Damage
<1>9. \A i \in Dir : OwnHistory(disk'[i]) /\ disk'[i].file.bound \in {None, disk'[i].db.bound}
  BY <1>6, OwnerBefore DEF OwnHistory
<1>10. 0 \in Dir /\ 1..repairs \subseteq Dir
  BY OwnerBefore
<1>11. \A i \in 1..repairs : disk'[i].db.bound = disk'[0].db.bound /\ disk'[i].db.bound # None
  BY <1>6, <1>10 DEF OwnerInv
<1>12. disk'[0].db.bound = disk[0].db.bound
  BY <1>6, <1>10
<1> QED BY <1>8, <1>9, <1>11, <1>12 DEF OwnerInv, Damage, Repairing, Pending

----------------------------------------------------------------------------
LEMMA OwnerInit == ASSUME Init PROVE OwnerInv
<1>1. Empty \in Content /\ Empty.snapshots = {} /\ Empty.bound = None
  BY ConstantsAssumption DEF Empty, Content, Vector, Nothing
<1>2. /\ NoDirectory \in Directory /\ OwnHistory(NoDirectory)
      /\ NoDirectory.file.bound \in {None, NoDirectory.db.bound}
  BY <1>1 DEF NoDirectory, Directory, OwnHistory, Health
<1>3. 0 \in Dir /\ 1..0 = {} /\ MaxRepairs \in Nat
  BY ConstantsAssumption DEF Dir
<1>4. /\ disk \in [Dir -> Directory]
      /\ \A d \in Dir : OwnHistory(disk[d]) /\ disk[d].file.bound \in {None, disk[d].db.bound}
  BY <1>2 DEF Init
<1>5. leads \in [Dir -> Dir] /\ \A n \in Dir : leads[n] = n
  BY DEF Init
<1>6. budget \in [kills: 0 .. MaxKills, errors: 0 .. MaxErrors, damage: 0 .. MaxDamage]
  BY ConstantsAssumption, SMT DEF Init
<1>7. latest \in [Archive -> Vector]
  BY ConstantsAssumption DEF Init, Vector, Nothing
<1>8. repairs = 0 /\ claimed \in BOOLEAN /\ \A p \in Process : run[p] = Idle
  BY DEF Init
<1>9. Idle \in Command /\ OwnedBy(Idle, 0, disk[0].db.bound) /\ Idle.kind # "repair"
  BY IdleOwesNothing
<1>10. run \in [Process -> Command]
  BY <1>9 DEF Init
<1>11. TypeOK
  BY <1>3, <1>4, <1>5, <1>6, <1>7, <1>8, <1>10 DEF TypeOK
<1>12. \A n \in Dir : leads[n] <= IF n <= repairs THEN repairs ELSE n
  BY <1>5, <1>8 DEF Dir
<1>13. Repairing = {} /\ Pending = {}
  BY <1>8, <1>9 DEF Repairing, Pending
<1>14. IsFiniteSet(Repairing) /\ Cardinality(Pending) = 0
  BY <1>13, FS_EmptySet
<1>15. repairs + Cardinality(Pending) <= MaxRepairs
  BY <1>3, <1>8, <1>14
<1> QED BY <1>3, <1>4, <1>8, <1>9, <1>11, <1>12, <1>14, <1>15 DEF OwnerInv

LEMMA OwnerStep == ASSUME OwnerInv, [Next]_vars PROVE OwnerInv'
<1>1. CASE UNCHANGED vars
  BY <1>1 DEF vars, OwnerInv, TypeOK, Repairing, Pending
<1>2. CASE Publish
  BY <1>2, OwnerPublishes
<1>3. CASE Damage
  BY <1>3, OwnerDamaged
<1>4. ASSUME NEW p \in Process, NEW k \in Kind, NEW a \in Archive, Plan(p, k, a)
      PROVE  OwnerInv'
  BY <1>4, OwnerPlans
<1>5. ASSUME NEW p \in Process, Step(p)
      PROVE  OwnerInv'
  BY <1>5, OwnerPrepares, OwnerInspectsDownload, OwnerLooksUp, OwnerClaims, OwnerNamesLock,
     OwnerOpens, OwnerMigrates, OwnerBinds, OwnerWitnesses, OwnerIngests, OwnerRecords,
     OwnerReconciles, OwnerClosesDatabase, OwnerInspectsRepair, OwnerChecksHealth,
     OwnerBeginsRepair, OwnerLocks, OwnerSwaps, OwnerUnlocks
     DEF Step
<1>6. ASSUME NEW p \in Process, Fail(p) \/ Kill(p)
      PROVE  OwnerInv'
  BY <1>6, OwnerFails, OwnerKilled
<1> QED BY <1>1, <1>2, <1>3, <1>4, <1>5, <1>6 DEF Next

(* However many repairs are promoted, and whatever is exchanged away under *)
(* whom, every directory belongs to one Archive, and every command that    *)
(* writes or replaces one serves that Archive.                             *)
THEOREM OwnerInvariant == Spec => []OwnerInv
BY OwnerInit, OwnerStep, PTL DEF Spec

(* Every reachable state is well typed: a repair never runs out of         *)
(* directories, for those that have not exchanged yet are counted when one *)
(* is planned.                                                             *)
THEOREM TypeCorrect == Spec => []TypeOK
<1>1. OwnerInv => TypeOK
  BY DEF OwnerInv
<1> QED BY <1>1, OwnerInvariant, PTL

(* A Workspace never mixes the histories of two Archives, and its witness  *)
(* never names another one than its database is bound to: not before a     *)
(* repair, not after any number of them, and not in the directories that   *)
(* were exchanged away.                                                    *)
THEOREM OneHistory == Spec => []OneArchive
<1>1. OwnerInv => OneArchive
  BY DEF OwnerInv, OwnHistory, OneArchive
<1> QED BY <1>1, OwnerInvariant, PTL
=============================================================================
