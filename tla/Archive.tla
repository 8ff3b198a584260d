------------------------------ MODULE Archive ------------------------------
(***************************************************************************)
(* Publication of agent histories into an initialised Archive              *)
(* (internal/depot).  Several upload processes share one object store that *)
(* offers get, put-if-absent and conditional put, and no delete.  One      *)
(* upload is                                                               *)
(*                                                                         *)
(*   PrepareUpload -> parent -> blobs -> manifest -> pointer -> index      *)
(*                                                                         *)
(* and every arrow is a separate call to the store, so the calls of        *)
(* different uploads interleave and any of them may be the last one its    *)
(* process ever makes.                                                     *)
(***************************************************************************)
EXTENDS FiniteSets, Naturals

CONSTANTS
    Machine,      \* raw machine IDs (config machine_id)
    Namespace,    \* sanitised object-key components
    Prefix,       \* machinePrefix: Machine -> Namespace
    Uploader,     \* `aha archive upload` processes
    Owner,        \* the machine ID each process is configured with
    State,        \* captured states: everything in a manifest but when and by whom
    Blob,         \* content addresses
    FilesOf,      \* the blobs a captured state lists
    Stamp,        \* capture times
    None,         \* an absent object
    Corrupt,      \* pointer bytes that do not decode
    MaxAttempts,  \* conditionalRetryAttempts
    MaxFaults,    \* bound: failed store calls, cancellations and crashes
    MaxDamage     \* bound: namespaces damaged behind the program's back

Manifest == [machine: Machine, state: State, stamp: Stamp]

ASSUME ConstantsAssumption ==
    /\ Prefix \in [Machine -> Namespace]
    /\ Owner \in [Uploader -> Machine]
    /\ FilesOf \in [State -> SUBSET Blob]
    /\ MaxAttempts \in Nat \ {0}
    /\ MaxFaults \in Nat
    /\ MaxDamage \in Nat
    /\ None \notin Manifest
    /\ Corrupt \notin Manifest
    /\ None # Corrupt

VARIABLES
    blobs,      \* stored blobs/v2/<sha>.zst
    manifests,  \* stored machines/<ns>/manifests/<sha>.json
    latest,     \* machines/<ns>/latest, per namespace
    index,      \* machines/index.json
    pc,         \* where each upload is
    listed,     \* PreparedUpload.machines[machine], frozen by PrepareUpload
    snap,       \* the manifest this upload captured
    parent,     \* parentSnapshot, or None; also the latestExpectation
    receipts,   \* blobs this upload holds a blobReceipt for
    target,     \* publishedSnapshot.sha: what setLatest installs
    etag,       \* pointer value whose etag setLatest last read
    indexEtag,  \* index value whose etag ensureInMachinesIndex last read
    tries,      \* attempts made in the current conditional-write loop
    ever,       \* history: manifests that have been some namespace's latest
    reported,   \* history: manifests a successful upload reported
    faults,     \* faults so far
    damaged     \* namespaces damaged so far

store     == <<blobs, manifests, latest, index>>
local     == <<listed, snap, parent, receipts, target, etag, indexEtag, tries>>
history   == <<ever, reported>>
bounds    == <<faults, damaged>>
vars      == <<store, pc, local, history, bounds>>

Files(man)      == FilesOf[man.state]
SameState(a, b) == a.machine = b.machine /\ a.state = b.state
Mine(u)         == Prefix[Owner[u]]
Phase == {"idle", "parent", "manifest", "blobs", "pointer", "cas", "index", "casindex"}

Init ==
    /\ blobs = {} /\ manifests = {} /\ index = {}
    /\ latest = [n \in Namespace |-> None]
    /\ pc = [u \in Uploader |-> "idle"]
    /\ listed = [u \in Uploader |-> FALSE]
    /\ snap = [u \in Uploader |-> None]
    /\ parent = [u \in Uploader |-> None]
    /\ receipts = [u \in Uploader |-> {}]
    /\ target = [u \in Uploader |-> None]
    /\ etag = [u \in Uploader |-> None]
    /\ indexEtag = [u \in Uploader |-> {}]
    /\ tries = [u \in Uploader |-> 0]
    /\ ever = {} /\ reported = {}
    /\ faults = 0 /\ damaged = {}

(***************************************************************************)
(* Endings.  Whatever the outcome, the process is gone and so is all it    *)
(* knew; a later upload starts from the Archive alone.                     *)
(***************************************************************************)
Goto(u, phase) == pc' = [pc EXCEPT ![u] = phase]

Stop(u) ==
    /\ Goto(u, "idle")
    /\ listed' = [listed EXCEPT ![u] = FALSE]
    /\ snap' = [snap EXCEPT ![u] = None]
    /\ parent' = [parent EXCEPT ![u] = None]
    /\ receipts' = [receipts EXCEPT ![u] = {}]
    /\ target' = [target EXCEPT ![u] = None]
    /\ etag' = [etag EXCEPT ![u] = None]
    /\ indexEtag' = [indexEtag EXCEPT ![u] = {}]
    /\ tries' = [tries EXCEPT ![u] = 0]

Fails(u)    == Stop(u) /\ UNCHANGED reported
Succeeds(u) == Stop(u) /\ reported' = reported \cup {target[u]}

\* Mutant of Retry: the bound is compared before the attempt is counted.
RetryOnceMore(u, phase) ==
    \/ tries[u] = MaxAttempts /\ Fails(u)
    \/ /\ tries[u] < MaxAttempts
       /\ tries' = [tries EXCEPT ![u] = @ + 1]
       /\ Goto(u, phase)
       /\ UNCHANGED <<listed, snap, parent, receipts, target, etag, indexEtag, reported>>

\* One more lost race of a conditional write: go round again, or give up with
\* a ContentionError.
Retry(u, phase) ==
    \/ /\ tries[u] + 1 = MaxAttempts
       /\ Fails(u)
    \/ /\ tries[u] + 1 < MaxAttempts
       /\ tries' = [tries EXCEPT ![u] = @ + 1]
       /\ Goto(u, phase)
       /\ UNCHANGED <<listed, snap, parent, receipts, target, etag, indexEtag, reported>>

(***************************************************************************)
(* PrepareUpload reads the index once; the machine map stays frozen while  *)
(* CaptureState scans the sources and the whole publication runs.          *)
(***************************************************************************)
Prepare(u) ==
    /\ pc[u] = "idle"
    /\ listed' = [listed EXCEPT ![u] = Owner[u] \in index]
    /\ \E s \in State, t \in Stamp :
          snap' = [snap EXCEPT ![u] = [machine |-> Owner[u], state |-> s, stamp |-> t]]
    /\ Goto(u, "parent")
    /\ UNCHANGED <<store, parent, receipts, target, etag, indexEtag, tries, history, bounds>>

(***************************************************************************)
(* machineDepot.parent: the pointer, then the manifest it names.           *)
(***************************************************************************)
\* Mutant of ReadParentPointer: a missing pointer always means a first upload.
ReadParentUnlisted(u) ==
    LET cur == latest[Mine(u)] IN
    /\ pc[u] = "parent"
    /\ \/ /\ cur = Corrupt
          /\ Fails(u)
       \/ /\ cur = None
          /\ Goto(u, "blobs")
          /\ UNCHANGED <<local, reported>>
       \/ /\ cur \in Manifest
          /\ parent' = [parent EXCEPT ![u] = cur]
          /\ Goto(u, "manifest")
          /\ UNCHANGED <<listed, snap, receipts, target, etag, indexEtag, tries, reported>>
    /\ UNCHANGED <<store, ever, bounds>>

ReadParentPointer(u) ==
    LET cur == latest[Mine(u)] IN
    /\ pc[u] = "parent"
    /\ \/ /\ cur = Corrupt \/ (cur = None /\ listed[u])
          /\ Fails(u)
       \/ /\ cur = None /\ ~listed[u]
          /\ Goto(u, "blobs")
          /\ UNCHANGED <<local, reported>>
       \/ /\ cur \in Manifest
          /\ parent' = [parent EXCEPT ![u] = cur]
          /\ Goto(u, "manifest")
          /\ UNCHANGED <<listed, snap, receipts, target, etag, indexEtag, tries, reported>>
    /\ UNCHANGED <<store, ever, bounds>>

\* An unchanged machine recommits the parent; a changed one uploads.
ReadParentManifest(u) ==
    /\ pc[u] = "manifest"
    /\ \/ /\ parent[u] \notin manifests
          /\ Fails(u)
       \/ /\ parent[u] \in manifests
          /\ SameState(parent[u], snap[u])
          /\ target' = [target EXCEPT ![u] = parent[u]]
          /\ Goto(u, "pointer")
          /\ UNCHANGED <<listed, snap, parent, receipts, etag, indexEtag, tries, reported>>
       \/ /\ parent[u] \in manifests
          /\ ~SameState(parent[u], snap[u])
          /\ Goto(u, "blobs")
          /\ UNCHANGED <<local, reported>>
    /\ UNCHANGED <<store, ever, bounds>>

(***************************************************************************)
(* The blob loop and publishSnapshot.                                      *)
(***************************************************************************)
Carried(u, b) == parent[u] # None /\ b \in Files(parent[u])

\* Mutant of EnsureBlob: only a blob this upload created earns a receipt.
EnsureNewBlob(u, b) ==
    /\ pc[u] = "blobs"
    /\ b \in Files(snap[u]) \ receipts[u]
    /\ blobs' = blobs \cup {b}
    /\ receipts' = IF b \in blobs THEN receipts ELSE [receipts EXCEPT ![u] = @ \cup {b}]
    /\ UNCHANGED <<manifests, latest, index, pc, listed, snap, parent, target, etag,
                   indexEtag, tries, history, bounds>>

\* carriedBlob grants the receipt without a store call; ensureBlob stages the
\* content and puts it if absent.
EnsureBlob(u, b) ==
    /\ pc[u] = "blobs"
    /\ b \in Files(snap[u]) \ receipts[u]
    /\ blobs' = IF Carried(u, b) THEN blobs ELSE blobs \cup {b}
    /\ receipts' = [receipts EXCEPT ![u] = @ \cup {b}]
    /\ UNCHANGED <<manifests, latest, index, pc, listed, snap, parent, target, etag,
                   indexEtag, tries, history, bounds>>

\* Mutants of PublishSnapshot: without the receipts; and registering first.
PublishUnbacked(u) ==
    /\ pc[u] = "blobs"
    /\ manifests' = manifests \cup {snap[u]}
    /\ target' = [target EXCEPT ![u] = snap[u]]
    /\ Goto(u, "pointer")
    /\ UNCHANGED <<blobs, latest, index, listed, snap, parent, receipts, etag, indexEtag,
                   tries, history, bounds>>

PublishThenRegister(u) ==
    /\ pc[u] = "blobs"
    /\ Files(snap[u]) \subseteq receipts[u]
    /\ manifests' = manifests \cup {snap[u]}
    /\ target' = [target EXCEPT ![u] = snap[u]]
    /\ Goto(u, "index")
    /\ UNCHANGED <<blobs, latest, index, listed, snap, parent, receipts, etag, indexEtag,
                   tries, history, bounds>>

PublishSnapshot(u) ==
    /\ pc[u] = "blobs"
    /\ Files(snap[u]) \subseteq receipts[u]
    /\ manifests' = manifests \cup {snap[u]}
    /\ target' = [target EXCEPT ![u] = snap[u]]
    /\ Goto(u, "pointer")
    /\ UNCHANGED <<blobs, latest, index, listed, snap, parent, receipts, etag, indexEtag,
                   tries, history, bounds>>

(***************************************************************************)
(* setLatest: read the pointer with its etag, compare with the expected    *)
(* parent, write conditionally.                                            *)
(***************************************************************************)
\* Mutants of ReadPointer: it installs over whatever it read; it takes a
\* moved pointer for done; it returns before the index when already latest.
ReadPointerUnexpected(u) ==
    /\ pc[u] = "pointer"
    /\ etag' = [etag EXCEPT ![u] = latest[Mine(u)]]
    /\ Goto(u, "cas")
    /\ UNCHANGED <<listed, snap, parent, receipts, target, indexEtag, tries, reported>>
    /\ UNCHANGED <<store, ever, bounds>>

ReadPointerLenient(u) ==
    LET cur == latest[Mine(u)] IN
    /\ pc[u] = "pointer"
    /\ \/ /\ cur \notin {parent[u], Corrupt}
          /\ tries' = [tries EXCEPT ![u] = 0]
          /\ Goto(u, "index")
          /\ UNCHANGED <<listed, snap, parent, receipts, target, etag, indexEtag, reported>>
       \/ /\ cur \in {parent[u], Corrupt}
          /\ etag' = [etag EXCEPT ![u] = cur]
          /\ Goto(u, "cas")
          /\ UNCHANGED <<listed, snap, parent, receipts, target, indexEtag, tries, reported>>
    /\ UNCHANGED <<store, ever, bounds>>

ReadPointerAndLeave(u) ==
    LET cur == latest[Mine(u)] IN
    /\ pc[u] = "pointer"
    /\ \/ cur = target[u] /\ Succeeds(u)
       \/ cur \notin {target[u], parent[u], Corrupt} /\ Fails(u)
       \/ /\ cur # target[u]
          /\ cur \in {parent[u], Corrupt}
          /\ etag' = [etag EXCEPT ![u] = cur]
          /\ Goto(u, "cas")
          /\ UNCHANGED <<listed, snap, parent, receipts, target, indexEtag, tries, reported>>
    /\ UNCHANGED <<store, ever, bounds>>

ReadPointer(u) ==
    LET cur == latest[Mine(u)] IN
    /\ pc[u] = "pointer"
    /\ \/ /\ cur = target[u]
          /\ tries' = [tries EXCEPT ![u] = 0]
          /\ Goto(u, "index")
          /\ UNCHANGED <<listed, snap, parent, receipts, target, etag, indexEtag, reported>>
       \/ /\ cur \notin {target[u], parent[u], Corrupt}   \* StalePublicationError
          /\ Fails(u)
       \/ /\ cur # target[u]
          /\ cur \in {parent[u], Corrupt}
          /\ etag' = [etag EXCEPT ![u] = cur]
          /\ Goto(u, "cas")
          /\ UNCHANGED <<listed, snap, parent, receipts, target, indexEtag, tries, reported>>
    /\ UNCHANGED <<store, ever, bounds>>

\* Mutant of InstallPointer: an unconditional put.
PutPointer(u) ==
    /\ latest' = [latest EXCEPT ![Mine(u)] = target[u]]
    /\ ever' = ever \cup {target[u]}

InstallPointer(u) ==
    /\ latest[Mine(u)] = etag[u]
    /\ latest' = [latest EXCEPT ![Mine(u)] = target[u]]
    /\ ever' = ever \cup {target[u]}

\* The third disjunct is a write that lands while its answer is lost, so that
\* the client's own resend meets the new etag and reports a failed precondition.
CasPointer(u) ==
    /\ pc[u] = "cas"
    /\ \/ /\ InstallPointer(u)
          /\ tries' = [tries EXCEPT ![u] = 0]
          /\ Goto(u, "index")
          /\ UNCHANGED <<listed, snap, parent, receipts, target, etag, indexEtag, reported>>
       \/ /\ latest[Mine(u)] # etag[u]
          /\ Retry(u, "pointer")
          /\ UNCHANGED <<latest, ever>>
       \/ /\ InstallPointer(u)
          /\ Retry(u, "pointer")
    /\ UNCHANGED <<blobs, manifests, index, bounds>>

(***************************************************************************)
(* ensureInMachinesIndex, with a retry loop of its own.                    *)
(***************************************************************************)
ReadIndex(u) ==
    /\ pc[u] = "index"
    /\ \/ /\ Owner[u] \in index
          /\ Succeeds(u)
       \/ /\ Owner[u] \notin index
          /\ indexEtag' = [indexEtag EXCEPT ![u] = index]
          /\ Goto(u, "casindex")
          /\ UNCHANGED <<listed, snap, parent, receipts, target, etag, tries, reported>>
    /\ UNCHANGED <<store, ever, bounds>>

\* Mutant of InstallIndex: an unconditional put.
PutIndex(u) == index' = indexEtag[u] \cup {Owner[u]}

InstallIndex(u) ==
    /\ index = indexEtag[u]
    /\ index' = indexEtag[u] \cup {Owner[u]}

CasIndex(u) ==
    /\ pc[u] = "casindex"
    /\ \/ InstallIndex(u) /\ Succeeds(u)
       \/ /\ index # indexEtag[u]
          /\ Retry(u, "index")
          /\ UNCHANGED index
       \/ InstallIndex(u) /\ Retry(u, "index")
    /\ UNCHANGED <<blobs, manifests, latest, ever, bounds>>

(***************************************************************************)
(* The environment.                                                        *)
(***************************************************************************)
\* A store call fails, the source file changed since it was captured, the
\* context is cancelled, or the process dies.  A call that took effect before
\* its error came back is the call's action followed by this one.
Fault(u) ==
    /\ pc[u] # "idle"
    /\ faults < MaxFaults
    /\ faults' = faults + 1
    /\ Fails(u)
    /\ UNCHANGED <<store, ever, damaged>>

\* Out-of-band damage to a published namespace: the pointer's bytes are
\* garbled, the pointer is removed, or the manifest it names is removed.
Damage(n) ==
    /\ latest[n] \in Manifest
    /\ n \notin damaged
    /\ Cardinality(damaged) < MaxDamage
    /\ damaged' = damaged \cup {n}
    /\ \/ /\ \E v \in {None, Corrupt} : latest' = [latest EXCEPT ![n] = v]
          /\ UNCHANGED manifests
       \/ /\ manifests' = manifests \ {latest[n]}
          /\ UNCHANGED latest
    /\ UNCHANGED <<blobs, index, pc, local, history, faults>>

Step(u) ==
    \/ ReadParentPointer(u) \/ ReadParentManifest(u)
    \/ \E b \in Blob : EnsureBlob(u, b)
    \/ PublishSnapshot(u)
    \/ ReadPointer(u) \/ CasPointer(u)
    \/ ReadIndex(u) \/ CasIndex(u)

Undisturbed == \E u \in Uploader : Prepare(u) \/ Step(u)

Next ==
    \/ Undisturbed
    \/ \E u \in Uploader : Fault(u)
    \/ \E n \in Namespace : Damage(n)

Spec == Init /\ [][Next]_vars

\* A process keeps calling until its upload ends, and a machine whose upload
\* failed is uploaded again, while nothing is killed or damaged from outside.
FairSpec ==
    /\ Init /\ [][Undisturbed]_vars
    /\ \A u \in Uploader : WF_vars(Step(u)) /\ WF_vars(Prepare(u))

-----------------------------------------------------------------------------
(***************************************************************************)
(* Properties                                                              *)
(***************************************************************************)

\* Every variable has the shape the code gives it.
TypeOK ==
    /\ blobs \subseteq Blob
    /\ manifests \subseteq Manifest
    /\ latest \in [Namespace -> Manifest \cup {None, Corrupt}]
    /\ index \subseteq Machine
    /\ pc \in [Uploader -> Phase]
    /\ listed \in [Uploader -> BOOLEAN]
    /\ snap \in [Uploader -> Manifest \cup {None}]
    /\ parent \in [Uploader -> Manifest \cup {None}]
    /\ receipts \in [Uploader -> SUBSET Blob]
    /\ target \in [Uploader -> Manifest \cup {None}]
    /\ etag \in [Uploader -> Manifest \cup {None, Corrupt}]
    /\ indexEtag \in [Uploader -> SUBSET Machine]
    /\ tries \in [Uploader -> 0 .. MaxAttempts - 1]
    /\ ever \subseteq Manifest
    /\ reported \subseteq Manifest
    /\ faults \in 0 .. MaxFaults
    /\ damaged \subseteq Namespace

\* Publish ordering (I2): at every instant, whichever upload stops where, a
\* pointer names a stored manifest and a stored manifest lists stored blobs.
\* A carried receipt costs no store call, so this leans on the parent's own
\* publication having been complete.
PointerClosed ==
    /\ \A man \in manifests : Files(man) \subseteq blobs
    /\ \A n \in Namespace \ damaged : latest[n] # None => latest[n] \in manifests

\* The index is the discovery layer: it only ever names machines whose
\* namespace has a pointer (setLatest writes the pointer first).
ListedHaveLatest ==
    \A m \in index : Prefix[m] \notin damaged => latest[Prefix[m]] # None

\* An upload that reported success published: its snapshot was the latest at
\* some instant, is still stored, and its machine can be discovered, whatever
\* later uploads, faults and lost answers did.
SuccessIsDurable ==
    \A man \in reported :
        /\ man \in ever
        /\ \E m \in index : Prefix[m] = Prefix[man.machine]
        /\ Prefix[man.machine] \notin damaged => man \in manifests

\* A pointer that decodes moves only from the snapshot its mover read as
\* parent: no publication overwrites one it has not seen.
Moves(n) == latest'[n] # latest[n] /\ latest'[n] \in Manifest
Mover(n, u) == Mine(u) = n /\ pc[u] = "cas" /\ target[u] = latest'[n]
NoLostUpdate ==
    [][\A n \in Namespace :
          Moves(n) /\ latest[n] # Corrupt
          => \E u \in Uploader : Mover(n, u) /\ parent[u] = latest[n]]_vars

\* An upload prepared when its machine was already listed never begins that
\* machine's history afresh, even when the pointer has vanished meanwhile.
NoSilentRestart ==
    [][\A n \in Namespace :
          Moves(n) /\ latest[n] = None
          => \E u \in Uploader : Mover(n, u) /\ ~listed[u]]_vars

\* Machines that register at the same time do not erase one another.
IndexNeverForgets == [][index \subseteq index']_index

\* A pointer whose upload died before registering is healed by a later upload.
Healed == \A m \in Machine : latest[Prefix[m]] # None ~> m \in index

\* Every upload ends: the conditional-write loops terminate under contention.
UploadsEnd == \A u \in Uploader : pc[u] # "idle" ~> pc[u] = "idle"
-----------------------------------------------------------------------------
(***************************************************************************)
(* The inductive invariant behind the safety properties: what each phase   *)
(* of an upload knows about itself and about the store.                    *)
(***************************************************************************)
Committing(u) == pc[u] \in {"pointer", "cas", "index", "casindex"}

\* An uploader's own variables agree with its phase.
PhaseInv(u) ==
    /\ pc[u] # "idle" => snap[u] \in Manifest /\ snap[u].machine = Owner[u]
    /\ pc[u] \in {"idle", "parent"} => parent[u] = None
    /\ pc[u] = "manifest" => parent[u] \in Manifest
    /\ parent[u] \in Manifest => Prefix[parent[u].machine] = Mine(u)
    /\ Committing(u) => target[u] \in Manifest /\ Prefix[target[u].machine] = Mine(u)
    /\ pc[u] = "cas" => etag[u] \in {parent[u], Corrupt}
    /\ pc[u] \notin {"idle", "parent"} /\ parent[u] = None => ~listed[u]

\* What it has been promised is in the store.
PromiseInv(u) ==
    /\ receipts[u] \subseteq blobs
    /\ pc[u] = "blobs" /\ parent[u] # None => Files(parent[u]) \subseteq blobs
    /\ Committing(u) => target[u] \in manifests \/ Mine(u) \in damaged
    /\ pc[u] \in {"index", "casindex"} =>
          /\ target[u] \in ever
          /\ Mine(u) \in damaged \/ latest[Mine(u)] # None

\* A pointer names a snapshot of its own namespace, which history records.
PointerInv(n) ==
    latest[n] \in Manifest => Prefix[latest[n].machine] = n /\ latest[n] \in ever

IInv ==
    /\ TypeOK
    /\ \A u \in Uploader : PhaseInv(u) /\ PromiseInv(u)
    /\ \A n \in Namespace : PointerInv(n)
    /\ PointerClosed
    /\ ListedHaveLatest
    /\ SuccessIsDurable
=============================================================================
