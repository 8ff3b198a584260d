----------------------------- MODULE LocalStore -----------------------------
(***************************************************************************)
(* The local-filesystem object store (localStoreV2): write-once puts by    *)
(* temp file and hard link, conditional puts by flock, read-compare, temp  *)
(* file and rename.  Clients are processes on one filesystem; each may be  *)
(* killed, or have a system call fail, between any two of them.            *)
(***************************************************************************)
EXTENDS Naturals

CONSTANTS
    Once,       \* keys of blobs, manifests and the marker: write-once
    Mutable,    \* keys of pointers and the machines index: conditional
    Client,     \* processes
    Content,    \* whole encoded objects; an etag is the content's hash
    Absent,     \* no such file, and the empty etag
    Torn,       \* a file with only part of an object in it
    Locked      \* whether withLocalLock locks (not on Windows)

Key == Once \cup Mutable

ASSUME LocalAssumption ==
    /\ Once \cap Mutable = {}
    /\ Locked \in BOOLEAN
    /\ Absent \notin Content
    /\ Torn \notin Content
    /\ Absent # Torn

VARIABLES
    file,     \* the file at each key's path
    temp,     \* each client's .tmp-*.obj file; Absent when it has none
    holder,   \* the clients holding the flock on .depot.lock
    pc,       \* each client's next system call
    req,      \* the put it is performing
    result    \* the outcome it is about to return

vars == <<file, temp, holder, pc, req, result>>

Request == [once: BOOLEAN, key: Key, content: Content, etag: Content \cup {Absent}]
Quiet   == [once |-> FALSE]      \* no put under way
Phase   == {"idle", "got", "lock", "compare", "stat", "create", "fill", "restat", "link",
            "rename", "unlock", "return"}
Result  == {"pending", "written", "kept", "refused"}

Init ==
    /\ file = [k \in Key |-> Absent]
    /\ temp = [c \in Client |-> Absent]
    /\ holder = {}
    /\ pc = [c \in Client |-> "idle"]
    /\ req = [c \in Client |-> Quiet]
    /\ result = [c \in Client |-> "pending"]

Goto(c, phase) == pc' = [pc EXCEPT ![c] = phase]
Answer(c, r)   == result' = [result EXCEPT ![c] = r]

\* Mutant of Get: the etag hashes the key instead of the bytes.
GetKeyEtag(c, k) ==
    /\ pc[c] = "idle"
    /\ k \in Mutable
    /\ \E v \in Content :
          req' = [req EXCEPT ![c] = [once |-> FALSE, key |-> k, content |-> v, etag |-> k]]
    /\ Goto(c, "got")
    /\ UNCHANGED <<file, temp, holder, result>>

\* get: the bytes and their hash.  The caller puts later, if at all.
Get(c, k) ==
    /\ pc[c] = "idle"
    /\ k \in Mutable
    /\ \E v \in Content :
          req' = [req EXCEPT ![c] = [once |-> FALSE, key |-> k, content |-> v, etag |-> file[k]]]
    /\ Goto(c, "got")
    /\ UNCHANGED <<file, temp, holder, result>>

(***************************************************************************)
(* putBytesConditional.                                                    *)
(***************************************************************************)
PutConditional(c) ==
    /\ pc[c] = "got"
    /\ Goto(c, "lock")
    /\ UNCHANGED <<file, temp, holder, req, result>>

\* Mutant of Lock: a shared lock.
LockShared(c) ==
    /\ pc[c] = "lock"
    /\ holder' = holder \cup {c}
    /\ Goto(c, "compare")
    /\ UNCHANGED <<file, temp, req, result>>

\* withLocalLock: flock(LOCK_EX) blocks; the Windows build just goes on.
Lock(c) ==
    /\ pc[c] = "lock"
    /\ Locked => holder = {}
    /\ holder' = IF Locked THEN holder \cup {c} ELSE holder
    /\ Goto(c, "compare")
    /\ UNCHANGED <<file, temp, req, result>>

\* Mutant of Compare: only an etag that says "absent" is compared.
CompareAbsent(c) ==
    /\ pc[c] = "compare"
    /\ \/ /\ req[c].etag = Absent => file[req[c].key] = Absent
          /\ Goto(c, "create")
          /\ UNCHANGED result
       \/ /\ req[c].etag = Absent /\ file[req[c].key] # Absent
          /\ Answer(c, "refused")
          /\ Goto(c, "unlock")
    /\ UNCHANGED <<file, temp, holder, req>>

Compare(c) ==
    /\ pc[c] = "compare"
    /\ \/ /\ file[req[c].key] = req[c].etag
          /\ Goto(c, "create")
          /\ UNCHANGED result
       \/ /\ file[req[c].key] # req[c].etag
          /\ Answer(c, "refused")
          /\ Goto(c, "unlock")
    /\ UNCHANGED <<file, temp, holder, req>>

Rename(c) ==
    /\ pc[c] = "rename"
    /\ file' = [file EXCEPT ![req[c].key] = temp[c]]
    /\ temp' = [temp EXCEPT ![c] = Absent]
    /\ Answer(c, "written")
    /\ Goto(c, "unlock")
    /\ UNCHANGED <<holder, req>>

\* Mutant of Unlock: no deferred unlock while the descriptor stays open.
UnlockNever(c) ==
    /\ pc[c] = "unlock"
    /\ Goto(c, "return")
    /\ UNCHANGED <<file, temp, holder, req, result>>

\* The deferred flock(LOCK_UN) and close.
Unlock(c) ==
    /\ pc[c] = "unlock"
    /\ holder' = holder \ {c}
    /\ Goto(c, "return")
    /\ UNCHANGED <<file, temp, req, result>>

(***************************************************************************)
(* putFileIfAbsent and putBytesIfAbsent.                                   *)
(***************************************************************************)
PutIfAbsent(c, k, v) ==
    /\ pc[c] = "idle"
    /\ k \in Once
    /\ req' = [req EXCEPT ![c] = [once |-> TRUE, key |-> k, content |-> v, etag |-> Absent]]
    /\ Goto(c, "stat")
    /\ UNCHANGED <<file, temp, holder, result>>

\* The stat before the temp file is made, and the one before it is linked.
Stat(c) ==
    /\ pc[c] \in {"stat", "restat"}
    /\ \/ /\ file[req[c].key] # Absent
          /\ temp' = [temp EXCEPT ![c] = Absent]
          /\ Answer(c, "kept")
          /\ Goto(c, "return")
       \/ /\ file[req[c].key] = Absent
          /\ Goto(c, IF pc[c] = "stat" THEN "create" ELSE "link")
          /\ UNCHANGED <<temp, result>>
    /\ UNCHANGED <<file, holder, req>>

\* Mutant of Link: a rename in its place.
LinkOver(c) ==
    /\ pc[c] = "link"
    /\ file' = [file EXCEPT ![req[c].key] = temp[c]]
    /\ Answer(c, "written")
    /\ temp' = [temp EXCEPT ![c] = Absent]
    /\ Goto(c, "return")
    /\ UNCHANGED <<holder, req>>

\* os.Link fails when the path exists, so the loser of a race keeps.
Link(c) ==
    /\ pc[c] = "link"
    /\ \/ /\ file[req[c].key] = Absent
          /\ file' = [file EXCEPT ![req[c].key] = temp[c]]
          /\ Answer(c, "written")
       \/ /\ file[req[c].key] # Absent
          /\ Answer(c, "kept")
          /\ UNCHANGED file
    /\ temp' = [temp EXCEPT ![c] = Absent]
    /\ Goto(c, "return")
    /\ UNCHANGED <<holder, req>>

(***************************************************************************)
(* AtomicWriteCreated's common part, and the endings.                      *)
(***************************************************************************)
\* Mutant of Create: the temp file is published before it is filled.
CreateAndPublish(c) ==
    /\ pc[c] = "create"
    /\ temp' = [temp EXCEPT ![c] = Torn]
    /\ Goto(c, IF req[c].once THEN "restat" ELSE "rename")
    /\ UNCHANGED <<file, holder, req, result>>

Create(c) ==
    /\ pc[c] = "create"
    /\ temp' = [temp EXCEPT ![c] = Torn]
    /\ Goto(c, "fill")
    /\ UNCHANGED <<file, holder, req, result>>

Fill(c) ==
    /\ pc[c] = "fill"
    /\ temp' = [temp EXCEPT ![c] = req[c].content]
    /\ Goto(c, IF req[c].once THEN "restat" ELSE "rename")
    /\ UNCHANGED <<file, holder, req, result>>

Return(c) ==
    /\ pc[c] = "return"
    /\ req' = [req EXCEPT ![c] = Quiet]
    /\ Answer(c, "pending")
    /\ Goto(c, "idle")
    /\ UNCHANGED <<file, temp, holder>>

\* A failed system call, or a kill: the temp file is removed or orphaned, and
\* the lock is dropped by the deferred unlock or by the kernel.
Interrupt(c) ==
    /\ pc[c] \notin {"idle", "return"}
    /\ temp' = [temp EXCEPT ![c] = Absent]
    /\ holder' = holder \ {c}
    /\ req' = [req EXCEPT ![c] = Quiet]
    /\ Answer(c, "pending")
    /\ Goto(c, "idle")
    /\ UNCHANGED file

Step(c) ==
    \/ PutConditional(c) \/ Lock(c) \/ Compare(c) \/ Rename(c) \/ Unlock(c)
    \/ Stat(c) \/ Link(c) \/ Create(c) \/ Fill(c) \/ Return(c)

Next ==
    \E c \in Client :
        \/ \E k \in Key : Get(c, k) \/ \E v \in Content : PutIfAbsent(c, k, v)
        \/ Step(c)
        \/ Interrupt(c)

Spec == Init /\ [][Next]_vars

\* A client keeps making system calls.  The kernel grants a lock that is free
\* infinitely often: flock queues its waiters.
FairSpec == Spec /\ \A c \in Client : WF_vars(Step(c)) /\ SF_vars(Lock(c))

-----------------------------------------------------------------------------
TypeOK ==
    /\ file \in [Key -> Content \cup {Absent, Torn}]
    /\ temp \in [Client -> Content \cup {Absent, Torn}]
    /\ holder \subseteq Client
    /\ pc \in [Client -> Phase]
    /\ req \in [Client -> Request \cup {Quiet}]
    /\ result \in [Client -> Result]

\* An object that can be read is whole: a path never names a file that is
\* still being written.
WholeObjects == \A k \in Key : file[k] # Torn

\* Whoever changes an object holds the etag of what it replaces: of several
\* writers that read the same value, the first wins and the others are told.
NoBlindOverwrite ==
    [][\A k \in Key :
          file'[k] # file[k] =>
              \E c \in Client :
                  /\ pc[c] \in {"rename", "link"}
                  /\ req[c].key = k
                  /\ req[c].etag = file[k]]_file

\* A write-once object stays what it first became, whichever of two racing
\* encodings of it that was (I5).
WriteOnce == [][\A k \in Once : file[k] # Absent => file'[k] = file[k]]_file

\* No path through a put leaves without unlocking, so every put returns.
PutsReturn == \A c \in Client : pc[c] \notin {"idle", "got"} ~> pc[c] = "idle"

-----------------------------------------------------------------------------
(***************************************************************************)
(* The inductive invariant: what a client knows at each system call.       *)
(***************************************************************************)
Writing(c)  == pc[c] \in {"create", "fill"}
Changing(c) == pc[c] \in {"got", "lock", "compare", "rename", "unlock"}
Adding(c)   == pc[c] \in {"stat", "restat", "link"}

\* A put under way is well formed, on a key of its own kind.
RequestInv(c) ==
    /\ Writing(c) \/ Changing(c) \/ Adding(c) => req[c] \in Request
    /\ Changing(c) => ~req[c].once /\ req[c].key \in Mutable
    /\ Adding(c) => req[c].once /\ req[c].key \in Once
    /\ Writing(c) => (req[c].once <=> req[c].key \in Once)
    /\ Adding(c) \/ (Writing(c) /\ req[c].once) => req[c].etag = Absent
    /\ pc[c] \in {"rename", "restat", "link"} => temp[c] = req[c].content

\* What it compared under the lock is still there when it renames.
InLock(c) ==
    \/ pc[c] \in {"compare", "rename", "unlock"}
    \/ Writing(c) /\ ~req[c].once
LockInv ==
    /\ \A c, d \in holder : c = d
    /\ \A c \in Client : InLock(c) => c \in holder
    /\ \A c \in Client :
          pc[c] = "rename" \/ (Writing(c) /\ ~req[c].once) => file[req[c].key] = req[c].etag

IInv == TypeOK /\ WholeObjects /\ (\A c \in Client : RequestInv(c)) /\ (Locked => LockInv)

(***************************************************************************)
(* Refinement: a put takes effect at its rename or link, and is turned     *)
(* away at its compare or stat.                                            *)
(***************************************************************************)
Called(c) == pc[c] \notin {"idle", "got"}

Atomic == INSTANCE AtomicStore WITH
    object  <- file,
    call    <- [c \in Client |-> IF Called(c) THEN req[c] ELSE Quiet],
    reply   <- result,
    Written <- "written", Kept <- "kept", Refused <- "refused", Pending <- "pending"

ImplementsAtomicStore == Atomic!Spec
=============================================================================
