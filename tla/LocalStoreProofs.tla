-------------------------- MODULE LocalStoreProofs --------------------------
(***************************************************************************)
(* LocalStore is correct for every number of keys, clients and contents.   *)
(***************************************************************************)
EXTENDS LocalStore, TLAPS

LEMMA InitInv == Init => IInv
BY LocalAssumption DEF Init, IInv, TypeOK, WholeObjects, RequestInv, LockInv, InLock, Writing,
   Changing, Adding, Phase, Result

\* A step of client c, taken apart: its own part of the invariant is re-made,
\* and every other client's part only depends on what c may not touch.
LEMMA StepInv == IInv /\ [Next]_vars => IInv'
<1> SUFFICES ASSUME IInv, [Next]_vars PROVE IInv'
  OBVIOUS
<1> USE LocalAssumption DEF IInv, TypeOK, WholeObjects, Phase, Result, Key
<1>0. CASE UNCHANGED vars
  BY <1>0 DEF vars, RequestInv, LockInv, InLock, Writing, Changing, Adding
<1>1. ASSUME NEW c \in Client, NEW k \in Key, Get(c, k) PROVE IInv'
  <2>1. PICK v \in Content :
          req' = [req EXCEPT ![c] = [once |-> FALSE, key |-> k, content |-> v, etag |-> file[k]]]
    BY <1>1 DEF Get
  <2>2. [once |-> FALSE, key |-> k, content |-> v, etag |-> file[k]] \in Request
    BY DEF Request
  <2>3. TypeOK' /\ WholeObjects'
    BY <1>1, <2>1, <2>2 DEF Get, Goto
  <2>4. \A d \in Client : RequestInv(d)'
    BY <1>1, <2>1, <2>2 DEF Get, Goto, RequestInv, Writing, Changing, Adding
  <2>5. Locked => LockInv'
    BY <1>1, <2>1 DEF Get, Goto, LockInv, InLock, Writing
  <2> QED BY <2>3, <2>4, <2>5
<1>2. ASSUME NEW c \in Client, NEW k \in Key, NEW v \in Content, PutIfAbsent(c, k, v) PROVE IInv'
  <2>1. [once |-> TRUE, key |-> k, content |-> v, etag |-> Absent] \in Request
    BY DEF Request
  <2>2. TypeOK' /\ WholeObjects'
    BY <1>2, <2>1 DEF PutIfAbsent, Goto
  <2>3. \A d \in Client : RequestInv(d)'
    BY <1>2, <2>1 DEF PutIfAbsent, Goto, RequestInv, Writing, Changing, Adding
  <2>4. Locked => LockInv'
    BY <1>2 DEF PutIfAbsent, Goto, LockInv, InLock, Writing
  <2> QED BY <2>2, <2>3, <2>4
<1>3. ASSUME NEW c \in Client, PutConditional(c) PROVE IInv'
  BY <1>3 DEF PutConditional, Goto, RequestInv, LockInv, InLock, Writing, Changing, Adding
<1>4. ASSUME NEW c \in Client, Lock(c) PROVE IInv'
  BY <1>4 DEF Lock, Goto, RequestInv, LockInv, InLock, Writing, Changing, Adding
<1>5. ASSUME NEW c \in Client, Compare(c) PROVE IInv'
  <2>1. req[c] \in Request /\ ~req[c].once /\ req[c].key \in Mutable
    BY <1>5 DEF Compare, RequestInv, Changing
  <2>2. TypeOK' /\ WholeObjects'
    BY <1>5 DEF Compare, Goto, Answer
  <2>3. \A d \in Client : RequestInv(d)'
    BY <1>5, <2>1 DEF Compare, Goto, RequestInv, Writing, Changing, Adding
  <2>4. Locked => LockInv'
    BY <1>5, <2>1 DEF Compare, Goto, LockInv, InLock, Writing
  <2> QED BY <2>2, <2>3, <2>4
<1>6. ASSUME NEW c \in Client, Rename(c) PROVE IInv'
  <2>1. /\ req[c] \in Request /\ ~req[c].once /\ req[c].key \in Mutable
        /\ temp[c] = req[c].content /\ req[c].content \in Content
    BY <1>6 DEF Rename, RequestInv, Changing, Request
  <2>2. TypeOK' /\ WholeObjects'
    BY <1>6, <2>1 DEF Rename, Goto, Answer
  <2>3. \A d \in Client : RequestInv(d)'
    BY <1>6, <2>1 DEF Rename, Goto, RequestInv, Writing, Changing, Adding
  <2>4. ASSUME Locked PROVE LockInv'
    <3>1. c \in holder
      BY <1>6, <2>4 DEF Rename, LockInv, InLock
    <3>2. \A d \in Client \ {c} :
             ~(pc[d] = "rename" \/ (Writing(d) /\ ~req[d].once))
      BY <2>4, <3>1 DEF LockInv, InLock
    <3> QED BY <1>6, <2>1, <2>4, <3>1, <3>2 DEF Rename, Goto, LockInv, InLock, Writing
  <2> QED BY <2>2, <2>3, <2>4
<1>7. ASSUME NEW c \in Client, Unlock(c) PROVE IInv'
  <2>1. ASSUME Locked PROVE holder = {c} /\ \A d \in Client \ {c} : ~InLock(d)
    BY <1>7, <2>1 DEF Unlock, LockInv, InLock
  <2>2. TypeOK' /\ WholeObjects'
    BY <1>7 DEF Unlock, Goto
  <2>3. \A d \in Client : RequestInv(d)'
    BY <1>7 DEF Unlock, Goto, RequestInv, Writing, Changing, Adding
  <2>4. Locked => LockInv'
    BY <1>7, <2>1 DEF Unlock, Goto, LockInv, InLock, Writing
  <2> QED BY <2>2, <2>3, <2>4
<1>8. ASSUME NEW c \in Client, Stat(c) PROVE IInv'
  <2>1. req[c] \in Request /\ req[c].once /\ req[c].key \in Once /\ req[c].etag = Absent
    BY <1>8 DEF Stat, RequestInv, Adding
  <2>2. TypeOK' /\ WholeObjects'
    BY <1>8 DEF Stat, Goto, Answer
  <2>3. pc[c] = "restat" => temp[c] = req[c].content
    BY <1>8 DEF RequestInv
  <2>4. \A d \in Client : RequestInv(d)'
    BY <1>8, <2>1, <2>3 DEF Stat, Goto, RequestInv, Writing, Changing, Adding
  <2>5. Locked => LockInv'
    BY <1>8, <2>1 DEF Stat, Goto, LockInv, InLock, Writing
  <2> QED BY <2>2, <2>4, <2>5
<1>9. ASSUME NEW c \in Client, Link(c) PROVE IInv'
  <2>1. /\ req[c] \in Request /\ req[c].once /\ req[c].key \in Once
        /\ temp[c] = req[c].content /\ req[c].content \in Content
    BY <1>9 DEF Link, RequestInv, Adding, Request
  <2>2. TypeOK' /\ WholeObjects'
    BY <1>9, <2>1 DEF Link, Goto, Answer
  <2>3. \A d \in Client : RequestInv(d)'
    BY <1>9, <2>1 DEF Link, Goto, RequestInv, Writing, Changing, Adding
  <2>4. ASSUME Locked PROVE LockInv'
    <3>1. \A d \in Client : pc[d] = "rename" \/ (Writing(d) /\ ~req[d].once)
                            => req[d].key \in Mutable /\ pc[d] # "link"
      BY DEF RequestInv, Writing, Changing, Request
    <3> QED BY <1>9, <2>1, <2>4, <3>1 DEF Link, Goto, LockInv, InLock, Writing
  <2> QED BY <2>2, <2>3, <2>4
<1>10. ASSUME NEW c \in Client, Create(c) PROVE IInv'
  BY <1>10 DEF Create, Goto, RequestInv, LockInv, InLock, Writing, Changing, Adding
<1>11. ASSUME NEW c \in Client, Fill(c) PROVE IInv'
  <2>1. req[c] \in Request /\ req[c].content \in Content /\ req[c].key \in Key
        /\ (req[c].once <=> req[c].key \in Once) /\ (req[c].once => req[c].etag = Absent)
    BY <1>11 DEF Fill, RequestInv, Writing, Request
  <2>2. TypeOK' /\ WholeObjects'
    BY <1>11, <2>1 DEF Fill, Goto
  <2>3. \A d \in Client : RequestInv(d)'
    BY <1>11, <2>1 DEF Fill, Goto, RequestInv, Writing, Changing, Adding
  <2>4. Locked => LockInv'
    BY <1>11, <2>1 DEF Fill, Goto, LockInv, InLock, Writing
  <2> QED BY <2>2, <2>3, <2>4
<1>12. ASSUME NEW c \in Client, Return(c) PROVE IInv'
  BY <1>12 DEF Return, Goto, Answer, RequestInv, LockInv, InLock, Writing, Changing, Adding
<1>13. ASSUME NEW c \in Client, Interrupt(c) PROVE IInv'
  BY <1>13 DEF Interrupt, Goto, Answer, RequestInv, LockInv, InLock, Writing, Changing, Adding
<1> QED
  BY <1>0, <1>1, <1>2, <1>3, <1>4, <1>5, <1>6, <1>7, <1>8, <1>9, <1>10, <1>11, <1>12, <1>13
     DEF Next, Step

\* The invariant holds of the locking and of the lock-free build.
THEOREM LocalInvariant == Spec => []IInv
BY InitInv, StepInv, PTL DEF Spec

\* Every object that can be read is whole.
THEOREM ObjectsAreWhole == Spec => []WholeObjects
BY LocalInvariant, PTL DEF IInv

LEMMA StepOnce == IInv /\ [Next]_vars =>
                     [\A k \in Once : file[k] # Absent => file'[k] = file[k]]_file
<1> SUFFICES ASSUME IInv, Next, NEW k \in Once, file[k] # Absent PROVE file'[k] = file[k]
  BY DEF vars
<1> USE LocalAssumption DEF IInv, TypeOK, Key
<1>1. ASSUME NEW c \in Client, Rename(c) PROVE file'[k] = file[k]
  <2>1. req[c].key \in Mutable
    BY <1>1 DEF Rename, RequestInv, Changing
  <2> QED BY <1>1, <2>1 DEF Rename
<1>2. ASSUME NEW c \in Client, Link(c) PROVE file'[k] = file[k]
  BY <1>2 DEF Link
<1> QED
  BY <1>1, <1>2 DEF Next, Step, Get, PutIfAbsent, PutConditional, Lock, Compare, Unlock, Stat,
     Create, Fill, Return, Interrupt

\* A write-once object never changes, with or without the lock.
THEOREM OnceWritten == Spec => WriteOnce
BY LocalInvariant, StepOnce, PTL DEF Spec, WriteOnce

LEMMA StepNotBlind == Locked /\ IInv /\ [Next]_vars =>
        [\A k \in Key :
            file'[k] # file[k] =>
              \E c \in Client :
                 /\ pc[c] \in {"rename", "link"}
                 /\ req[c].key = k
                 /\ req[c].etag = file[k]]_file
<1> SUFFICES ASSUME Locked, IInv, Next, NEW k \in Key, file'[k] # file[k]
             PROVE  \E c \in Client : /\ pc[c] \in {"rename", "link"}
                                      /\ req[c].key = k
                                      /\ req[c].etag = file[k]
  BY DEF vars
<1> USE LocalAssumption DEF IInv, TypeOK, Key
<1>1. ASSUME NEW c \in Client, Rename(c)
      PROVE  pc[c] = "rename" /\ req[c].key = k /\ req[c].etag = file[k]
  BY <1>1 DEF Rename, LockInv
<1>2. ASSUME NEW c \in Client, Link(c)
      PROVE  pc[c] = "link" /\ req[c].key = k /\ req[c].etag = file[k]
  BY <1>2 DEF Link, RequestInv, Adding
<1> QED
  BY <1>1, <1>2 DEF Next, Step, Get, PutIfAbsent, PutConditional, Lock, Compare, Unlock, Stat,
     Create, Fill, Return, Interrupt

\* Where the lock locks, no conditional write overwrites what it did not read.
THEOREM NothingIsOverwrittenBlindly == ASSUME Locked PROVE Spec => NoBlindOverwrite
BY LocalInvariant, StepNotBlind, PTL DEF Spec, NoBlindOverwrite

(***************************************************************************)
(* The refinement.  A put that has a verdict is on its way out, and until  *)
(* then it has none.                                                       *)
(***************************************************************************)
Verdict(c) ==
    /\ pc[c] \notin {"unlock", "return"} => result[c] = "pending"
    /\ pc[c] = "return" => req[c] \in Request
VerdictInv == \A c \in Client : Verdict(c)

LEMMA StepVerdict == IInv /\ VerdictInv /\ [Next]_vars => VerdictInv'
<1> SUFFICES ASSUME IInv, VerdictInv, [Next]_vars PROVE VerdictInv'
  OBVIOUS
<1> USE DEF IInv, TypeOK, VerdictInv, Verdict
<1>1. CASE UNCHANGED vars
  BY <1>1 DEF vars
<1>2. ASSUME NEW c \in Client, NEW k \in Key,
             Get(c, k) \/ \E v \in Content : PutIfAbsent(c, k, v)
      PROVE  VerdictInv'
  BY <1>2 DEF Get, PutIfAbsent, Goto
<1>3. ASSUME NEW c \in Client, PutConditional(c) \/ Lock(c) \/ Create(c) \/ Fill(c)
      PROVE  VerdictInv'
  BY <1>3 DEF PutConditional, Lock, Create, Fill, Goto
<1>4. ASSUME NEW c \in Client, Compare(c) \/ Rename(c) \/ Unlock(c) \/ Stat(c) \/ Link(c)
      PROVE  VerdictInv'
  <2>1. req[c] \in Request
    BY <1>4 DEF Compare, Rename, Unlock, Stat, Link, RequestInv, Changing, Adding
  <2>2. /\ UNCHANGED req
        /\ \A d \in Client \ {c} : pc'[d] = pc[d] /\ result'[d] = result[d]
    BY <1>4 DEF Compare, Rename, Unlock, Stat, Link, Goto, Answer
  <2>3. pc'[c] \notin {"unlock", "return"} => result'[c] = "pending"
    BY <1>4 DEF Compare, Rename, Unlock, Stat, Link, Goto, Answer
  <2> QED BY <2>1, <2>2, <2>3
<1>5. ASSUME NEW c \in Client, Return(c) \/ Interrupt(c)
      PROVE  VerdictInv'
  BY <1>5 DEF Return, Interrupt, Goto, Answer
<1> QED BY <1>1, <1>2, <1>3, <1>4, <1>5 DEF Next, Step

LEMMA Loud == \A r \in Request : r # Quiet /\ r.once \in BOOLEAN
<1> SUFFICES ASSUME NEW r \in Request PROVE r # Quiet /\ r.once \in BOOLEAN
  OBVIOUS
<1>1. "key" \in DOMAIN r /\ "key" \notin DOMAIN Quiet
  BY DEF Request, Quiet
<1> QED BY <1>1 DEF Request

MapCall == [c \in Client |-> IF Called(c) THEN req[c] ELSE Quiet]

LEMMA RefinesInit == Init => Atomic!Init
BY DEF Init, Atomic!Init, Called

\* What an action of client c does to the contract's variables.
LEMMA RefinesStep ==
    ASSUME Locked, IInv, VerdictInv, [Next]_vars
    PROVE  [Atomic!Next]_(Atomic!vars)
<1> USE DEF IInv, TypeOK
<1>a. ASSUME UNCHANGED <<file, result>>, MapCall' = MapCall
      PROVE  UNCHANGED Atomic!vars
  BY <1>a DEF Atomic!vars, MapCall
<1>b. ASSUME NEW c \in Client, UNCHANGED file, MapCall[c] # Quiet,
             MapCall' = [MapCall EXCEPT ![c] = Quiet],
             result' = [result EXCEPT ![c] = "pending"]
      PROVE  Atomic!Next
  <2>1. Atomic!Leave(c)
    BY <1>b DEF Atomic!Leave, MapCall
  <2> QED BY <2>1 DEF Atomic!Next
<1>c. ASSUME NEW c \in Client, NEW r \in Request, UNCHANGED <<file, result>>, MapCall[c] = Quiet,
             MapCall' = [MapCall EXCEPT ![c] = r]
      PROVE  Atomic!Next
  <2>1. Atomic!Call(c, r)
    BY <1>c DEF Atomic!Call, MapCall
  <2> QED BY <2>1 DEF Atomic!Next
<1>d. ASSUME NEW c \in Client, Called(c), result[c] = "pending", req[c] \in Request,
             MapCall' = MapCall,
             result' = [result EXCEPT ![c] = Atomic!Effect(req[c])],
             file' = IF Atomic!Effect(req[c]) = "written"
                     THEN [file EXCEPT ![req[c].key] = req[c].content] ELSE file
      PROVE  Atomic!Next
  <2>1. MapCall[c] = req[c] /\ MapCall[c] # Quiet
    BY <1>d, Loud DEF MapCall
  <2>2. Atomic!Perform(c)
    BY <1>d, <2>1 DEF Atomic!Perform, MapCall
  <2> QED BY <2>2 DEF Atomic!Next
<1>e. ASSUME NEW c \in Client, NEW p \in Phase, UNCHANGED req, pc' = [pc EXCEPT ![c] = p],
             pc[c] \notin {"idle", "got"}, p \notin {"idle", "got"}
      PROVE  MapCall' = MapCall
  BY <1>e DEF MapCall, Called
<1>1. CASE UNCHANGED vars
  BY <1>1, <1>a DEF vars, MapCall, Called
<1>2. ASSUME NEW c \in Client, NEW k \in Key, Get(c, k)
      PROVE  UNCHANGED Atomic!vars
  <2>1. MapCall' = MapCall
    BY <1>2 DEF Get, Goto, MapCall, Called
  <2> QED BY <1>2, <2>1, <1>a DEF Get
<1>3. ASSUME NEW c \in Client, NEW k \in Key, NEW v \in Content, PutIfAbsent(c, k, v)
      PROVE  Atomic!Next
  <2>1. PICK r : r = [once |-> TRUE, key |-> k, content |-> v, etag |-> Absent]
    OBVIOUS
  <2>2. r \in Request /\ req' = [req EXCEPT ![c] = r]
    BY <1>3, <2>1 DEF PutIfAbsent, Request
  <2>3. MapCall[c] = Quiet /\ MapCall' = [MapCall EXCEPT ![c] = r]
    BY <1>3, <2>2 DEF PutIfAbsent, Goto, MapCall, Called
  <2> QED BY <1>3, <2>2, <2>3, <1>c DEF PutIfAbsent
<1>4. ASSUME NEW c \in Client, PutConditional(c)
      PROVE  Atomic!Next
  <2>1. PICK r : r = req[c]
    OBVIOUS
  <2>2. r \in Request
    BY <1>4, <2>1 DEF PutConditional, RequestInv, Changing
  <2>3. MapCall[c] = Quiet /\ MapCall' = [MapCall EXCEPT ![c] = r]
    BY <1>4, <2>1 DEF PutConditional, Goto, MapCall, Called
  <2> QED BY <1>4, <2>2, <2>3, <1>c DEF PutConditional
<1>5. ASSUME NEW c \in Client, Lock(c) \/ Unlock(c) \/ Create(c) \/ Fill(c)
      PROVE  UNCHANGED Atomic!vars
  <2>1. PICK p \in Phase : pc' = [pc EXCEPT ![c] = p] /\ p \notin {"idle", "got"}
    BY <1>5 DEF Lock, Unlock, Create, Fill, Goto, Phase
  <2>2. UNCHANGED <<file, result, req>> /\ pc[c] \notin {"idle", "got"}
    BY <1>5 DEF Lock, Unlock, Create, Fill
  <2> QED BY <2>1, <2>2, <1>a, <1>e
<1>6. ASSUME NEW c \in Client, Compare(c)
      PROVE  [Atomic!Next]_(Atomic!vars)
  <2>1. PICK p \in {"create", "unlock"} : pc' = [pc EXCEPT ![c] = p]
    BY <1>6 DEF Compare, Goto
  <2>2. MapCall' = MapCall
    BY <1>6, <2>1, <1>e DEF Compare, Phase
  <2>3. CASE UNCHANGED result
    BY <1>6, <2>2, <2>3, <1>a DEF Compare
  <2>4. CASE file[req[c].key] # req[c].etag /\ Answer(c, "refused")
    <3>1. /\ req[c] \in Request /\ ~req[c].once /\ Called(c) /\ result[c] = "pending"
      BY <1>6 DEF Compare, RequestInv, Changing, Called, VerdictInv, Verdict
    <3>2. Atomic!Effect(req[c]) = "refused"
      BY <2>4, <3>1 DEF Atomic!Effect
    <3>3. UNCHANGED file
      BY <1>6 DEF Compare
    <3>4. result' = [result EXCEPT ![c] = Atomic!Effect(req[c])]
      BY <2>4, <3>2 DEF Answer
    <3> QED BY <2>2, <3>1, <3>2, <3>3, <3>4, <1>d
  <2> QED BY <1>6, <2>3, <2>4 DEF Compare
<1>7. ASSUME NEW c \in Client, Rename(c)
      PROVE  Atomic!Next
  <2>1. /\ req[c] \in Request /\ ~req[c].once /\ Called(c) /\ result[c] = "pending"
        /\ temp[c] = req[c].content /\ file[req[c].key] = req[c].etag
    BY <1>7 DEF Rename, RequestInv, Changing, Called, VerdictInv, Verdict, LockInv
  <2>2. Atomic!Effect(req[c]) = "written"
    BY <2>1 DEF Atomic!Effect
  <2>3. MapCall' = MapCall
    BY <1>7, <1>e DEF Rename, Goto, Phase
  <2>4. /\ result' = [result EXCEPT ![c] = Atomic!Effect(req[c])]
        /\ file' = [file EXCEPT ![req[c].key] = req[c].content]
    BY <1>7, <2>1, <2>2 DEF Rename, Answer
  <2> QED BY <2>1, <2>2, <2>3, <2>4, <1>d
<1>8. ASSUME NEW c \in Client, Stat(c)
      PROVE  [Atomic!Next]_(Atomic!vars)
  <2>1. PICK p \in {"create", "link", "return"} : pc' = [pc EXCEPT ![c] = p]
    BY <1>8 DEF Stat, Goto
  <2>2. MapCall' = MapCall
    BY <1>8, <2>1, <1>e DEF Stat, Phase
  <2>3. CASE UNCHANGED result
    BY <1>8, <2>2, <2>3, <1>a DEF Stat
  <2>4. CASE file[req[c].key] # Absent /\ Answer(c, "kept")
    <3>1. /\ req[c] \in Request /\ req[c].once /\ Called(c) /\ result[c] = "pending"
      BY <1>8 DEF Stat, RequestInv, Adding, Called, VerdictInv, Verdict
    <3>2. Atomic!Effect(req[c]) = "kept"
      BY <2>4, <3>1 DEF Atomic!Effect
    <3>3. UNCHANGED file
      BY <1>8 DEF Stat
    <3>4. result' = [result EXCEPT ![c] = Atomic!Effect(req[c])]
      BY <2>4, <3>2 DEF Answer
    <3> QED BY <2>2, <3>1, <3>2, <3>3, <3>4, <1>d
  <2> QED BY <1>8, <2>3, <2>4 DEF Stat
<1>9. ASSUME NEW c \in Client, Link(c)
      PROVE  Atomic!Next
  <2>1. /\ req[c] \in Request /\ req[c].once /\ Called(c) /\ result[c] = "pending"
        /\ temp[c] = req[c].content
    BY <1>9 DEF Link, RequestInv, Adding, Called, VerdictInv, Verdict
  <2>2. MapCall' = MapCall
    BY <1>9, <1>e DEF Link, Goto, Phase
  <2>3. CASE file[req[c].key] = Absent
    <3>1. Atomic!Effect(req[c]) = "written"
      BY <2>1, <2>3 DEF Atomic!Effect
    <3>2. /\ result' = [result EXCEPT ![c] = Atomic!Effect(req[c])]
          /\ file' = [file EXCEPT ![req[c].key] = req[c].content]
      BY <1>9, <2>1, <2>3, <3>1 DEF Link, Answer
    <3> QED BY <2>1, <2>2, <3>1, <3>2, <1>d
  <2>4. CASE file[req[c].key] # Absent
    <3>1. Atomic!Effect(req[c]) = "kept"
      BY <2>1, <2>4 DEF Atomic!Effect
    <3>2. /\ result' = [result EXCEPT ![c] = Atomic!Effect(req[c])]
          /\ UNCHANGED file
      BY <1>9, <2>1, <2>4, <3>1 DEF Link, Answer
    <3> QED BY <2>1, <2>2, <3>1, <3>2, <1>d
  <2> QED BY <2>3, <2>4
<1>10. ASSUME NEW c \in Client, Return(c) \/ Interrupt(c)
       PROVE  [Atomic!Next]_(Atomic!vars)
  <2>1. /\ result' = [result EXCEPT ![c] = "pending"] /\ UNCHANGED file
        /\ req' = [req EXCEPT ![c] = Quiet] /\ pc' = [pc EXCEPT ![c] = "idle"]
    BY <1>10 DEF Return, Interrupt, Goto, Answer
  <2>2. MapCall' = [MapCall EXCEPT ![c] = Quiet]
    BY <2>1 DEF MapCall, Called
  <2>3. CASE pc[c] = "got"
    <3>1. result[c] = "pending" /\ MapCall[c] = Quiet
      BY <2>3 DEF VerdictInv, Verdict, MapCall, Called
    <3>2. result' = result /\ MapCall' = MapCall
      BY <2>1, <2>2, <3>1 DEF MapCall
    <3> QED BY <2>1, <3>2, <1>a
  <2>4. CASE pc[c] # "got"
    <3>1. pc[c] # "idle" /\ Called(c)
      BY <1>10, <2>4 DEF Return, Interrupt, Called
    <3>2. req[c] \in Request
      BY <3>1, <2>4 DEF RequestInv, Writing, Changing, Adding, VerdictInv, Verdict, Phase
    <3>3. MapCall[c] # Quiet
      BY <3>1, <3>2, Loud DEF MapCall
    <3> QED BY <2>1, <2>2, <3>3, <1>b
  <2> QED BY <2>3, <2>4
<1> QED BY <1>1, <1>2, <1>3, <1>4, <1>5, <1>6, <1>7, <1>8, <1>9, <1>10 DEF Next, Step

\* Where the lock locks, system calls and kills together are atomic puts: the
\* rename, the link, or the look that turns the put away is the instant.
THEOREM FilesAreAtomicStore == ASSUME Locked PROVE Spec => ImplementsAtomicStore
<1>1. Init => VerdictInv
  BY DEF Init, VerdictInv, Verdict
<1>2. Spec => []VerdictInv
  BY <1>1, StepVerdict, LocalInvariant, PTL DEF Spec
<1>3. IInv /\ VerdictInv /\ [Next]_vars => [Atomic!Next]_(Atomic!vars)
  BY RefinesStep
<1> QED BY <1>2, <1>3, RefinesInit, LocalInvariant, PTL
        DEF Spec, ImplementsAtomicStore, Atomic!Spec
=============================================================================
