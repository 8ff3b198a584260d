--------------------------- MODULE ArchiveProofs ---------------------------
(***************************************************************************)
(* Theorems about Archive and ArchiveInspection for every number of        *)
(* machines, uploaders, states, attempts, faults and damaged namespaces.   *)
(***************************************************************************)
EXTENDS ArchiveInspection, ArchiveRefinement, FiniteSetTheorems, TLAPS

\* The conjuncts of IInv that speak of the store alone.
StoreInv ==
    /\ \A n \in Namespace : PointerInv(n)
    /\ PointerClosed
    /\ ListedHaveLatest
    /\ SuccessIsDurable

\* Uploader v took no part in the step.
LocalSame(v) ==
    /\ pc'[v] = pc[v] /\ listed'[v] = listed[v] /\ snap'[v] = snap[v]
    /\ parent'[v] = parent[v] /\ receipts'[v] = receipts[v]
    /\ target'[v] = target[v] /\ etag'[v] = etag[v]

\* Nothing an uploader was promised disappears, except by damage.
StoreGrows ==
    /\ blobs \subseteq blobs' /\ ever \subseteq ever' /\ damaged \subseteq damaged'
    /\ \A man \in manifests : man \in manifests' \/ Prefix[man.machine] \in damaged'
    /\ \A n \in Namespace : latest[n] # None => latest'[n] # None \/ n \in damaged'

LocalTypes ==
    /\ pc \in [Uploader -> Phase]
    /\ listed \in [Uploader -> BOOLEAN]
    /\ snap \in [Uploader -> Manifest \cup {None}]
    /\ parent \in [Uploader -> Manifest \cup {None}]
    /\ receipts \in [Uploader -> SUBSET Blob]
    /\ target \in [Uploader -> Manifest \cup {None}]
    /\ etag \in [Uploader -> Manifest \cup {None, Corrupt}]
    /\ indexEtag \in [Uploader -> SUBSET Machine]
    /\ tries \in [Uploader -> 0 .. MaxAttempts - 1]

LEMMA OwnTypes ==
    /\ \A u \in Uploader : Owner[u] \in Machine /\ Mine(u) \in Namespace
    /\ \A m \in Machine : Prefix[m] \in Namespace
    /\ \A man \in Manifest : Files(man) \subseteq Blob /\ man.machine \in Machine
    /\ None \notin Manifest /\ Corrupt \notin Manifest /\ None # Corrupt
BY ConstantsAssumption DEF Mine, Files, Manifest

-----------------------------------------------------------------------------
(***************************************************************************)
(* Frame lemmas                                                            *)
(***************************************************************************)
LEMMA BystanderKeeps ==
    ASSUME IInv, StoreGrows, NEW v \in Uploader, LocalSame(v)
    PROVE  PhaseInv(v)' /\ PromiseInv(v)'
<1> USE OwnTypes DEF LocalSame, IInv, Mine
<1>1. PhaseInv(v)'
  BY DEF PhaseInv, Committing
<1>2. PromiseInv(v)'
  BY DEF PhaseInv, PromiseInv, Committing, StoreGrows, TypeOK, Files
<1> QED BY <1>1, <1>2

LEMMA StopKeeps ==
    ASSUME IInv, StoreGrows, NEW u \in Uploader, Stop(u)
    PROVE  LocalTypes' /\ \A v \in Uploader : PhaseInv(v)' /\ PromiseInv(v)'
<1>1. LocalTypes'
  BY ConstantsAssumption DEF IInv, TypeOK, LocalTypes, Stop, Goto, Phase
<1>2. PhaseInv(u)' /\ PromiseInv(u)'
  BY OwnTypes DEF IInv, TypeOK, Stop, Goto, PhaseInv, PromiseInv, Committing
<1>3. ASSUME NEW v \in Uploader, v # u PROVE PhaseInv(v)' /\ PromiseInv(v)'
  <2>1. LocalSame(v)
    BY <1>3 DEF IInv, TypeOK, Stop, Goto, LocalSame
  <2> QED BY <2>1, BystanderKeeps
<1> QED BY <1>1, <1>2, <1>3

\* Going round a retry loop, from pc "cas" to "pointer" or from "casindex"
\* to "index".
LEMMA RetryKeeps ==
    ASSUME IInv, StoreGrows, NEW u \in Uploader, NEW ph \in {"pointer", "index"},
           Committing(u), ph = "index" => pc[u] = "casindex", Retry(u, ph)
    PROVE  LocalTypes' /\ \A v \in Uploader : PhaseInv(v)' /\ PromiseInv(v)'
<1>1. CASE Stop(u)
  BY <1>1, StopKeeps
<1>2. CASE ~Stop(u)
  <2>1. /\ tries[u] + 1 < MaxAttempts
        /\ tries' = [tries EXCEPT ![u] = @ + 1]
        /\ Goto(u, ph)
        /\ UNCHANGED <<listed, snap, parent, receipts, target, etag, indexEtag>>
    BY <1>2 DEF Retry, Fails
  <2>2. LocalTypes'
    <3>1. tries' \in [Uploader -> 0 .. MaxAttempts - 1]
      BY <2>1, ConstantsAssumption DEF IInv, TypeOK
    <3> QED BY <2>1, <3>1 DEF IInv, TypeOK, LocalTypes, Goto, Phase
  <2>3. PhaseInv(u)' /\ PromiseInv(u)'
    BY <2>1, OwnTypes DEF IInv, TypeOK, Goto, PhaseInv, PromiseInv, Committing, StoreGrows, Mine
  <2>4. ASSUME NEW v \in Uploader, v # u PROVE PhaseInv(v)' /\ PromiseInv(v)'
    <3>1. LocalSame(v)
      BY <2>1, <2>4 DEF IInv, TypeOK, Goto, LocalSame
    <3> QED BY <3>1, BystanderKeeps
  <2> QED BY <2>2, <2>3, <2>4
<1> QED BY <1>1, <1>2

LEMMA SameStoreKeeps ==
    ASSUME IInv, UNCHANGED <<store, ever, reported, damaged>>
    PROVE  StoreGrows /\ StoreInv'
BY DEF IInv, StoreInv, StoreGrows, store, PointerInv, PointerClosed, ListedHaveLatest,
       SuccessIsDurable

-----------------------------------------------------------------------------
(***************************************************************************)
(* Each action preserves the invariant                                     *)
(***************************************************************************)
LEMMA InvInit == Init => IInv
<1> SUFFICES ASSUME Init PROVE IInv
  OBVIOUS
<1> USE ConstantsAssumption DEF Init
<1>1. TypeOK
  BY DEF TypeOK, Phase
<1>2. \A u \in Uploader : PhaseInv(u) /\ PromiseInv(u)
  BY OwnTypes DEF PhaseInv, PromiseInv, Committing
<1>3. (\A n \in Namespace : PointerInv(n)) /\ PointerClosed /\ ListedHaveLatest /\ SuccessIsDurable
  BY DEF PointerInv, PointerClosed, ListedHaveLatest, SuccessIsDurable
<1> QED BY <1>1, <1>2, <1>3 DEF IInv

LEMMA PrepareKeeps == ASSUME IInv, NEW u \in Uploader, Prepare(u) PROVE IInv'
<1>1. StoreGrows /\ StoreInv'
  BY SameStoreKeeps DEF Prepare, history, bounds
<1>2. LocalTypes'
  BY OwnTypes DEF IInv, TypeOK, LocalTypes, Prepare, Goto, Phase, Manifest
<1>3. PhaseInv(u)' /\ PromiseInv(u)'
  BY OwnTypes DEF IInv, TypeOK, Prepare, Goto, PhaseInv, PromiseInv, Committing, store, Manifest, Mine
<1>4. ASSUME NEW v \in Uploader, v # u PROVE PhaseInv(v)' /\ PromiseInv(v)'
  <2>1. LocalSame(v)
    BY <1>4 DEF IInv, TypeOK, Prepare, Goto, LocalSame
  <2> QED BY <2>1, <1>1, BystanderKeeps
<1> QED
  BY <1>1, <1>2, <1>3, <1>4 DEF IInv, TypeOK, LocalTypes, StoreInv, Prepare, store, history, bounds

LEMMA ReadParentPointerKeeps ==
    ASSUME IInv, NEW u \in Uploader, ReadParentPointer(u) PROVE IInv'
<1>1. UNCHANGED <<store, ever, reported, bounds>>
  BY DEF ReadParentPointer, Fails, local
<1>2. StoreGrows /\ StoreInv'
  BY <1>1, SameStoreKeeps DEF bounds
<1>3. LocalTypes' /\ \A v \in Uploader : PhaseInv(v)' /\ PromiseInv(v)'
  <2>1. CASE Stop(u)
    BY <2>1, <1>2, StopKeeps
  <2>2. CASE ~Stop(u)
    <3>1. LocalTypes'
      BY <2>2, OwnTypes DEF IInv, TypeOK, LocalTypes, ReadParentPointer, Fails, Goto, Phase, local
    <3>2. PhaseInv(u)' /\ PromiseInv(u)'
      BY <2>2, <1>1, OwnTypes DEF IInv, TypeOK, ReadParentPointer, Fails, Goto, PhaseInv, PromiseInv,
         PointerInv, Committing, store, local, Mine
    <3>3. ASSUME NEW v \in Uploader, v # u PROVE PhaseInv(v)' /\ PromiseInv(v)'
      <4>1. LocalSame(v)
        BY <2>2, <3>3 DEF IInv, TypeOK, ReadParentPointer, Fails, Goto, LocalSame, local
      <4> QED BY <4>1, <1>2, BystanderKeeps
    <3> QED BY <3>1, <3>2, <3>3
  <2> QED BY <2>1, <2>2
<1> QED BY <1>1, <1>2, <1>3 DEF IInv, TypeOK, LocalTypes, StoreInv, store, bounds

LEMMA ReadParentManifestKeeps ==
    ASSUME IInv, NEW u \in Uploader, ReadParentManifest(u) PROVE IInv'
<1>1. UNCHANGED <<store, ever, reported, bounds>>
  BY DEF ReadParentManifest, Fails, local
<1>2. StoreGrows /\ StoreInv'
  BY <1>1, SameStoreKeeps DEF bounds
<1>3. LocalTypes' /\ \A v \in Uploader : PhaseInv(v)' /\ PromiseInv(v)'
  <2>1. CASE Stop(u)
    BY <2>1, <1>2, StopKeeps
  <2>2. CASE ~Stop(u)
    <3>1. LocalTypes'
      BY <2>2 DEF IInv, TypeOK, LocalTypes, ReadParentManifest, Fails, Goto, Phase, local
    <3>2. PhaseInv(u)' /\ PromiseInv(u)'
      BY <2>2, <1>1, OwnTypes DEF IInv, TypeOK, ReadParentManifest, Fails, Goto, PhaseInv, PromiseInv,
         PointerClosed, Committing, store, local, Mine, Files
    <3>3. ASSUME NEW v \in Uploader, v # u PROVE PhaseInv(v)' /\ PromiseInv(v)'
      <4>1. LocalSame(v)
        BY <2>2, <3>3 DEF IInv, TypeOK, ReadParentManifest, Fails, Goto, LocalSame, local
      <4> QED BY <4>1, <1>2, BystanderKeeps
    <3> QED BY <3>1, <3>2, <3>3
  <2> QED BY <2>1, <2>2
<1> QED BY <1>1, <1>2, <1>3 DEF IInv, TypeOK, LocalTypes, StoreInv, store, bounds
LEMMA EnsureBlobKeeps ==
    ASSUME IInv, NEW u \in Uploader, NEW b \in Blob, EnsureBlob(u, b) PROVE IInv'
<1> USE OwnTypes DEF IInv, TypeOK
<1>1. StoreGrows
  BY DEF EnsureBlob, StoreGrows, bounds, history
<1>2. StoreInv'
  BY DEF EnsureBlob, StoreInv, PointerInv, PointerClosed, ListedHaveLatest, SuccessIsDurable,
     bounds, history
<1>3. PhaseInv(u)' /\ PromiseInv(u)'
  BY DEF EnsureBlob, Carried, PhaseInv, PromiseInv, Committing, Files, Mine, bounds, history
<1>4. ASSUME NEW v \in Uploader, v # u PROVE PhaseInv(v)' /\ PromiseInv(v)'
  <2>1. LocalSame(v)
    BY <1>4 DEF EnsureBlob, LocalSame
  <2> QED BY <2>1, <1>1, BystanderKeeps
<1> QED BY <1>2, <1>3, <1>4 DEF EnsureBlob, StoreInv, history, bounds

LEMMA PublishSnapshotKeeps ==
    ASSUME IInv, NEW u \in Uploader, PublishSnapshot(u) PROVE IInv'
<1> USE OwnTypes DEF IInv, TypeOK
<1>1. StoreGrows
  BY DEF PublishSnapshot, StoreGrows, bounds, history
<1>2. snap[u] \in Manifest /\ snap[u].machine = Owner[u] /\ Files(snap[u]) \subseteq blobs
  BY DEF PublishSnapshot, PhaseInv, PromiseInv
<1>3. StoreInv'
  BY <1>2 DEF PublishSnapshot, StoreInv, PointerInv, PointerClosed, ListedHaveLatest,
     SuccessIsDurable, bounds, history, Files
<1>4. PhaseInv(u)' /\ PromiseInv(u)'
  BY <1>2 DEF PublishSnapshot, Goto, PhaseInv, PromiseInv, Committing, Mine, bounds, history
<1>5. ASSUME NEW v \in Uploader, v # u PROVE PhaseInv(v)' /\ PromiseInv(v)'
  <2>1. LocalSame(v)
    BY <1>5 DEF PublishSnapshot, Goto, LocalSame
  <2> QED BY <2>1, <1>1, BystanderKeeps
<1> QED BY <1>2, <1>3, <1>4, <1>5 DEF PublishSnapshot, Goto, Phase, StoreInv, history, bounds

LEMMA ReadPointerKeeps ==
    ASSUME IInv, NEW u \in Uploader, ReadPointer(u) PROVE IInv'
<1>1. UNCHANGED <<store, ever, reported, bounds>>
  BY DEF ReadPointer, Fails
<1>2. StoreGrows /\ StoreInv'
  BY <1>1, SameStoreKeeps DEF bounds
<1>3. LocalTypes' /\ \A v \in Uploader : PhaseInv(v)' /\ PromiseInv(v)'
  <2>1. CASE Stop(u)
    BY <2>1, <1>2, StopKeeps
  <2>2. CASE ~Stop(u)
    <3>1. LocalTypes'
      BY <2>2, OwnTypes, ConstantsAssumption
      DEF IInv, TypeOK, LocalTypes, ReadPointer, Fails, Goto, Phase
    <3>2. PhaseInv(u)' /\ PromiseInv(u)'
      <4>1. CASE pc'[u] = "index"
        <5>1. latest[Mine(u)] = target[u] /\ target[u] \in Manifest
          BY <4>1, <2>2 DEF IInv, TypeOK, ReadPointer, Fails, Goto, PhaseInv, Committing
        <5>2. target[u] \in ever /\ latest[Mine(u)] # None
          BY <5>1, OwnTypes DEF IInv, PointerInv
        <5> QED BY <4>1, <5>1, <5>2, <2>2, <1>1 DEF IInv, TypeOK, ReadPointer, Fails, Goto,
                   PhaseInv, PromiseInv, Committing, store, bounds, Mine
      <4>2. CASE pc'[u] = "cas"
        BY <4>2, <2>2, <1>1, OwnTypes DEF IInv, TypeOK, ReadPointer, Fails, Goto, PhaseInv,
           PromiseInv, Committing, store, bounds, Mine
      <4> QED BY <4>1, <4>2, <2>2 DEF IInv, TypeOK, ReadPointer, Fails, Goto
    <3>3. ASSUME NEW v \in Uploader, v # u PROVE PhaseInv(v)' /\ PromiseInv(v)'
      <4>1. LocalSame(v)
        BY <2>2, <3>3 DEF IInv, TypeOK, ReadPointer, Fails, Goto, LocalSame
      <4> QED BY <4>1, <1>2, BystanderKeeps
    <3> QED BY <3>1, <3>2, <3>3
  <2> QED BY <2>1, <2>2
<1> QED BY <1>1, <1>2, <1>3 DEF IInv, TypeOK, LocalTypes, StoreInv, store, bounds

LEMMA ReadIndexKeeps ==
    ASSUME IInv, NEW u \in Uploader, ReadIndex(u) PROVE IInv'
<1> USE OwnTypes
<1>1. UNCHANGED <<store, ever, bounds>>
  BY DEF ReadIndex
<1>2. StoreGrows
  BY <1>1 DEF StoreGrows, store, bounds
<1>3. CASE Owner[u] \in index /\ Succeeds(u)
  <2>1. LocalTypes' /\ \A v \in Uploader : PhaseInv(v)' /\ PromiseInv(v)'
    BY <1>2, <1>3, StopKeeps DEF Succeeds
  <2>2. /\ target[u] \in ever /\ target[u] \in Manifest /\ Prefix[target[u].machine] = Prefix[Owner[u]]
        /\ target[u] \in manifests \/ Mine(u) \in damaged
    BY DEF ReadIndex, IInv, PhaseInv, PromiseInv, Committing, Mine
  <2>3. StoreInv'
    BY <1>1, <1>3, <2>2 DEF IInv, StoreInv, PointerInv, PointerClosed, ListedHaveLatest,
       SuccessIsDurable, Succeeds, store, bounds, Mine
  <2> QED BY <1>1, <1>3, <2>1, <2>2, <2>3 DEF IInv, TypeOK, LocalTypes, StoreInv, Succeeds, store, bounds
<1>4. CASE ~(Owner[u] \in index)
  <2>1. StoreInv'
    BY <1>1, <1>4, SameStoreKeeps DEF ReadIndex, bounds
  <2>2. LocalTypes'
    BY <1>4 DEF IInv, TypeOK, LocalTypes, ReadIndex, Goto, Phase
  <2>3. PhaseInv(u)' /\ PromiseInv(u)'
    BY <1>1, <1>4 DEF IInv, TypeOK, ReadIndex, Goto, PhaseInv, PromiseInv, Committing, store, bounds, Mine
  <2>4. ASSUME NEW v \in Uploader, v # u PROVE PhaseInv(v)' /\ PromiseInv(v)'
    <3>1. LocalSame(v)
      BY <1>4, <2>4 DEF IInv, TypeOK, ReadIndex, Goto, LocalSame
    <3> QED BY <3>1, <1>2, BystanderKeeps
  <2> QED BY <1>1, <1>4, <2>1, <2>2, <2>3, <2>4
          DEF IInv, TypeOK, LocalTypes, StoreInv, ReadIndex, store, bounds
<1> QED BY <1>3, <1>4 DEF ReadIndex
LEMMA CasPointerKeeps ==
    ASSUME IInv, NEW u \in Uploader, CasPointer(u) PROVE IInv'
<1> USE OwnTypes
<1>1. /\ target[u] \in Manifest /\ Prefix[target[u].machine] = Mine(u)
      /\ target[u] \in manifests \/ Mine(u) \in damaged
      /\ Mine(u) \in Namespace
  BY DEF CasPointer, IInv, PhaseInv, PromiseInv, Committing
<1>2. UNCHANGED <<blobs, manifests, index, reported, bounds>>
  BY DEF CasPointer, Retry, Fails
<1>3. CASE InstallPointer(u)
  <2>1. /\ latest' \in [Namespace -> Manifest \cup {None, Corrupt}]
        /\ ever' = ever \cup {target[u]}
        /\ latest'[Mine(u)] = target[u]
        /\ \A n \in Namespace : n # Mine(u) => latest'[n] = latest[n]
    BY <1>1, <1>3 DEF InstallPointer, IInv, TypeOK
  <2>2. StoreGrows
    BY <1>1, <1>2, <2>1 DEF StoreGrows, bounds
  <2>3. StoreInv'
    BY <1>1, <1>2, <2>1 DEF IInv, TypeOK, StoreInv, PointerInv, PointerClosed, ListedHaveLatest,
       SuccessIsDurable, bounds, Mine
  <2>4. LocalTypes' /\ \A v \in Uploader : PhaseInv(v)' /\ PromiseInv(v)'
    <3>1. CASE Retry(u, "pointer")
      BY <3>1, <2>2, RetryKeeps DEF CasPointer, Committing
    <3>2. CASE ~Retry(u, "pointer")
      <4>1. /\ tries' = [tries EXCEPT ![u] = 0]
            /\ Goto(u, "index")
            /\ UNCHANGED <<listed, snap, parent, receipts, target, etag, indexEtag>>
        BY <3>2, <1>3 DEF CasPointer
      <4>2. LocalTypes'
        BY <4>1, ConstantsAssumption DEF IInv, TypeOK, LocalTypes, Goto, Phase
      <4>3. PhaseInv(u)' /\ PromiseInv(u)'
        BY <4>1, <1>1, <1>2, <2>1 DEF CasPointer, IInv, TypeOK, Goto, PhaseInv, PromiseInv,
           Committing, bounds, Mine
      <4>4. ASSUME NEW v \in Uploader, v # u PROVE PhaseInv(v)' /\ PromiseInv(v)'
        <5>1. LocalSame(v)
          BY <4>1, <4>4 DEF IInv, TypeOK, Goto, LocalSame
        <5> QED BY <5>1, <2>2, BystanderKeeps
      <4> QED BY <4>2, <4>3, <4>4
    <3> QED BY <3>1, <3>2
  <2> QED BY <1>1, <1>2, <2>1, <2>3, <2>4 DEF IInv, TypeOK, LocalTypes, StoreInv, bounds
<1>4. CASE ~InstallPointer(u)
  <2>1. Retry(u, "pointer") /\ UNCHANGED <<latest, ever>>
    BY <1>4 DEF CasPointer
  <2>2. StoreGrows /\ StoreInv'
    BY <1>2, <2>1, SameStoreKeeps DEF store, bounds
  <2>3. LocalTypes' /\ \A v \in Uploader : PhaseInv(v)' /\ PromiseInv(v)'
    BY <2>1, <2>2, RetryKeeps DEF CasPointer, Committing
  <2> QED BY <1>2, <2>1, <2>2, <2>3 DEF IInv, TypeOK, LocalTypes, StoreInv, bounds
<1> QED BY <1>3, <1>4

LEMMA CasIndexKeeps ==
    ASSUME IInv, NEW u \in Uploader, CasIndex(u) PROVE IInv'
<1> USE OwnTypes
<1>1. /\ target[u] \in Manifest /\ Prefix[target[u].machine] = Prefix[Owner[u]]
      /\ target[u] \in manifests \/ Mine(u) \in damaged
      /\ target[u] \in ever
      /\ Mine(u) \in damaged \/ latest[Mine(u)] # None
      /\ Committing(u) /\ pc[u] = "casindex"
  BY DEF CasIndex, IInv, PhaseInv, PromiseInv, Committing, Mine
<1>2. UNCHANGED <<blobs, manifests, latest, ever, bounds>>
  BY DEF CasIndex
<1>3. index' \in {index, index \cup {Owner[u]}}
  BY DEF CasIndex, InstallIndex
<1>4. StoreGrows
  BY <1>2 DEF StoreGrows, bounds
<1>5. LocalTypes' /\ \A v \in Uploader : PhaseInv(v)' /\ PromiseInv(v)'
  BY <1>1, <1>4, StopKeeps, RetryKeeps DEF CasIndex, Succeeds
<1>6. \/ reported' = reported
      \/ Owner[u] \in index' /\ reported' = reported \cup {target[u]}
  BY DEF CasIndex, InstallIndex, Succeeds, Retry, Fails
<1>7. StoreInv'
  <2>1. (\A n \in Namespace : PointerInv(n)') /\ PointerClosed'
    BY <1>2 DEF IInv, PointerInv, PointerClosed, bounds
  <2>2. ListedHaveLatest'
    BY <1>1, <1>2, <1>3 DEF IInv, ListedHaveLatest, bounds, Mine
  <2>3. SuccessIsDurable'
    BY <1>1, <1>2, <1>3, <1>6 DEF IInv, SuccessIsDurable, bounds, Mine
  <2> QED BY <2>1, <2>2, <2>3 DEF StoreInv
<1> QED BY <1>1, <1>2, <1>3, <1>5, <1>6, <1>7 DEF IInv, TypeOK, LocalTypes, StoreInv, bounds

LEMMA FaultKeeps == ASSUME IInv, NEW u \in Uploader, Fault(u) PROVE IInv'
<1>1. UNCHANGED <<store, ever, reported, damaged>> /\ Stop(u)
  BY DEF Fault, Fails
<1>2. StoreGrows /\ StoreInv'
  BY <1>1, SameStoreKeeps
<1>3. LocalTypes' /\ \A v \in Uploader : PhaseInv(v)' /\ PromiseInv(v)'
  BY <1>1, <1>2, StopKeeps
<1>4. faults' \in 0 .. MaxFaults
  BY ConstantsAssumption DEF Fault, IInv, TypeOK
<1> QED BY <1>1, <1>2, <1>3, <1>4 DEF IInv, TypeOK, LocalTypes, StoreInv, store

LEMMA DamageKeeps == ASSUME IInv, NEW n \in Namespace, Damage(n) PROVE IInv'
<1> USE OwnTypes DEF IInv
<1>1. UNCHANGED <<blobs, index, pc, local, history, faults>> /\ damaged' = damaged \cup {n}
  BY DEF Damage
<1>2. /\ latest' \in [Namespace -> Manifest \cup {None, Corrupt}]
      /\ \A k \in Namespace : k # n => latest'[k] = latest[k]
      /\ latest'[n] \in {latest[n], None, Corrupt}
      /\ manifests' \subseteq manifests
      /\ \A man \in manifests : man \in manifests' \/ Prefix[man.machine] = n
  BY DEF Damage, TypeOK, PointerInv
<1>3. StoreGrows
  BY <1>1, <1>2 DEF StoreGrows, TypeOK, history
<1>4. StoreInv'
  <2>1. (\A k \in Namespace : PointerInv(k)') /\ PointerClosed'
    <3>1. \A k \in Namespace : PointerInv(k)'
      BY <1>1, <1>2 DEF PointerInv, history
    <3>2. \A man \in manifests' : Files(man) \subseteq blobs'
      BY <1>1, <1>2 DEF PointerClosed
    <3>3. ASSUME NEW k \in Namespace \ damaged', latest'[k] # None
          PROVE  latest'[k] \in manifests'
      <4>1. k # n /\ k \notin damaged /\ latest'[k] = latest[k]
        BY <3>3, <1>1, <1>2
      <4>2. latest[k] \in manifests /\ latest[k] \in Manifest
        BY <4>1, <3>3 DEF PointerClosed, TypeOK
      <4>3. Prefix[latest[k].machine] = k
        BY <4>2 DEF PointerInv
      <4> QED BY <4>1, <4>2, <4>3, <1>2
    <3> QED BY <3>1, <3>2, <3>3 DEF PointerClosed, Files
  <2>2. ListedHaveLatest' /\ SuccessIsDurable'
    BY <1>1, <1>2 DEF ListedHaveLatest, SuccessIsDurable, TypeOK, history
  <2> QED BY <2>1, <2>2 DEF StoreInv
<1>5. ASSUME NEW v \in Uploader PROVE PhaseInv(v)' /\ PromiseInv(v)'
  <2>1. LocalSame(v)
    BY <1>1 DEF LocalSame, local
  <2> QED BY <2>1, <1>3, BystanderKeeps
<1> QED BY <1>1, <1>2, <1>4, <1>5 DEF TypeOK, StoreInv, local, history

-----------------------------------------------------------------------------
(***************************************************************************)
(* The theorems                                                            *)
(***************************************************************************)
LEMMA InvStep == IInv /\ [Next]_vars => IInv'
<1> SUFFICES ASSUME IInv, [Next]_vars PROVE IInv'
  OBVIOUS
<1>1. ASSUME NEW u \in Uploader, Step(u) PROVE IInv'
  BY <1>1, ReadParentPointerKeeps, ReadParentManifestKeeps, EnsureBlobKeeps,
     PublishSnapshotKeeps, ReadPointerKeeps, CasPointerKeeps, ReadIndexKeeps, CasIndexKeeps
  DEF Step
<1>2. CASE UNCHANGED vars
  <2>1. UNCHANGED <<store, pc, local, history, bounds>>
    BY <1>2 DEF vars
  <2>2. StoreGrows /\ StoreInv'
    BY <2>1, SameStoreKeeps DEF history, bounds
  <2>3. ASSUME NEW v \in Uploader PROVE PhaseInv(v)' /\ PromiseInv(v)'
    <3>1. LocalSame(v)
      BY <2>1 DEF LocalSame, local
    <3> QED BY <3>1, <2>2, BystanderKeeps
  <2> QED BY <2>1, <2>2, <2>3 DEF IInv, TypeOK, StoreInv, store, local, history, bounds
<1> QED BY <1>1, <1>2, PrepareKeeps, FaultKeeps, DamageKeeps DEF Next, Undisturbed

\* The strengthening of the safety properties is itself invariant.
THEOREM InductiveInvariant == Spec => []IInv
<1>1. Init => IInv
  BY InvInit
<1>2. IInv /\ [Next]_vars => IInv'
  BY InvStep
<1> QED BY <1>1, <1>2, PTL DEF Spec

\* Every reachable state of the publication code is well typed.
THEOREM TypeCorrect == Spec => []TypeOK
<1>1. IInv => TypeOK
  BY DEF IInv
<1> QED BY <1>1, InductiveInvariant, PTL

\* A pointer never names a missing manifest, nor a manifest a missing blob,
\* however uploads interleave and wherever they stop (I2).
THEOREM PublishOrdering == Spec => []PointerClosed
<1>1. IInv => PointerClosed
  BY DEF IInv
<1> QED BY <1>1, InductiveInvariant, PTL

\* The machines index only names machines that have a pointer.
THEOREM DiscoveryIsComplete == Spec => []ListedHaveLatest
<1>1. IInv => ListedHaveLatest
  BY DEF IInv
<1> QED BY <1>1, InductiveInvariant, PTL

\* What an upload reported as published was published, stays stored and can be
\* discovered.
THEOREM ReportsAreTrue == Spec => []SuccessIsDurable
<1>1. IInv => SuccessIsDurable
  BY DEF IInv
<1> QED BY <1>1, InductiveInvariant, PTL

\* Only CasPointer gives a namespace a new snapshot.
LEMMA MovesAreInstalls ==
    ASSUME IInv, [Next]_vars, NEW n \in Namespace, Moves(n)
    PROVE  \E u \in Uploader :
              /\ Mover(n, u) /\ etag[u] = latest[n]
              /\ etag[u] \in {parent[u], Corrupt}
              /\ parent[u] = None => ~listed[u]
<1> USE DEF Moves
<1>1. PICK u \in Uploader : CasPointer(u)
  <2>1. ASSUME NEW k \in Namespace, Damage(k) PROVE FALSE
    BY <2>1, OwnTypes DEF Damage, IInv, TypeOK
  <2> QED BY <2>1 DEF Next, Undisturbed, Step, Prepare, Fault, ReadParentPointer, ReadParentManifest, EnsureBlob,
       PublishSnapshot, ReadPointer, ReadIndex, CasIndex, vars, store
<1>2. InstallPointer(u) /\ pc[u] = "cas"
  BY <1>1 DEF CasPointer
<1>3. Mine(u) = n /\ target[u] = latest'[n]
  BY <1>2, OwnTypes DEF InstallPointer, IInv, TypeOK
<1>4. PhaseInv(u)
  BY DEF IInv
<1> QED BY <1>2, <1>3, <1>4 DEF Mover, PhaseInv, InstallPointer

\* No publication overwrites a snapshot it has not read as its parent.
THEOREM NoUpdateIsLost == Spec => NoLostUpdate
<1>1. IInv /\ [Next]_vars =>
        [\A n \in Namespace :
            Moves(n) /\ latest[n] # Corrupt
            => \E u \in Uploader : Mover(n, u) /\ parent[u] = latest[n]]_vars
  BY MovesAreInstalls
<1> QED BY <1>1, InductiveInvariant, PTL DEF Spec, NoLostUpdate

\* An upload that saw its machine listed never restarts its history.
THEOREM NoRestart == Spec => NoSilentRestart
<1>1. IInv /\ [Next]_vars =>
        [\A n \in Namespace :
            Moves(n) /\ latest[n] = None
            => \E u \in Uploader : Mover(n, u) /\ ~listed[u]]_vars
  BY MovesAreInstalls, OwnTypes
<1> QED BY <1>1, InductiveInvariant, PTL DEF Spec, NoSilentRestart

\* Concurrent first uploads never erase each other's registration.
THEOREM RegistrationsSurvive == Spec => IndexNeverForgets
<1>1. [Next]_vars => [index \subseteq index']_index
  BY DEF Next, Undisturbed, Step, Prepare, Fault, Damage, ReadParentPointer, ReadParentManifest, EnsureBlob,
     PublishSnapshot, ReadPointer, CasPointer, ReadIndex, CasIndex, InstallIndex, vars, store
<1> QED BY <1>1, PTL DEF Spec, IndexNeverForgets

-----------------------------------------------------------------------------
(***************************************************************************)
(* Archive implements HeadRegister                                         *)
(***************************************************************************)
MapComplete == { man \in manifests : Files(man) \subseteq blobs }
MapBasis    == [u \in Uploader |-> [based |-> Based(u), on |-> parent[u]]]

\* With no damage allowed, none happens.
LEMMA Undamaged ==
    ASSUME MaxDamage = 0 PROVE Spec => [](damaged = {})
<1>1. Init => damaged = {}
  BY DEF Init
<1>2. damaged = {} /\ [Next]_vars => (damaged = {})'
  <2> SUFFICES ASSUME damaged = {}, [Next]_vars PROVE damaged' = {}
    OBVIOUS
  <2>1. ~(Cardinality(damaged) < MaxDamage)
    BY FS_EmptySet
  <2> QED BY <2>1 DEF Next, Undisturbed, Step, Prepare, Fault, Damage, ReadParentPointer, ReadParentManifest,
       EnsureBlob, PublishSnapshot, ReadPointer, CasPointer, ReadIndex, CasIndex, vars, bounds
<1> QED BY <1>1, <1>2, PTL DEF Spec

\* Undamaged and closed, the complete snapshots are the stored ones.
LEMMA CompleteIsStored == IInv => MapComplete = manifests
BY DEF IInv, PointerClosed, MapComplete

\* An ending forgets the basis of its own uploader and of nobody else.
LEMMA StopMaps ==
    ASSUME IInv, NEW u \in Uploader, Stop(u)
    PROVE  MapBasis' = [MapBasis EXCEPT ![u] = [based |-> FALSE, on |-> None]]
BY DEF IInv, TypeOK, Stop, Goto, MapBasis, Based

LEMMA RetryMaps ==
    ASSUME IInv, NEW u \in Uploader, NEW ph \in {"pointer", "index"}, Committing(u), Retry(u, ph)
    PROVE  MapBasis' \in {MapBasis, [MapBasis EXCEPT ![u] = [based |-> FALSE, on |-> None]]}
<1>1. CASE Stop(u)
  BY <1>1, StopMaps
<1>2. CASE ~Stop(u)
  BY <1>2 DEF IInv, TypeOK, Retry, Fails, Goto, MapBasis, Based, Committing
<1> QED BY <1>1, <1>2

LEMMA RefinesInit == Init => Register!Init
BY DEF Init, Register!Init, Register!Idle, Based

\* The variables of the register that an action of an uploader leaves alone.
MapStore == <<MapComplete, latest, index, ever, reported>>

LEMMA RefinesUploader ==
    ASSUME IInv, IInv', damaged = {}, NEW u \in Uploader, Prepare(u) \/ Step(u) \/ Fault(u)
    PROVE  [Register!Next]_(Register!vars)
<1> DEFINE Forgotten == [MapBasis EXCEPT ![u] = [based |-> FALSE, on |-> None]]
<1>a. MapComplete = manifests /\ MapComplete' = manifests'
  <2>1. MapComplete' = manifests'
    BY DEF IInv, PointerClosed, MapComplete, Files
  <2> QED BY <2>1, CompleteIsStored
<1>b. ASSUME UNCHANGED MapStore, UNCHANGED MapBasis PROVE UNCHANGED Register!vars
  BY <1>b DEF Register!vars, MapStore, MapComplete, MapBasis
<1>c. ASSUME UNCHANGED MapStore, MapBasis' = Forgotten PROVE Register!Next
  <2>1. Register!Abandon(u)
    BY <1>c DEF Register!Abandon, Register!Idle, MapStore, MapComplete, MapBasis
  <2> QED BY <2>1 DEF Register!Next
<1>1. CASE Prepare(u)
  <2>1. UNCHANGED MapStore /\ UNCHANGED MapBasis
    BY <1>1, <1>a DEF Prepare, MapStore, MapBasis, Based, store, history, Goto, IInv, TypeOK
  <2> QED BY <2>1, <1>b
<1>2. CASE Fault(u)
  <2>1. UNCHANGED MapStore /\ MapBasis' = Forgotten
    BY <1>2, <1>a, StopMaps DEF Fault, Fails, MapStore, store
  <2> QED BY <2>1, <1>c
<1>3. CASE ReadParentPointer(u)
  <2>1. UNCHANGED MapStore /\ pc[u] = "parent" /\ parent[u] = None
    BY <1>3, <1>a DEF ReadParentPointer, Fails, MapStore, store, local, IInv, PhaseInv
  <2>2. CASE Stop(u)
    BY <2>1, <2>2, <1>c, StopMaps
  <2>3. CASE ~Stop(u)
    <3>1. MapBasis' = [MapBasis EXCEPT ![u] = [based |-> TRUE, on |-> latest[Mine(u)]]]
      BY <2>1, <2>3, <1>3 DEF ReadParentPointer, Fails, MapBasis, Based, Goto, IInv, TypeOK, local
    <3>2. MapBasis[u] = [based |-> FALSE, on |-> None]
      BY <2>1 DEF MapBasis, Based
    <3>3. Register!Base(u)
      BY <2>1, <3>1, <3>2 DEF Register!Base, Register!Idle, Register!On, MapStore, MapComplete,
         MapBasis, Mine
    <3> QED BY <3>3 DEF Register!Next
  <2> QED BY <2>2, <2>3
<1>4. CASE ReadParentManifest(u)
  <2>1. UNCHANGED MapStore
    BY <1>4, <1>a DEF ReadParentManifest, Fails, MapStore, store, local
  <2>2. CASE Stop(u)
    BY <2>1, <2>2, <1>c, StopMaps
  <2>3. CASE ~Stop(u)
    <3>1. UNCHANGED MapBasis
      BY <2>3, <1>4 DEF ReadParentManifest, Fails, MapBasis, Based, Goto, IInv, TypeOK, local
    <3> QED BY <2>1, <3>1, <1>b
  <2> QED BY <2>2, <2>3
<1>5. ASSUME NEW b \in Blob, EnsureBlob(u, b) PROVE UNCHANGED Register!vars
  BY <1>5, <1>a, <1>b DEF EnsureBlob, MapStore, MapBasis, Based, history
<1>6. CASE PublishSnapshot(u)
  <2>1. snap[u] \in Manifest /\ MapComplete' = MapComplete \cup {snap[u]}
    BY <1>6, <1>a DEF PublishSnapshot, IInv, PhaseInv
  <2>2. UNCHANGED MapBasis
    BY <1>6 DEF PublishSnapshot, MapBasis, Based, Goto, IInv, TypeOK
  <2>3. Register!Complete(snap[u])
    BY <1>6, <2>1, <2>2 DEF Register!Complete, PublishSnapshot, MapComplete, MapBasis, history
  <2> QED BY <2>1, <2>3 DEF Register!Next
<1>7. CASE ReadPointer(u)
  <2>1. UNCHANGED MapStore
    BY <1>7, <1>a DEF ReadPointer, Fails, MapStore, store
  <2>2. CASE Stop(u)
    BY <2>1, <2>2, <1>c, StopMaps
  <2>3. CASE ~Stop(u)
    <3>1. UNCHANGED MapBasis
      BY <2>3, <1>7 DEF ReadPointer, Fails, MapBasis, Based, Goto, IInv, TypeOK
    <3> QED BY <2>1, <3>1, <1>b
  <2> QED BY <2>2, <2>3
<1>8. CASE CasPointer(u)
  <2>1. /\ target[u] \in manifests /\ target[u] \in Manifest
        /\ etag[u] \in {parent[u], Corrupt} /\ pc[u] = "cas"
    BY <1>8 DEF CasPointer, IInv, PhaseInv, PromiseInv, Committing
  <2>2. MapBasis' \in {MapBasis, Forgotten}
    <3>1. CASE Retry(u, "pointer")
      BY <3>1, <2>1, RetryMaps DEF Committing
    <3>2. CASE ~Retry(u, "pointer")
      BY <3>2, <1>8 DEF CasPointer, MapBasis, Based, Goto, IInv, TypeOK
    <3> QED BY <3>1, <3>2
  <2>3. CASE InstallPointer(u)
    <3>1. latest[Mine(u)] # Corrupt
      BY OwnTypes DEF IInv, TypeOK, PointerClosed
    <3>2. MapBasis[u] = [based |-> TRUE, on |-> latest[Mine(u)]]
      BY <2>1, <2>3, <3>1 DEF InstallPointer, MapBasis, Based
    <3>3. UNCHANGED <<MapComplete, index, reported>>
      BY <1>8, <1>a DEF CasPointer, Retry, Fails
    <3>a. PICK man \in Manifest : man = target[u]
      BY <2>1
    <3>4. Register!Advance(u, man)
      BY <3>a, <1>a, <2>1, <2>2, <2>3, <3>2, <3>3 DEF Register!Advance, Register!On, Register!Idle,
         InstallPointer, MapComplete, MapBasis, Mine
    <3> QED BY <3>4, Zenon DEF Register!Next
  <2>4. CASE ~InstallPointer(u)
    <3>1. UNCHANGED MapStore
      BY <1>8, <1>a, <2>4 DEF CasPointer, Retry, Fails, MapStore
    <3> QED BY <2>2, <3>1, <1>b, <1>c
  <2> QED BY <2>3, <2>4
<1>9. ASSUME pc[u] \in {"index", "casindex"}, Succeeds(u), index' = index \cup {Owner[u]},
             UNCHANGED <<manifests, latest, ever>>
      PROVE  Register!Next
  <2>1. target[u] \in Manifest /\ target[u] \in ever /\ latest[Mine(u)] # None
    BY <1>9 DEF IInv, PhaseInv, PromiseInv, Committing
  <2>2. MapBasis' = Forgotten
    BY <1>9, StopMaps DEF Succeeds
  <2>a. PICK man \in Manifest : man = target[u]
    BY <2>1
  <2>3. Register!Acknowledge(u, man)
    BY <2>a, <1>9, <1>a, <2>1, <2>2 DEF Register!Acknowledge, Register!Idle, Succeeds, MapComplete,
       MapBasis, Mine
  <2> QED BY <2>3, Zenon DEF Register!Next
<1>10. CASE ReadIndex(u)
  <2>1. pc[u] = "index" /\ UNCHANGED <<manifests, latest, index, ever>>
    BY <1>10 DEF ReadIndex, store
  <2>2. CASE Succeeds(u) /\ Owner[u] \in index
    <3>1. index' = index \cup {Owner[u]}
      BY <2>1, <2>2
    <3> QED BY <1>9, <2>1, <2>2, <3>1
  <2>3. CASE /\ Goto(u, "casindex")
             /\ UNCHANGED <<parent, reported>>
    <3>1. UNCHANGED MapStore
      BY <1>a, <2>1, <2>3 DEF MapStore
    <3>2. UNCHANGED MapBasis
      BY <2>1, <2>3 DEF MapBasis, Based, Goto, IInv, TypeOK
    <3> QED BY <3>1, <3>2, <1>b
  <2> QED BY <1>10, <2>2, <2>3 DEF ReadIndex
<1>11. CASE CasIndex(u)
  <2>1. pc[u] = "casindex" /\ UNCHANGED <<manifests, latest, ever>>
    BY <1>11 DEF CasIndex
  <2>2. CASE InstallIndex(u) /\ Succeeds(u)
    BY <1>9, <2>1, <2>2 DEF InstallIndex
  <2>3. CASE Retry(u, "index")
    <3>1. MapBasis' \in {MapBasis, Forgotten} /\ reported' = reported
      BY <2>1, <2>3, RetryMaps DEF Committing, Retry, Fails
    <3>2. CASE index' = index
      <4>1. UNCHANGED MapStore
        BY <1>a, <2>1, <3>1, <3>2 DEF MapStore
      <4> QED BY <3>1, <4>1, <1>b, <1>c
    <3>3. CASE index' # index
      <4>1. index' = index \cup {Owner[u]}
        BY <1>11, <3>3 DEF CasIndex, InstallIndex
      <4>2. latest[Mine(u)] # None
        BY <2>1 DEF IInv, PromiseInv
      <4>3. Register!List(u)
        BY <1>a, <2>1, <3>1, <4>1, <4>2 DEF Register!List, Register!Idle, MapComplete, MapBasis, Mine
      <4> QED BY <4>3 DEF Register!Next
    <3> QED BY <3>2, <3>3
  <2> QED BY <1>11, <2>2, <2>3 DEF CasIndex
<1> QED
  BY <1>1, <1>2, <1>3, <1>4, <1>5, <1>6, <1>7, <1>8, <1>10, <1>11 DEF Step

LEMMA RefinesStep ==
    ASSUME IInv, IInv', damaged = {}, damaged' = {}, [Next]_vars
    PROVE  [Register!Next]_(Register!vars)
<1>1. CASE UNCHANGED vars
  BY <1>1 DEF vars, store, local, history, Register!vars, Based, Files
<1>2. ASSUME NEW n \in Namespace, Damage(n) PROVE FALSE
  BY <1>2 DEF Damage
<1> QED BY <1>1, <1>2, RefinesUploader DEF Next, Undisturbed

\* Undamaged, the interleaved and interrupted store calls of any number of
\* uploads implement atomic publications on per-namespace head registers.
THEOREM Refinement == ASSUME MaxDamage = 0 PROVE Spec => ImplementsRegister
<1>1. Init => Register!Init
  BY RefinesInit
<1>2. IInv /\ IInv' /\ damaged = {} /\ (damaged = {})' /\ [Next]_vars
      => [Register!Next]_(Register!vars)
  BY RefinesStep
<1> QED BY <1>1, <1>2, InductiveInvariant, Undamaged, PTL
        DEF Spec, ImplementsRegister, Register!Spec

(***************************************************************************)
(* That an inspection tells the truth (ArchiveInspection).  What it says is *)
(* true of the past and of the present at once, so two facts about         *)
(* publication are needed beside IInv: the store only loses what damage    *)
(* takes, and a broken pointer that stays broken stays the same.           *)
(***************************************************************************)

(***************************************************************************)
(* Of one namespace at most one snapshot is missing that a pointer names   *)
(* or an upload is about to install: the one that damage removed.          *)
(***************************************************************************)
Installing(u, n) == Committing(u) /\ Mine(u) = n
Absent(n, x) ==
    /\ x \notin manifests
    /\ x = latest[n] \/ (\E u \in Uploader : Installing(u, n) /\ x = target[u])
OneAbsent == \A n \in Namespace : \A x, y : Absent(n, x) /\ Absent(n, y) => x = y

\* What an uploader's step does to targets and pointers: a new target is
\* stored, a pointer is replaced by a target only.
TargetsMove ==
    /\ manifests \subseteq manifests' /\ damaged' = damaged
    /\ \A v \in Uploader : Committing(v)' =>
          target'[v] \in manifests' \/ (Committing(v) /\ target'[v] = target[v])
    /\ \A n \in Namespace :
          latest'[n] = latest[n] \/ (\E v \in Uploader : Installing(v, n) /\ latest'[n] = target[v])

LEMMA StopMoves ==
    ASSUME IInv, NEW u \in Uploader, Stop(u)
    PROVE  \A v \in Uploader : Committing(v)' => Committing(v) /\ target'[v] = target[v]
BY DEF IInv, TypeOK, Stop, Goto, Committing

LEMMA RetryMoves ==
    ASSUME IInv, NEW u \in Uploader, NEW ph \in {"pointer", "index"}, Committing(u), Retry(u, ph)
    PROVE  \A v \in Uploader : Committing(v)' => Committing(v) /\ target'[v] = target[v]
<1>1. CASE Stop(u)
  BY <1>1, StopMoves
<1>2. CASE ~Stop(u)
  BY <1>2 DEF IInv, TypeOK, Retry, Fails, Goto, Committing
<1> QED BY <1>1, <1>2

LEMMA UploaderMoves ==
    ASSUME IInv, NEW u \in Uploader, Prepare(u) \/ Step(u) \/ Fault(u)
    PROVE  TargetsMove
<1> USE DEF TargetsMove
<1>1. CASE Prepare(u)
  BY <1>1 DEF IInv, TypeOK, Prepare, Goto, Committing, store, bounds
<1>2. CASE Fault(u)
  BY <1>2, StopMoves DEF Fault, Fails, store
<1>3. CASE ReadParentPointer(u)
  <2>1. CASE Stop(u)
    BY <1>3, <2>1, StopMoves DEF ReadParentPointer, store, bounds
  <2>2. CASE ~Stop(u)
    BY <1>3, <2>2 DEF ReadParentPointer, Fails, IInv, TypeOK, Goto, Committing, store, local, bounds
  <2> QED BY <2>1, <2>2
<1>4. CASE ReadParentManifest(u)
  <2>1. CASE Stop(u)
    BY <1>4, <2>1, StopMoves DEF ReadParentManifest, store, bounds
  <2>2. CASE ~Stop(u)
    BY <1>4, <2>2 DEF ReadParentManifest, Fails, IInv, TypeOK, Goto, Committing, store, local, bounds
  <2> QED BY <2>1, <2>2
<1>5. ASSUME NEW b \in Blob, EnsureBlob(u, b) PROVE TargetsMove
  BY <1>5 DEF EnsureBlob, IInv, TypeOK, Committing, bounds
<1>6. CASE PublishSnapshot(u)
  BY <1>6 DEF PublishSnapshot, IInv, TypeOK, Goto, Committing, bounds
<1>7. CASE ReadPointer(u)
  <2>1. CASE Stop(u)
    BY <1>7, <2>1, StopMoves DEF ReadPointer, store, bounds
  <2>2. CASE ~Stop(u)
    BY <1>7, <2>2 DEF ReadPointer, Fails, IInv, TypeOK, Goto, Committing, store, bounds
  <2> QED BY <2>1, <2>2
<1>8. CASE CasPointer(u)
  <2>1. Committing(u) /\ Mine(u) \in Namespace
    BY <1>8, OwnTypes DEF CasPointer, Committing
  <2>2. \A v \in Uploader : Committing(v)' => Committing(v) /\ target'[v] = target[v]
    <3>1. CASE Retry(u, "pointer")
      BY <2>1, <3>1, RetryMoves
    <3>2. CASE ~Retry(u, "pointer")
      BY <1>8, <3>2 DEF CasPointer, IInv, TypeOK, Goto, Committing
    <3> QED BY <3>1, <3>2
  <2>3. latest' = latest \/ latest' = [latest EXCEPT ![Mine(u)] = target[u]]
    BY <1>8 DEF CasPointer, InstallPointer
  <2>4. \A n \in Namespace :
           latest'[n] = latest[n] \/ (Installing(u, n) /\ latest'[n] = target[u])
    BY <2>1, <2>3 DEF IInv, TypeOK, Installing
  <2> QED BY <1>8, <2>2, <2>4 DEF CasPointer, bounds
<1>9. CASE ReadIndex(u)
  <2>1. CASE Stop(u)
    BY <1>9, <2>1, StopMoves DEF ReadIndex, store, bounds
  <2>2. CASE ~Stop(u)
    BY <1>9, <2>2 DEF ReadIndex, Succeeds, IInv, TypeOK, Goto, Committing, store, bounds
  <2> QED BY <2>1, <2>2
<1>10. CASE CasIndex(u)
  <2>1. Committing(u)
    BY <1>10 DEF CasIndex, Committing
  <2>2. CASE Retry(u, "index")
    BY <1>10, <2>1, <2>2, RetryMoves DEF CasIndex, bounds
  <2>3. CASE ~Retry(u, "index")
    BY <1>10, <2>3, StopMoves DEF CasIndex, Succeeds, bounds
  <2> QED BY <2>2, <2>3
<1> QED
  BY <1>1, <1>2, <1>3, <1>4, <1>5, <1>6, <1>7, <1>8, <1>9, <1>10 DEF Step

\* Damage meets an undamaged namespace, of which nothing is missing yet.
LEMMA DamageMoves ==
    ASSUME IInv, NEW d \in Namespace, Damage(d)
    PROVE  /\ d \notin damaged /\ damaged' = damaged \cup {d}
           /\ \A u \in Uploader : Committing(u)' = Committing(u) /\ target'[u] = target[u]
           /\ \A n \in Namespace \ {d} : latest'[n] = latest[n]
           /\ \A man \in manifests : man \in manifests' \/ Prefix[man.machine] = d
           /\ manifests' \subseteq manifests
           /\ \A u \in Uploader : Installing(u, d) => target[u] \in manifests
           /\ latest[d] \in manifests
           /\ manifests' = manifests \/ (latest' = latest /\ manifests' = manifests \ {latest[d]})
<1>1. UNCHANGED <<pc, target>> /\ d \notin damaged /\ damaged' = damaged \cup {d}
  BY DEF Damage, local
<1>2. latest[d] \in Manifest /\ Prefix[latest[d].machine] = d /\ latest[d] \in manifests
  BY <1>1, OwnTypes DEF Damage, IInv, PointerInv, PointerClosed
<1>3. \A u \in Uploader : Installing(u, d) => target[u] \in manifests
  BY <1>1 DEF Installing, IInv, PromiseInv
<1>4. \A n \in Namespace \ {d} : latest'[n] = latest[n]
  BY DEF Damage, IInv, TypeOK
<1>5. manifests' = manifests \/ (latest' = latest /\ manifests' = manifests \ {latest[d]})
  BY DEF Damage
<1> QED BY <1>1, <1>2, <1>3, <1>4, <1>5 DEF Committing

LEMMA OneAbsentStep ==
    ASSUME IInv, OneAbsent, [Next]_vars PROVE OneAbsent'
<1>1. ASSUME TargetsMove PROVE OneAbsent'
  <2>1. ASSUME NEW n \in Namespace, NEW x, Absent(n, x)' PROVE Absent(n, x)
    <3>1. x \notin manifests' /\ x \notin manifests
      BY <1>1, <2>1 DEF TargetsMove, Absent
    <3>2. CASE x = latest'[n]
      BY <1>1, <3>1, <3>2 DEF TargetsMove, Absent
    <3>3. ASSUME NEW u \in Uploader, Installing(u, n)', x = target'[u] PROVE Absent(n, x)
      BY <1>1, <3>1, <3>3 DEF TargetsMove, Absent, Installing, Mine
    <3> QED BY <2>1, <3>2, <3>3 DEF Absent
  <2> QED BY <2>1 DEF OneAbsent
<1>2. ASSUME NEW d \in Namespace, Damage(d) PROVE OneAbsent'
  <2>1. ASSUME NEW n \in Namespace, n # d, NEW x, Absent(n, x)' PROVE Absent(n, x)
    <3>1. x = latest[n] \/ (\E u \in Uploader : Installing(u, n) /\ x = target[u])
      BY <1>2, <2>1, DamageMoves DEF Absent, Installing, Mine
    <3>2. x \in Manifest => Prefix[x.machine] = n
      BY <2>1, <3>1 DEF IInv, PointerInv, PhaseInv, Installing
    <3>3. x \notin manifests
      BY <1>2, <2>1, <3>2, DamageMoves DEF Absent, IInv, TypeOK
    <3> QED BY <3>1, <3>3 DEF Absent
  <2>2. ASSUME NEW x, Absent(d, x)' PROVE x = latest'[d]
    <3>1. CASE x = latest'[d]
      BY <3>1
    <3>2. ASSUME NEW u \in Uploader, Installing(u, d)', x = target'[u] PROVE x = latest'[d]
      BY <1>2, <2>2, <3>2, DamageMoves DEF Absent, Installing, Mine
    <3> QED BY <2>2, <3>1, <3>2 DEF Absent
  <2> QED BY <2>1, <2>2 DEF OneAbsent
<1>3. CASE UNCHANGED vars
  BY <1>3 DEF OneAbsent, Absent, Installing, Committing, Mine, vars, store, local
<1> QED BY <1>1, <1>2, <1>3, UploaderMoves DEF Next, Undisturbed

\* A broken machine that stays broken keeps its pointer: every upload that could
\* replace it installs a stored snapshot or the one that is missing.
LEMMA BrokenKeepsPointer ==
    ASSUME IInv, OneAbsent, [Next]_vars, NEW m \in Machine, Broken(m), Broken(m)'
    PROVE  latest'[Prefix[m]] = latest[Prefix[m]] \/ Prefix[m] \notin damaged
<1> DEFINE n == Prefix[m]
<1>1. n \in Namespace
  BY OwnTypes
<1>2. CASE TargetsMove
  <2>1. ASSUME NEW v \in Uploader, Installing(v, n), latest'[n] = target[v]
        PROVE  latest'[n] = latest[n]
    <3>1. Absent(n, latest[n])
      BY DEF Broken, Absent
    <3>2. Absent(n, target[v])
      BY <1>2, <2>1 DEF Broken, Absent, TargetsMove
    <3> QED BY <1>1, <2>1, <3>1, <3>2 DEF OneAbsent
  <2> QED BY <1>1, <1>2, <2>1 DEF TargetsMove
<1>3. ASSUME NEW d \in Namespace, Damage(d) PROVE latest'[n] = latest[n] \/ n \notin damaged
  BY <1>1, <1>3, DamageMoves
<1>4. CASE UNCHANGED vars
  BY <1>4 DEF vars, store
<1> QED BY <1>2, <1>3, <1>4, UploaderMoves DEF Next, Undisturbed

(***************************************************************************)
(* What an inspection knows.                                               *)
(***************************************************************************)
Kind == {"status", "verify", "deep", "download"}
At == {"idle", "pointers", "manifest", "list", "older", "ended"}
InspType ==
    insp \in [kind: Kind, at: At, left: SUBSET Machine, vector: SUBSET (Machine \X Manifest),
              older: SUBSET (Machine \X Manifest), problems: SUBSET Machine, broken: SUBSET Machine]

\* A snapshot it holds is one of the machine's own namespace, and was stored.
Held(p) == /\ Prefix[p[2].machine] = Prefix[p[1]]
           /\ p[2] \in manifests \/ Prefix[p[1]] \in damaged

\* What has been broken since the index was read has been named, or is still
\* to be looked at with the very pointer that is broken.
BrokenInv ==
    /\ insp.broken \subseteq insp.problems \cup insp.left \cup {p[1] : p \in insp.vector}
    /\ \A p \in insp.vector : p[1] \in insp.broken => p[2] = latest[Prefix[p[1]]]
    /\ insp.at = "manifest" => \E p \in insp.vector : insp.vector = {p}
    /\ insp.at # "manifest" => insp.vector = {}
    /\ insp.at = "ended" => insp.left = {}

InspInv ==
    /\ InspType
    /\ insp.left \subseteq index
    /\ \A p \in insp.vector \cup insp.older : Held(p)
    /\ \A m \in insp.problems : Prefix[m] \in damaged
    /\ insp.at = "idle" => insp = NoInspection
    /\ \A m \in insp.broken : Broken(m)
    /\ insp.kind # "download" => BrokenInv

\* A snapshot the inspection holds is sound unless its namespace was damaged.
LEMMA HeldIsSound ==
    ASSUME IInv, NEW p, Held(p), Prefix[p[1]] \notin damaged PROVE Sound(p[2])
BY DEF IInv, PointerClosed, Held, Sound

LEMMA InspectsPointer ==
    ASSUME IInv, InspInv, NEW m \in Machine, InspectPointer(m) PROVE InspInv'
<1> DEFINE cur == latest[Prefix[m]]
<1>1. /\ insp.at = "pointers" /\ m \in insp.left /\ m \in index /\ UNCHANGED vars
      /\ insp \in [kind: Kind, at: At, left: SUBSET Machine, vector: SUBSET (Machine \X Manifest),
              older: SUBSET (Machine \X Manifest), problems: SUBSET Machine, broken: SUBSET Machine]
  BY DEF InspectPointer, InspInv, InspType
<1>2. Prefix[m] \in Namespace /\ cur \in Manifest \cup {None, Corrupt}
  BY OwnTypes DEF IInv, TypeOK
<1>3. UNCHANGED <<manifests, latest, index, damaged>>
  BY <1>1 DEF vars, store, bounds
<1>4. CASE cur \in {None, Corrupt}
  <2>1. Prefix[m] \in damaged
    BY <1>1, <1>2, <1>4, OwnTypes DEF IInv, TypeOK, ListedHaveLatest, PointerClosed
  <2>2. insp' = Problem(insp, m)
    BY <1>4 DEF InspectPointer
  <2>3. CASE insp.kind = "download"
    <3>1. insp' = [insp EXCEPT !.problems = insp.problems \cup {m}, !.at = "ended"]
      BY <2>2, <2>3 DEF Problem
    <3> QED BY <1>1, <1>3, <2>1, <2>3, <3>1 DEF InspInv, InspType, At, Held, Broken
  <2>4. CASE insp.kind # "download"
    <3>1. insp' = [insp EXCEPT !.problems = insp.problems \cup {m}, !.left = insp.left \ {m},
                               !.vector = {}, !.at = "pointers"]
      BY <2>2, <2>4 DEF Problem
    <3>2. InspType' /\ insp'.left \subseteq index' /\ (insp'.at = "idle" => insp' = NoInspection)
      BY <1>1, <1>3, <3>1 DEF InspInv, InspType, At
    <3>3. BrokenInv'
      BY <1>1, <1>3, <2>4, <3>1 DEF InspInv, BrokenInv
    <3> QED BY <1>1, <1>3, <2>1, <2>4, <3>1, <3>2, <3>3 DEF InspInv, Held, Broken
  <2> QED BY <2>3, <2>4
<1>5. CASE cur \notin {None, Corrupt}
  <2>1. cur \in Manifest /\ Prefix[cur.machine] = Prefix[m]
        /\ (cur \in manifests \/ Prefix[m] \in damaged)
    BY <1>2, <1>5 DEF IInv, PointerInv, PointerClosed
  <2>2. insp' = [insp EXCEPT !.left = insp.left \ {m}, !.vector = insp.vector \cup {<<m, cur>>},
                     !.at = IF insp.kind = "download" THEN insp.at ELSE "manifest"]
    BY <1>5 DEF InspectPointer
  <2>3. InspType' /\ insp'.left \subseteq index' /\ (insp'.at = "idle" => insp' = NoInspection)
    <3>1. insp.vector \cup {<<m, cur>>} \in SUBSET (Machine \X Manifest)
      BY <1>1, <2>1
    <3>2. (IF insp.kind = "download" THEN insp.at ELSE "manifest") \in At \ {"idle"}
      BY <1>1 DEF At
    <3>3. insp'.at # "idle" /\ insp'.left \subseteq insp.left
      BY <1>1, <2>2, <3>2
    <3> QED BY <1>1, <1>3, <2>2, <3>1, <3>2, <3>3 DEF InspInv, InspType
  <2>4. \A p \in (insp.vector \cup insp.older)' : Held(p)'
    BY <1>1, <1>3, <2>1, <2>2 DEF InspInv, Held
  <2>5. ASSUME insp.kind # "download" PROVE BrokenInv'
    <3>1. insp.vector = {} /\ insp'.vector = {<<m, cur>>} /\ insp'.at = "manifest"
      BY <1>1, <2>2, <2>5 DEF InspInv, BrokenInv
    <3>2. insp'.broken = insp.broken /\ insp'.left = insp.left \ {m} /\ insp'.problems = insp.problems
      BY <1>1, <2>2
    <3> QED BY <1>1, <1>3, <2>5, <3>1, <3>2 DEF InspInv, BrokenInv
  <2> QED BY <1>1, <1>3, <2>2, <2>3, <2>4, <2>5 DEF InspInv, Broken
<1> QED BY <1>4, <1>5

LEMMA InspectsManifest ==
    ASSUME IInv, InspInv, NEW p \in insp.vector, InspectManifest(p[1], p[2]) PROVE InspInv'
<1> DEFINE m == p[1]
           man == p[2]
           rest == insp.vector \ {<<m, man>>}
<1>1. /\ insp.at = "manifest" /\ <<m, man>> \in insp.vector /\ UNCHANGED vars
      /\ p = <<m, man>> /\ m \in Machine /\ man \in Manifest
      /\ insp \in [kind: Kind, at: At, left: SUBSET Machine, vector: SUBSET (Machine \X Manifest),
              older: SUBSET (Machine \X Manifest), problems: SUBSET Machine, broken: SUBSET Machine]
  BY DEF InspectManifest, InspInv, InspType
<1>2. UNCHANGED <<manifests, latest, index, damaged>>
  BY <1>1 DEF vars, store, bounds
<1>3. Held(p) /\ (~Sound(man) => Prefix[m] \in damaged)
  BY <1>1, HeldIsSound DEF InspInv
<1>4. insp.kind # "download" /\ m \in insp.broken => ~Sound(man)
  BY <1>1 DEF InspInv, BrokenInv, Broken, Sound
<1>5. insp.kind # "download" => rest = {}
  BY <1>1 DEF InspInv, BrokenInv
<1>6. CASE insp.kind = "deep"
  <2>1. insp' = [insp EXCEPT !.vector = rest, !.at = "list", !.older = {<<m, man>>},
                    !.problems = IF Sound(man) THEN insp.problems ELSE insp.problems \cup {m}]
    BY <1>6 DEF InspectManifest
  <2>2. InspType' /\ insp'.left \subseteq index' /\ (insp'.at = "idle" => insp' = NoInspection)
    BY <1>1, <1>2, <2>1 DEF InspInv, InspType, At
  <2>3. \A q \in (insp.vector \cup insp.older)' : Held(q)'
    BY <1>1, <1>2, <1>3, <2>1 DEF InspInv, Held
  <2>4. BrokenInv'
    <3>1. insp'.vector = {} /\ insp'.at = "list" /\ insp'.broken = insp.broken /\ insp'.left = insp.left
      BY <1>1, <1>5, <1>6, <2>1
    <3>2. insp.broken \subseteq insp.problems \cup insp.left \cup {m}
      BY <1>1, <1>5, <1>6 DEF InspInv, BrokenInv
    <3>3. insp'.problems = IF Sound(man) THEN insp.problems ELSE insp.problems \cup {m}
      BY <1>1, <2>1
    <3> QED BY <1>4, <1>6, <3>1, <3>2, <3>3 DEF BrokenInv
  <2> QED BY <1>1, <1>2, <1>3, <2>1, <2>2, <2>3, <2>4 DEF InspInv, Broken
<1>7. CASE insp.kind # "deep" /\ Sound(man)
  <2>1. insp' = [insp EXCEPT !.vector = rest,
            !.at = IF insp.kind = "download" /\ rest # {} THEN insp.at ELSE "pointers"]
    BY <1>7 DEF InspectManifest
  <2>2. InspType' /\ insp'.left \subseteq index' /\ (insp'.at = "idle" => insp' = NoInspection)
    BY <1>1, <1>2, <2>1 DEF InspInv, InspType, At
  <2>3. \A q \in (insp.vector \cup insp.older)' : Held(q)'
    BY <1>1, <1>2, <2>1 DEF InspInv, Held
  <2>4. ASSUME insp.kind # "download" PROVE BrokenInv'
    <3>1. /\ insp'.vector = {} /\ insp'.at = "pointers" /\ insp'.broken = insp.broken
          /\ insp'.left = insp.left /\ insp'.problems = insp.problems
      BY <1>1, <1>5, <2>1, <2>4
    <3>2. insp.broken \subseteq insp.problems \cup insp.left \cup {m}
      BY <1>1, <1>5, <2>4 DEF InspInv, BrokenInv
    <3> QED BY <1>4, <1>7, <2>4, <3>1, <3>2 DEF BrokenInv
  <2> QED BY <1>1, <1>2, <2>1, <2>2, <2>3, <2>4 DEF InspInv, Broken
<1>8. CASE insp.kind # "deep" /\ ~Sound(man)
  <2>1. insp' = Problem(insp, m)
    BY <1>8 DEF InspectManifest
  <2>2. CASE insp.kind = "download"
    <3>1. insp' = [insp EXCEPT !.problems = insp.problems \cup {m}, !.at = "ended"]
      BY <2>1, <2>2 DEF Problem
    <3> QED BY <1>1, <1>2, <1>3, <1>8, <2>2, <3>1 DEF InspInv, InspType, At, Held, Broken
  <2>3. CASE insp.kind # "download"
    <3>1. insp' = [insp EXCEPT !.problems = insp.problems \cup {m}, !.left = insp.left \ {m},
                               !.vector = {}, !.at = "pointers"]
      BY <2>1, <2>3 DEF Problem
    <3>2. InspType' /\ insp'.left \subseteq index' /\ (insp'.at = "idle" => insp' = NoInspection)
      BY <1>1, <1>2, <3>1 DEF InspInv, InspType, At
    <3>3. BrokenInv'
      <4>1. insp.broken \subseteq insp.problems \cup insp.left \cup {m}
        BY <1>1, <1>5, <2>3 DEF InspInv, BrokenInv
      <4> QED BY <1>1, <3>1, <4>1 DEF BrokenInv
    <3> QED BY <1>1, <1>2, <1>3, <1>8, <2>3, <3>1, <3>2, <3>3 DEF InspInv, Held, Broken
  <2> QED BY <2>2, <2>3
<1> QED BY <1>6, <1>7, <1>8

\* The other steps of an inspection name nothing and forget nothing.
LEMMA InspectionGoesOn ==
    ASSUME IInv, InspInv,
           \/ InspectMetadata \/ PreparePull \/ \E deep \in BOOLEAN : VerifyWithOptions(deep)
           \/ PlanDownload \/ EndOlder \/ EndInspection
           \/ \E p \in insp.vector : SkipMaterialised(p[1], p[2])
           \/ \E p \in insp.older : ListManifests(p[1], p[2]) \/ InspectOlder(p[1], p[2])
    PROVE  InspInv'
<1>1. /\ UNCHANGED vars
      /\ insp \in [kind: Kind, at: At, left: SUBSET Machine, vector: SUBSET (Machine \X Manifest),
              older: SUBSET (Machine \X Manifest), problems: SUBSET Machine, broken: SUBSET Machine]
  BY DEF InspectMetadata, PreparePull, VerifyWithOptions, BeginInspection, PlanDownload, EndOlder,
         EndInspection, SkipMaterialised, ListManifests, InspectOlder, InspInv, InspType
<1>2. UNCHANGED <<manifests, latest, index, damaged>>
  BY <1>1 DEF vars, store, bounds
<1>3. ASSUME NEW kind \in Kind, BeginInspection(kind) PROVE InspInv'
  <2>1. insp' = [kind |-> kind, at |-> "pointers", left |-> index, vector |-> {}, older |-> {},
                 problems |-> {}, broken |-> {m \in index : Broken(m)}]
    BY <1>3 DEF BeginInspection, NoInspection, InspInv
  <2> QED BY <1>2, <2>1 DEF InspInv, InspType, At, BrokenInv, Broken, IInv, TypeOK
<1>4. CASE PlanDownload
  <2>1. insp.kind = "download" /\ insp' = [insp EXCEPT !.at = "manifest"]
    BY <1>4 DEF PlanDownload
  <2> QED BY <1>1, <1>2, <2>1 DEF InspInv, InspType, At, Held, Broken
<1>5. CASE EndOlder
  <2>1. insp.at = "older" /\ insp' = [insp EXCEPT !.at = "pointers"]
    BY <1>5 DEF EndOlder
  <2> QED BY <1>1, <1>2, <2>1 DEF InspInv, InspType, At, Held, Broken, BrokenInv
<1>6. CASE EndInspection
  <2>1. /\ insp.at = "pointers" /\ insp.left = {} /\ insp.vector = {}
        /\ insp' = [insp EXCEPT !.at = "ended"]
    BY <1>6 DEF EndInspection
  <2> QED BY <1>1, <1>2, <2>1 DEF InspInv, InspType, At, Held, Broken, BrokenInv
<1>7. ASSUME NEW p \in insp.vector, SkipMaterialised(p[1], p[2]) PROVE InspInv'
  <2>1. /\ insp.kind = "download" /\ insp.at = "manifest"
        /\ insp' = [insp EXCEPT !.vector = insp.vector \ {<<p[1], p[2]>>},
                       !.at = IF insp.vector = {<<p[1], p[2]>>} THEN "pointers" ELSE insp.at]
    BY <1>7 DEF SkipMaterialised
  <2> QED BY <1>1, <1>2, <2>1 DEF InspInv, InspType, At, Held, Broken
<1>8. ASSUME NEW p \in insp.older, ListManifests(p[1], p[2]) PROVE InspInv'
  <2> DEFINE found == {<<p[1], x>> : x \in {y \in manifests : Prefix[y.machine] = Prefix[p[1]]}}
                      \ {<<p[1], p[2]>>}
  <2>1. insp.at = "list" /\ insp' = [insp EXCEPT !.at = "older", !.older = found]
    BY <1>8 DEF ListManifests
  <2>2. found \subseteq Machine \X Manifest
    BY <1>1 DEF IInv, TypeOK
  <2>3. \A q \in found : Held(q)
    BY DEF Held
  <2>4. InspType' /\ insp'.left \subseteq index' /\ (insp'.at = "idle" => insp' = NoInspection)
    BY <1>1, <1>2, <2>1, <2>2 DEF InspInv, InspType, At
  <2> HIDE DEF found
  <2>5. \A q \in (insp.vector \cup insp.older)' : Held(q)'
    BY <1>1, <1>2, <2>1, <2>3 DEF InspInv, Held
  <2> QED BY <1>1, <1>2, <2>1, <2>4, <2>5 DEF InspInv, Broken, BrokenInv
<1>9. ASSUME NEW p \in insp.older, InspectOlder(p[1], p[2]) PROVE InspInv'
  <2>1. /\ insp.at = "older"
        /\ insp' = [insp EXCEPT !.older = insp.older \ {<<p[1], p[2]>>},
                      !.problems = IF Sound(p[2]) THEN insp.problems ELSE insp.problems \cup {p[1]}]
    BY <1>9 DEF InspectOlder
  <2>2. p[1] \in Machine /\ (~Sound(p[2]) => Prefix[p[1]] \in damaged)
    BY <1>1, HeldIsSound DEF InspInv
  <2>3. InspType' /\ insp'.left \subseteq index' /\ (insp'.at = "idle" => insp' = NoInspection)
    BY <1>1, <1>2, <2>1, <2>2 DEF InspInv, InspType, At
  <2> QED BY <1>1, <1>2, <2>1, <2>2, <2>3 DEF InspInv, Held, Broken, BrokenInv
<1> QED
  BY <1>3, <1>4, <1>5, <1>6, <1>7, <1>8, <1>9
  DEF InspectMetadata, PreparePull, VerifyWithOptions, Kind

(***************************************************************************)
(* While the Archive moves on: what was held stays held or its namespace   *)
(* is damaged now, and what is still broken has the pointer it had.        *)
(***************************************************************************)
LEMMA ArchiveMovesOn ==
    ASSUME IInv, OneAbsent, InspInv, [Next]_vars,
           insp' = [insp EXCEPT !.broken = {m \in insp.broken : latest'[Prefix[m]] \notin manifests'}]
    PROVE  InspInv'
<1>1. insp \in [kind: Kind, at: At, left: SUBSET Machine, vector: SUBSET (Machine \X Manifest),
              older: SUBSET (Machine \X Manifest), problems: SUBSET Machine, broken: SUBSET Machine]
  BY DEF InspInv, InspType
<1>2. /\ insp'.broken = {m \in insp.broken : latest'[Prefix[m]] \notin manifests'}
      /\ insp'.kind = insp.kind /\ insp'.at = insp.at /\ insp'.left = insp.left
      /\ insp'.vector = insp.vector /\ insp'.older = insp.older /\ insp'.problems = insp.problems
  BY <1>1
<1>3. /\ index \subseteq index' /\ damaged \subseteq damaged'
      /\ \A man \in manifests : man \in manifests' \/ Prefix[man.machine] \in damaged'
  <2>1. index \subseteq index'
    BY DEF Next, Undisturbed, Step, Prepare, Fault, Damage, ReadParentPointer, ReadParentManifest,
       EnsureBlob, PublishSnapshot, ReadPointer, CasPointer, ReadIndex, CasIndex, InstallIndex, vars, store
  <2>2. CASE TargetsMove
    BY <2>1, <2>2 DEF TargetsMove
  <2>3. ASSUME NEW d \in Namespace, Damage(d)
        PROVE  /\ damaged \subseteq damaged'
               /\ \A man \in manifests : man \in manifests' \/ Prefix[man.machine] \in damaged'
    BY <2>3, DamageMoves
  <2>4. CASE UNCHANGED vars
    BY <2>1, <2>4 DEF vars, store, bounds
  <2> QED BY <2>1, <2>2, <2>3, <2>4, UploaderMoves DEF Next, Undisturbed
<1>4. InspType' /\ insp'.left \subseteq index' /\ (\A m \in insp'.problems : Prefix[m] \in damaged')
  BY <1>1, <1>2, <1>3 DEF InspInv, InspType
<1>5. \A p \in (insp.vector \cup insp.older)' : Held(p)'
  BY <1>2, <1>3 DEF InspInv, Held
<1>6. \A m \in insp'.broken : m \in insp.broken /\ Broken(m)'
  BY <1>2 DEF Broken
<1>7. insp'.at = "idle" => insp' = NoInspection
  BY <1>1, <1>2 DEF InspInv, NoInspection
<1>8. ASSUME insp.kind # "download" PROVE BrokenInv'
  <2>1. ASSUME NEW p \in insp'.vector, p[1] \in insp'.broken PROVE p[2] = latest'[Prefix[p[1]]]
    <3>1. p[1] \in Machine /\ p[2] = latest[Prefix[p[1]]] /\ Broken(p[1]) /\ Broken(p[1])' /\ Held(p)
      BY <1>1, <1>2, <1>6, <1>8, <2>1 DEF InspInv, BrokenInv
    <3>2. Prefix[p[1]] \in damaged
      BY <3>1 DEF Held, Broken
    <3> QED BY <3>1, <3>2, BrokenKeepsPointer
  <2> QED BY <1>2, <1>6, <1>8, <2>1 DEF InspInv, BrokenInv
<1> QED BY <1>2, <1>4, <1>5, <1>6, <1>7, <1>8 DEF InspInv

\* The invariant of an Archive and the one inspection that reads it.
THEOREM InspectionInvariant == InspectionSpec => [](IInv /\ OneAbsent /\ InspInv)
<1>1. InspectionInit => IInv /\ OneAbsent /\ InspInv
  <2> SUFFICES ASSUME InspectionInit PROVE IInv /\ OneAbsent /\ InspInv
    OBVIOUS
  <2>1. OneAbsent
    BY DEF InspectionInit, Init, OneAbsent, Absent, Installing, Committing
  <2>2. InspInv
    BY DEF InspectionInit, NoInspection, InspInv, InspType, Kind, At, BrokenInv
  <2> QED BY <2>1, <2>2, InvInit DEF InspectionInit
<1>2. IInv /\ OneAbsent /\ InspInv /\ [InspectionNext]_inspectionVars
      => (IInv /\ OneAbsent /\ InspInv)'
  <2> SUFFICES ASSUME IInv, OneAbsent, InspInv, [InspectionNext]_inspectionVars
               PROVE  IInv' /\ OneAbsent' /\ InspInv'
    OBVIOUS
  <2>1. [Next]_vars
    BY DEF InspectionNext, inspectionVars, InspectMetadata, PreparePull, VerifyWithOptions,
           BeginInspection, InspectPointer, PlanDownload, EndOlder, EndInspection, InspectManifest,
           SkipMaterialised, ListManifests, InspectOlder
  <2>2. IInv' /\ OneAbsent'
    BY <2>1, InvStep, OneAbsentStep
  <2>3. CASE UNCHANGED inspectionVars
    <3>1. UNCHANGED <<insp, manifests, latest, index, damaged>>
      BY <2>3 DEF inspectionVars, vars, store, bounds
    <3>2. BrokenInv' = BrokenInv
      BY <3>1 DEF BrokenInv
    <3> QED BY <2>2, <3>1, <3>2 DEF InspInv, InspType, Held, Broken
  <2>4. ASSUME insp' = [insp EXCEPT !.broken = {m \in @ : Broken(m)'}] PROVE InspInv'
    <3>1. insp' = [insp EXCEPT !.broken = {m \in insp.broken : latest'[Prefix[m]] \notin manifests'}]
      BY <2>4 DEF Broken
    <3> QED BY <2>1, <3>1, ArchiveMovesOn
  <2> QED BY <2>2, <2>3, <2>4, InspectsPointer, InspectsManifest, InspectionGoesOn
          DEF InspectionNext
<1> QED BY <1>1, <1>2, PTL DEF InspectionSpec

(***************************************************************************)
(* An inspection finds no problem where nothing was damaged and refuses no *)
(* download, and a status or verify that has ended names every machine     *)
(* that was broken when it began and has been since, for any number of     *)
(* uploads and faults between its reads.                                   *)
(***************************************************************************)
THEOREM InspectionsTell == InspectionSpec => []InspectionTells
<1>1. IInv /\ OneAbsent /\ InspInv => InspectionTells
  BY DEF InspInv, BrokenInv, InspectionTells
<1> QED BY <1>1, InspectionInvariant, PTL
=============================================================================
