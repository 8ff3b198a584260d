---------------------------- MODULE HeadRegister ----------------------------
(***************************************************************************)
(* What an Archive promises to the machines that publish into it: per      *)
(* namespace one register, the head, holding the latest complete snapshot. *)
(* A publication is based on the head it read and takes effect atomically, *)
(* or not at all if the head has moved since; a machine is listed once its *)
(* head exists; an answered publication was the head.  There are no store  *)
(* calls, etags, retries or phases here.                                   *)
(***************************************************************************)
CONSTANTS Machine, Namespace, Prefix, Uploader, Owner, Manifest, None

VARIABLES
    complete,   \* snapshots all of whose content is stored
    head,       \* the latest snapshot of each namespace
    basis,      \* the head a publication in progress is based on
    registry,   \* listed machines
    past,       \* everything that has been a head
    acked       \* snapshots reported to their users as published

vars == <<complete, head, basis, registry, past, acked>>

Idle == [based |-> FALSE, on |-> None]
On(v) == [based |-> TRUE, on |-> v]

Init ==
    /\ complete = {} /\ registry = {} /\ past = {} /\ acked = {}
    /\ head = [n \in Namespace |-> None]
    /\ basis = [u \in Uploader |-> Idle]

Base(u) ==
    /\ basis[u] = Idle
    /\ basis' = [basis EXCEPT ![u] = On(head[Prefix[Owner[u]]])]
    /\ UNCHANGED <<complete, head, registry, past, acked>>

Complete(man) ==
    /\ complete' = complete \cup {man}
    /\ UNCHANGED <<head, basis, registry, past, acked>>

\* The publication, or its failure: either way the uploader's basis may be
\* given up in the same instant.
Advance(u, man) ==
    /\ man \in complete
    /\ basis[u] = On(head[Prefix[Owner[u]]])
    /\ head' = [head EXCEPT ![Prefix[Owner[u]]] = man]
    /\ past' = past \cup {man}
    /\ basis' \in {basis, [basis EXCEPT ![u] = Idle]}
    /\ UNCHANGED <<complete, registry, acked>>

Abandon(u) ==
    /\ basis' = [basis EXCEPT ![u] = Idle]
    /\ UNCHANGED <<complete, head, registry, past, acked>>

List(u) ==
    /\ head[Prefix[Owner[u]]] # None
    /\ registry' = registry \cup {Owner[u]}
    /\ basis' \in {basis, [basis EXCEPT ![u] = Idle]}
    /\ UNCHANGED <<complete, head, past, acked>>

Acknowledge(u, man) ==
    /\ man \in past
    /\ head[Prefix[Owner[u]]] # None
    /\ registry' = registry \cup {Owner[u]}
    /\ acked' = acked \cup {man}
    /\ basis' = [basis EXCEPT ![u] = Idle]
    /\ UNCHANGED <<complete, head, past>>

Next ==
    \/ \E u \in Uploader : Base(u) \/ Abandon(u) \/ List(u)
    \/ \E u \in Uploader, man \in Manifest : Advance(u, man) \/ Acknowledge(u, man)
    \/ \E man \in Manifest : Complete(man)

Spec == Init /\ [][Next]_vars
=============================================================================
