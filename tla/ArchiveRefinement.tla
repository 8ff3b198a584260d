------------------------- MODULE ArchiveRefinement -------------------------
(***************************************************************************)
(* Archive implements HeadRegister as long as nobody damages it from       *)
(* outside.  A snapshot is complete when its manifest and all its blobs    *)
(* are stored; an uploader has a basis from the moment it has read the     *)
(* pointer until its process ends.                                         *)
(***************************************************************************)
EXTENDS Archive

Based(u) == pc[u] \notin {"idle", "parent"}

Register == INSTANCE HeadRegister WITH
    complete <- { man \in manifests : Files(man) \subseteq blobs },
    head     <- latest,
    basis    <- [u \in Uploader |-> [based |-> Based(u), on |-> parent[u]]],
    registry <- index,
    past     <- ever,
    acked    <- reported

\* Interleaved, interrupted and retried store calls together behave as atomic
\* publications on per-namespace head registers.
ImplementsRegister == Register!Spec
=============================================================================
