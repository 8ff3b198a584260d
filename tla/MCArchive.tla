----------------------------- MODULE MCArchive -----------------------------
(***************************************************************************)
(* Small instances of Archive.  Uploaders u1 and u2 publish for the same    *)
(* machine m1, u3 for m2.                                                  *)
(***************************************************************************)
EXTENDS ArchiveRefinement, TLC

CONSTANTS m1, m2, n1, n2, u1, u2, u3, s1, s2, b1, b2

OnePrefix    == m1 :> n1
TwoPrefixes  == m1 :> n1 @@ m2 :> n2
OwnersAll    == u1 :> m1 @@ u2 :> m1 @@ u3 :> m2
OwnersSame   == u1 :> m1 @@ u2 :> m1
OneFile      == s1 :> {b1}
GrowingFiles == s1 :> {b1} @@ s2 :> {b1, b2}
=============================================================================
