--------------------------- MODULE MCInstagramDm ---------------------------
(* Instances of InstagramDm for TLC.                                       *)
EXTENDS InstagramDm, TLC

CONSTANTS s1, s2, i1, m1, m2, m3, m4, h1, h2, p1, w1

\* One sender, whose account is h1; h2 is a handle of nobody who writes.
Usernames == i1 :> h1
OneSender == [m \in Message |-> i1]
\* A profile, a reel, both, and no link.
EachKind == m1 :> {"profile"} @@ m2 :> {"reel"} @@ m3 :> {"profile", "reel"} @@ m4 :> {}
Both == m1 :> {"profile", "reel"}
Scouts == Permutations({s1, s2})
=============================================================================
