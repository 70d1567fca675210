----------------------------- MODULE MCConsole -----------------------------
(* Instances of Console for TLC.                                           *)
EXTENDS Console, TLC

CONSTANTS ann, bob, cat, contact, payment

Alike == Permutations({ann, bob, cat}) \cup Permutations({contact, payment})

\* Bound: the requests in flight, or answered and not handled yet.
AtMostFour == BagCardinality(net) <= 4
=============================================================================
