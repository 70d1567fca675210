---------------------------- MODULE MCReviewPage ----------------------------
(* Instances of ReviewPage for TLC.                                        *)
EXTENDS ReviewPage, TLC

CONSTANTS r1, r2, c1, c2

Alike == Permutations({r1, r2}) \cup Permutations({c1, c2})
=============================================================================
