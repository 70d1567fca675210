------------------------- MODULE MCEmailExtraction -------------------------
(* Instances of EmailExtraction for TLC.                                   *)
EXTENDS EmailExtraction, TLC

CONSTANTS m1, m2, t1, t2, w1, w2, w3

TwoThreads == m1 :> t1 @@ m2 :> t2
One == m1 :> t1
=============================================================================
