--------------------------- MODULE MCScoutSheets ---------------------------
(* Instances of ScoutSheets for TLC.                                       *)
EXTENDS ScoutSheets, TLC

CONSTANTS s1, s2, h1, h2, c1, c2, r1, r2, e1, e2, p1, p2

Alike == Permutations({c1, c2}) \cup Permutations({r1, r2})
           \cup Permutations({e1, e2}) \cup Permutations({p1, p2})

\* Bound: the requests in flight at a time.
AtMostThree == Cardinality({w \in Worker : task[w] # Idle}) <= 3
=============================================================================
