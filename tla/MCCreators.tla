----------------------------- MODULE MCCreators -----------------------------
(* Instances of Creators for TLC.                                          *)
EXTENDS Creators, TLC

CONSTANTS c1, c2, c3, w1, w2, e1, e2, h1, h2, n1, n2, p1, p2, k1, k2, s1, x1

Ids == Permutations({c1, c2, c3})
IdsAndWorkers == Ids \cup Permutations({w1, w2})

R(e, h, n) == [email |-> e, handle |-> h, name |-> n, extra |-> None]
P(p, e, h, n) == [row |-> R(e, h, n), person |-> p]

\* One person behind every value: payloads may combine any of them, so an
\* email or a handle can contradict what a record holds.  One of them brings a
\* column a merge does not fill.
OwnerOne == [v \in {e1, e2, h1, h2, n1, x1} |-> p1]
PayloadRules == ({P(p1, e, h, None) : e \in {e1, e2, None}, h \in {h1, h2, None}}
                    \ {P(p1, None, None, None)})
                \cup {P(p1, None, None, n1), P(p1, e1, None, n1)}
                \cup {[row |-> [R(e1, None, None) EXCEPT !.extra = x1], person |-> p1]}
EditRules == {P(p1, e2, None, None), P(p1, None, h2, None)}
RosterRules == {[row |-> R(None, None, None), person |-> p1, clear |-> {"handle"}]}
\* The activity log is written and never read: runs that state nothing about it
\* need not tell states apart by it.
ButAudit == <<creators, live, about, contracts, stats, task>>
SignerOne == [r \in {k1} |-> p1]

\* Two people with one email, handle and name each; sources know them in parts.
OwnerTwo == [v \in {e1, h1, n1} |-> p1] @@ [v \in {e2, h2, n2} |-> p2]
PayloadRace == {P(p1, e1, None, n1), P(p1, None, h1, n1), P(p1, e1, h1, None),
                P(p2, None, h2, None), P(p2, e2, h2, None)}
EditRace == {P(p1, e1, None, None)}
SignerTwo == [r \in {k1} |-> p1]
=============================================================================
