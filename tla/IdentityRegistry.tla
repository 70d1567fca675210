-------------------------- MODULE IdentityRegistry --------------------------
(***************************************************************************)
(* What the creator table promises about identity, without transactions:  *)
(* a registry that says which records hold each email and each handle.     *)
(* A record claims keys nobody holds, and gives them up only when it is    *)
(* deleted or absorbed by another record; it never trades one key for      *)
(* another of the same kind, and never takes a key from a living record.   *)
(***************************************************************************)
CONSTANTS Key,    \* email addresses and handles
          Kind,   \* Kind[k]: the column k is a value of
          Record  \* record ids

VARIABLE holders  \* the records that hold each key: one at most, ever

OnePerKind(h) ==
    \A j, k \in Key : h[j] \cap h[k] # {} /\ Kind[j] = Kind[k] => j = k

Init == holders = [k \in Key |-> {}]

\* Record id takes keys that were free.
Claim(id) ==
    /\ holders' \in [Key -> SUBSET Record]
    /\ \A k \in Key : holders'[k] # holders[k] => holders[k] = {} /\ holders'[k] = {id}
    /\ OnePerKind(holders')

\* Record id is deleted: its keys are free again.
Release(id) == holders' = [k \in Key |-> holders[k] \ {id}]

\* Record d is folded into s: its keys pass to s or are given up, and s may
\* take free keys at the same time.
Absorb(s, d) ==
    /\ s # d
    /\ holders' \in [Key -> SUBSET Record]
    /\ \A k \in Key : IF holders[k] \subseteq {d} THEN holders'[k] \in {{}, {s}}
                                                  ELSE holders'[k] = holders[k]
    /\ OnePerKind(holders')

Next ==
    /\ holders' # holders
    /\ \E id \in Record : \/ Claim(id)
                          \/ Release(id)
                          \/ \E d \in Record : Absorb(id, d)

Spec == Init /\ [][Next]_holders
=============================================================================
