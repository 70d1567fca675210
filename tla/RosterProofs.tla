---------------------------- MODULE RosterProofs ----------------------------
(***************************************************************************)
(* Proofs about RosterDetails: its types, what an edit of a creator's      *)
(* details shows and leaves alone, what the list of the roster says and    *)
(* what the views of a profile add up to.                                  *)
(*                                                                         *)
(* The edits rest on IInv: a request nothing interfered with since its     *)
(* card was opened still faces the profile the card showed, its merged     *)
(* payout record is that of the creator as it stands, and the contract it  *)
(* read is still the latest, as it was read (Undisturbed).                 *)
(***************************************************************************)
EXTENDS RosterDetails, WellFoundedInduction, FiniteSetTheorems, TLAPS

Keeps(t, items, c) ==
    \A k \in Sent(t, items) : c[k] = t.patch[k]

\* What a save that nothing interfered with finds.
Undisturbed(t) ==
    /\ t.pc # "closed"
    /\ t.pc \in {"form", "read", "write"} => t.seen = Shown
    /\ t.pc = "write" =>
          /\ t.had <=> creator.pay # None
          /\ t.merged = IF Sent(t, Key) = {} THEN None ELSE Merge(creator.pay, t.patch)
    /\ t.pc \in {"latest", "mirror", "answer"} =>
          /\ Keeps(t, Field, creator)
          /\ Sent(t, Key) # {} \/ t.had => creator.pay # None
          /\ Keeps(t, Key, creator.pay)
          /\ \A x \in Item \ DOMAIN t.patch : x \in Field \/ t.had => Shown[x] = t.seen[x]
    /\ t.pc = "mirror" => contracts # <<>> /\ t.latest = contracts[1]
    /\ t.pc = "answer" /\ contracts # <<>> =>
          /\ Keeps(t, Mirrored, contracts[1])
          /\ Keeps(t, Key, contracts[1].pay)

\* What a card and a request have at hand.
Equipped(t) ==
    /\ t.pc = "form" => t.seen \in [Item -> MaybeValue]
    /\ t.pc = "mirror" => t.latest \in Contract

IInv ==
    /\ TypeOK
    /\ \A w \in Tab : Equipped(tab[w])
    /\ \A w \in clean : Undisturbed(tab[w])

-----------------------------------------------------------------------------
(* What is shown.                                                          *)

\* A set of positions has a first.
LEMMA Least ==
    ASSUME NEW T \in SUBSET Nat, T # {}
    PROVE  Min(T) \in T
<1>1. PICK n \in T : \A k \in T : ~(<<k, n>> \in OpToRel(<, Nat))
  BY NatLessThanWellFounded, WFMin
<1>2. \A k \in T : <<k, n>> \in OpToRel(<, Nat) <=> k < n
  BY DEF OpToRel
<1>3. \A k \in T : ~(k < n) /\ k \in Nat /\ n \in Nat
  BY <1>1, <1>2
<1>4. \E m : m \in T /\ \A k \in T : m <= k
  BY <1>3
<1> QED BY <1>4, Zenon DEF Min

\* What stands in for a field is some contract's.
LEMMA FirstHas ==
    ASSUME NEW cs \in Seq(Contract), NEW f, FromContracts(cs, f) # None
    PROVE  \E i \in DOMAIN cs : FromContracts(cs, f) = cs[i][f]
<1> DEFINE having == {i \in DOMAIN cs : cs[i][f] # None}
<1>1. having \in SUBSET Nat /\ having # {}
  BY DEF FromContracts
<1>2. Min(having) \in having
  BY <1>1, Least
<1> QED BY <1>1, <1>2 DEF FromContracts

\* Contracts that agree on a field stand in alike.
LEMMA FirstSame ==
    ASSUME NEW cs \in Seq(Contract), NEW ds \in Seq(Contract), NEW f,
           DOMAIN ds = DOMAIN cs, \A i \in DOMAIN cs : ds[i][f] = cs[i][f]
    PROVE  FromContracts(ds, f) = FromContracts(cs, f)
<1> DEFINE having == {i \in DOMAIN cs : cs[i][f] # None}
<1>1. {i \in DOMAIN ds : ds[i][f] # None} = having
  OBVIOUS
<1>2. CASE having = {}
  BY <1>1, <1>2 DEF FromContracts
<1>3. CASE having # {}
  <2>0. having \in SUBSET Nat
    OBVIOUS
  <2>1. Min(having) \in having
    BY <1>3, <2>0, Least
  <2>2. ds[Min(having)][f] = cs[Min(having)][f]
    BY <2>1
  <2> QED BY <1>1, <1>3, <2>2 DEF FromContracts
<1> QED BY <1>2, <1>3

\* What stands in is a value, or a whole payout record.
LEMMA FirstTyped ==
    ASSUME NEW cs \in Seq(Contract)
    PROVE  /\ \A f \in Field : FromContracts(cs, f) \in MaybeValue
           /\ FromContracts(cs, "pay") \in Payout \cup {None}
<1>1. ASSUME NEW f \in Field PROVE FromContracts(cs, f) \in MaybeValue
  <2>1. CASE FromContracts(cs, f) = None
    BY <2>1 DEF MaybeValue
  <2>2. CASE FromContracts(cs, f) # None
    <3>1. PICK i \in DOMAIN cs : FromContracts(cs, f) = cs[i][f]
      BY <2>2, FirstHas
    <3>2. cs[i] \in Contract
      OBVIOUS
    <3> QED BY <3>1, <3>2 DEF Contract, Field
  <2> QED BY <2>1, <2>2
<1>2. FromContracts(cs, "pay") \in Payout \cup {None}
  <2>1. CASE FromContracts(cs, "pay") # None
    <3>1. PICK i \in DOMAIN cs : FromContracts(cs, "pay") = cs[i].pay
      BY <2>1, FirstHas
    <3>2. cs[i] \in Contract
      OBVIOUS
    <3> QED BY <3>1, <3>2 DEF Contract
  <2> QED BY <2>1
<1> QED BY <1>1, <1>2

\* The profile of a creator with these contracts.
LEMMA ProfileIs ==
    ASSUME NEW c, NEW cs
    PROVE  /\ DOMAIN Profile(c, cs) = Item
           /\ Profile(c, cs)["name"] = Or(FromContracts(cs, "name"), c["name"])
           /\ \A f \in Field \ {"name"} : Profile(c, cs)[f] = Or(c[f], FromContracts(cs, f))
           /\ \A k \in Key : c.pay # None => Profile(c, cs)[k] = c.pay[k]
           /\ \A k \in Key : c.pay = None =>
                  Profile(c, cs)[k] = IF FromContracts(cs, "pay") = None THEN None
                                      ELSE FromContracts(cs, "pay")[k]
<1>1. Profile(c, cs) = [x \in Item |-> IF x \in Field THEN Contact(c, cs)[x] ELSE Payment(c, cs)[x]]
  BY DEF Profile, Item
<1>2. \A f \in Field : Profile(c, cs)[f] = Contact(c, cs)[f]
  BY <1>1 DEF Item
<1>3. \A k \in Key : Profile(c, cs)[k] = Payment(c, cs)[k]
  BY <1>1, KeyAssumption DEF Item
<1>4. "name" \in Field
  BY DEF Field
<1>5. DOMAIN Profile(c, cs) = Item
  BY <1>1
<1>6. Profile(c, cs)["name"] = Or(FromContracts(cs, "name"), c["name"])
  BY <1>2, <1>4 DEF Contact
<1>7. \A f \in Field \ {"name"} : Profile(c, cs)[f] = Or(c[f], FromContracts(cs, f))
  BY <1>2 DEF Contact
<1>8. \A k \in Key : c.pay # None => Profile(c, cs)[k] = c.pay[k]
  BY <1>3 DEF Payment, Or
<1>9. \A k \in Key : c.pay = None =>
          Profile(c, cs)[k] = IF FromContracts(cs, "pay") = None THEN None
                              ELSE FromContracts(cs, "pay")[k]
  BY <1>3 DEF Payment, Or
<1> QED BY <1>5, <1>6, <1>7, <1>8, <1>9

\* A profile has a value, or None, for every item.
LEMMA ProfileTyped ==
    ASSUME NEW c, Person(c), NEW cs \in Seq(Contract)
    PROVE  Profile(c, cs) \in [Item -> MaybeValue]
<1>1. Profile(c, cs)["name"] \in MaybeValue
  BY ProfileIs, FirstTyped DEF Or, Person, Field
<1>2. \A f \in Field \ {"name"} : Profile(c, cs)[f] \in MaybeValue
  BY ProfileIs, FirstTyped DEF Or, Person
<1>3. \A k \in Key : Profile(c, cs)[k] \in MaybeValue
  <2>1. CASE c.pay # None
    BY <2>1, ProfileIs DEF Person, Payout
  <2>2. CASE c.pay = None
    <3>1. FromContracts(cs, "pay") # None => FromContracts(cs, "pay") \in Payout
      BY FirstTyped
    <3> QED BY <2>2, <3>1, ProfileIs DEF Payout, MaybeValue
  <2> QED BY <2>1, <2>2
<1>4. \E p : p = Profile(c, cs) /\ p = [x \in DOMAIN p |-> p[x]]
  BY DEF Profile
<1> QED BY <1>1, <1>2, <1>3, <1>4, ProfileIs DEF Item

-----------------------------------------------------------------------------
(* Types.                                                                  *)

\* None is no value and no payout record.
LEMMA NoneApart ==
    /\ None \notin Payout
    /\ None \notin Value
  BY NoneAssumption

\* A step of a tab leaves the others as they were.
LEMMA OneStep ==
    ASSUME tab \in [Tab -> Edit], NEW w \in Tab, NEW t \in Edit, Become(w, t)
    PROVE  /\ tab' \in [Tab -> Edit]
           /\ tab'[w] = t
           /\ \A v \in Tab : v # w => tab'[v] = tab[v]
  BY DEF Become

\* Layering keys over a payout record gives one.
LEMMA MergeTyped ==
    ASSUME NEW pay \in Payout \cup {None}, NEW p \in Patch
    PROVE  /\ Merge(pay, p) \in Payout
           /\ \A k \in Key \cap DOMAIN p : Merge(pay, p)[k] = p[k]
           /\ \A k \in Key \ DOMAIN p : pay # None => Merge(pay, p)[k] = pay[k]
<1>1. \A x \in DOMAIN p : p[x] \in MaybeValue
  BY DEF Patch
<1>2. Or(pay, NoKeys) \in Payout
  BY DEF Or, NoKeys, Payout, MaybeValue
<1>3. pay # None => Or(pay, NoKeys) = pay
  BY DEF Or
<1> QED BY <1>1, <1>2, <1>3 DEF Merge, Payout

\* What a card may send.
LEMMA PatchTyped ==
    ASSUME NEW seen \in [Item -> MaybeValue],
           NEW p \in ContactPatches(seen) \cup PaymentPatches(seen)
    PROVE  p \in Patch
<1>1. CASE p \in ContactPatches(seen)
  <2>1. PICK x \in Field \cup TaxKey : p \in [{x} -> MaybeValue \ {seen[x]}]
    BY <1>1 DEF ContactPatches
  <2>2. p \in [{x} -> MaybeValue] /\ {x} \in SUBSET Item
    BY <2>1 DEF Item, Key
  <2> QED BY <2>2 DEF Patch
<1>2. CASE p \in PaymentPatches(seen)
  <2>1. PICK x \in BankKey, v \in MaybeValue :
            p = [k \in BankKey |-> IF k = x THEN v ELSE seen[k]]
    BY <1>2 DEF PaymentPatches
  <2>2. p \in [BankKey -> MaybeValue] /\ BankKey \in SUBSET Item
    BY <2>1 DEF Item, Key
  <2> QED BY <2>2 DEF Patch
<1> QED BY <1>1, <1>2

\* A contract the mirror writes is a contract, and the same one.
LEMMA MirrorTyped ==
    ASSUME NEW c \in Contract, NEW t \in Edit, t.latest \in Contract
    PROVE  /\ MirrorOnto(c, t) \in Contract
           /\ MirrorOnto(c, t).id = c.id
           /\ \A f \in Field \ DOMAIN t.patch : MirrorOnto(c, t)[f] = c[f]
<1>1. t.patch \in Patch
  BY DEF Edit
<1>2. \A x \in DOMAIN t.patch : t.patch[x] \in MaybeValue
  BY <1>1 DEF Patch
<1>3. t.latest.pay \in Payout \cup {None}
  BY DEF Contract
<1>4. Merge(t.latest.pay, t.patch) \in Payout
  BY <1>1, <1>3, MergeTyped
<1>5. Mirrored \subseteq Field /\ "pay" \notin Field /\ "id" \notin Field
  BY DEF Mirrored, Field
<1>6. CASE c.id # t.latest.id
  BY <1>6 DEF MirrorOnto
<1>7. CASE c.id = t.latest.id
  <2>1. PICK d : d = [f \in DOMAIN c |->
            IF f \in Sent(t, Mirrored) THEN t.patch[f]
            ELSE IF f = "pay" /\ Sent(t, Key) # {} THEN Merge(t.latest.pay, t.patch) ELSE c[f]]
    OBVIOUS
  <2>2. MirrorOnto(c, t) = d
    BY <1>7, <2>1 DEF MirrorOnto
  <2>3. \A f \in Field : d[f] \in MaybeValue /\ (f \notin DOMAIN t.patch => d[f] = c[f])
    BY <1>2, <1>5, <2>1 DEF Contract, Field, Sent
  <2>4. d.pay \in Payout \cup {None} /\ d.id = c.id
    BY <1>4, <1>5, <2>1 DEF Contract, Sent, Mirrored
  <2>5. d.campaign = c.campaign /\ d.status = c.status
    BY <2>1 DEF Contract, Sent, Mirrored
  <2>6. d \in Contract
    BY <2>1, <2>3, <2>4, <2>5 DEF Contract, Field
  <2> QED BY <2>2, <2>3, <2>4, <2>6
<1> QED BY <1>6, <1>7

\* A closed card is typed.
LEMMA ClosedTyped == Closed \in Edit
<1>1. <<>> \in [{} -> MaybeValue] /\ {} \in SUBSET Item
  OBVIOUS
<1>2. <<>> \in Patch
  BY <1>1 DEF Patch
<1> QED BY <1>2 DEF Closed, Edit

-----------------------------------------------------------------------------
(* Steps.                                                                  *)

\* A tab moves and the record stays.
LEMMA QuietStep ==
    ASSUME IInv, UNCHANGED record, NEW w \in Tab, NEW u \in Edit, Become(w, u),
           Equipped(u),
           clean' \in SUBSET (clean \cup {w}), w \in clean' => Undisturbed(u),
           UNCHANGED import, saves' \in Nat, imports' \in Nat
    PROVE  IInv'
<1>1. TypeOK'
  BY OneStep DEF IInv, TypeOK, record
<1>2. \A v \in Tab : Equipped(tab'[v])
  BY OneStep DEF IInv, TypeOK, Equipped
<1>3. ASSUME NEW v \in clean' PROVE Undisturbed(tab'[v])
  BY <1>3, OneStep DEF IInv, TypeOK
<1>4. ASSUME NEW v \in clean' PROVE Undisturbed(tab[v])'
  BY <1>3, <1>4 DEF Undisturbed, Keeps, Shown, record
<1> QED BY <1>1, <1>2, <1>4 DEF IInv, Equipped

\* A tab writes: what the others have begun is disturbed.
LEMMA WriteStep ==
    ASSUME IInv, NEW w \in Tab, NEW u \in Edit, Become(w, u), u.pc \notin {"form", "mirror"},
           Interfere(w), w \in clean' => Undisturbed(tab[w])',
           Person(creator)', Agreements(contracts)',
           UNCHANGED <<stats, import, saves, imports>>
    PROVE  IInv'
<1>1. TypeOK'
  BY OneStep DEF IInv, TypeOK, Interfere
<1>2. \A v \in Tab : Equipped(tab'[v])
  BY OneStep DEF IInv, TypeOK, Equipped
<1>3. ASSUME NEW v \in clean' PROVE v = w
  <2>1. v \in clean /\ (v = w \/ tab[v].pc = "closed")
    BY DEF Interfere, At, IInv, TypeOK
  <2> QED BY <2>1 DEF IInv, Undisturbed
<1>4. \A v \in clean' : Undisturbed(tab[v])'
  BY <1>3
<1> QED BY <1>1, <1>2, <1>4 DEF IInv, Equipped

\* A contract arrives: every edit is disturbed.
LEMMA ArrivalStep ==
    ASSUME IInv, UNCHANGED <<stats, tab, saves>>, clean' = {},
           Person(creator)', Agreements(contracts)',
           import' \in [ref : ContractRef, term : Term] \cup {None}, imports' \in Nat
    PROVE  IInv'
  BY DEF IInv, TypeOK, Equipped

\* What is shown is a profile.
LEMMA ShownTyped == ASSUME IInv PROVE Shown \in [Item -> MaybeValue]
  BY ProfileTyped DEF Shown, IInv, TypeOK, Agreements

\* The steps of a request.
LEMMA OpenStep == ASSUME IInv, NEW w \in Tab, OpenCard(w) PROVE IInv'
<1>1. PICK u : u = [Closed EXCEPT !.pc = "form", !.seen = Shown]
  OBVIOUS
<1>2. Become(w, u)
  BY <1>1 DEF OpenCard
<1>3. u \in Edit /\ u.pc = "form" /\ u.seen = Shown
  BY <1>1, ShownTyped, ClosedTyped DEF Edit, Closed
<1>4. Undisturbed(u)
  BY <1>3 DEF Undisturbed
<1>5. /\ UNCHANGED record /\ UNCHANGED import
      /\ clean' \in SUBSET (clean \cup {w}) /\ saves' \in Nat /\ imports' \in Nat
  BY DEF OpenCard, IInv, TypeOK
<1>6. Equipped(u)
  BY <1>3, ShownTyped DEF Equipped
<1> QED BY <1>2, <1>3, <1>4, <1>5, <1>6, QuietStep

\* What a card sends differs from what it saw.
LEMMA SubmitStep == ASSUME IInv, NEW w \in Tab, Submit(w) PROVE IInv'
<1>1. PICK t \in Edit : t = tab[w]
  BY DEF IInv, TypeOK
<1>2. /\ UNCHANGED record /\ UNCHANGED import
      /\ clean' \in SUBSET (clean \cup {w}) /\ saves' \in Nat /\ imports' \in Nat
      /\ clean' = clean /\ t.pc = "form"
  BY <1>1 DEF Submit, IInv, TypeOK, At
<1>3. PICK p \in ContactPatches(t.seen) \cup PaymentPatches(t.seen) :
          Become(w, [t EXCEPT !.pc = "read", !.patch = p])
  BY <1>1 DEF Submit
<1>4. PICK u : u = [t EXCEPT !.pc = "read", !.patch = p]
  OBVIOUS
<1>5. u.pc = "read" /\ u.seen = t.seen
  BY <1>4 DEF Edit
<1>6. t.seen \in [Item -> MaybeValue]
  BY <1>1, <1>2 DEF IInv, Equipped
<1>7. u \in Edit
  BY <1>4, <1>6, PatchTyped DEF Edit
<1>8. Equipped(u)
  BY <1>5 DEF Equipped
<1>9. w \in clean' => Undisturbed(u)
  BY <1>1, <1>2, <1>5 DEF IInv, Undisturbed
<1> QED BY <1>2, <1>3, <1>4, <1>7, <1>8, <1>9, QuietStep

\* The merged record is that of the creator as read.
LEMMA ReadStep == ASSUME IInv, NEW w \in Tab, ReadCreator(w) PROVE IInv'
<1>1. PICK t \in Edit : t = tab[w]
  BY DEF IInv, TypeOK
<1>2. /\ UNCHANGED record /\ UNCHANGED import
      /\ clean' \in SUBSET (clean \cup {w}) /\ saves' \in Nat /\ imports' \in Nat
      /\ clean' = clean /\ t.pc = "read"
  BY <1>1 DEF ReadCreator, IInv, TypeOK, At
<1>3. PICK had : had = (creator.pay # None)
  OBVIOUS
<1>4. PICK m : m = IF Sent(t, Key) = {} THEN None ELSE Merge(creator.pay, t.patch)
  OBVIOUS
<1>5. PICK u : u = [t EXCEPT !.pc = "write", !.had = had, !.merged = m]
  OBVIOUS
<1>6. Become(w, u)
  BY <1>1, <1>3, <1>4, <1>5 DEF ReadCreator
<1>7. m \in Payout \cup {None}
  BY <1>4, MergeTyped DEF IInv, TypeOK, Person, Edit
<1>8. u \in Edit /\ u.pc = "write" /\ u.had = had /\ u.merged = m /\ u.seen = t.seen
      /\ u.patch = t.patch
  BY <1>3, <1>5, <1>7 DEF Edit
<1>9. Equipped(u)
  BY <1>8 DEF Equipped
<1>10. w \in clean' => Undisturbed(u)
  BY <1>1, <1>2, <1>3, <1>4, <1>8 DEF IInv, Undisturbed, Sent
<1> QED BY <1>2, <1>6, <1>8, <1>9, <1>10, QuietStep

\* A request that ends leaves nothing to keep.
LEMMA CloseStep == ASSUME IInv, NEW w \in Tab, WriteRefused(w) \/ Reply(w) PROVE IInv'
<1>1. /\ UNCHANGED record /\ UNCHANGED import /\ Become(w, Closed)
      /\ clean' \in SUBSET (clean \cup {w}) /\ saves' \in Nat /\ imports' \in Nat
      /\ w \notin clean'
  BY DEF WriteRefused, Reply, IInv, TypeOK
<1>2. Equipped(Closed)
  BY DEF Equipped, Closed
<1> QED BY <1>1, <1>2, ClosedTyped, QuietStep

\* A request that finds no contract to mirror onto is done.
LEMMA LatestStep == ASSUME IInv, NEW w \in Tab, FindLatest(w) PROVE IInv'
<1>1. PICK t \in Edit : t = tab[w]
  BY DEF IInv, TypeOK
<1>2. /\ UNCHANGED record /\ UNCHANGED import
      /\ clean' \in SUBSET (clean \cup {w}) /\ saves' \in Nat /\ imports' \in Nat
      /\ clean' = clean /\ t.pc = "latest"
  BY <1>1 DEF FindLatest, IInv, TypeOK, At
<1>3. CASE contracts = <<>> \/ Sent(t, Mirrored \cup Key) = {}
  <2>1. PICK u : u = [t EXCEPT !.pc = "answer"]
    OBVIOUS
  <2>2. Become(w, u)
    BY <1>1, <1>3, <2>1 DEF FindLatest
  <2>3. u \in Edit /\ u.pc = "answer" /\ u.had = t.had /\ u.seen = t.seen /\ u.patch = t.patch
    BY <2>1 DEF Edit
  <2>4. Equipped(u)
    BY <2>3 DEF Equipped
  <2>5. contracts # <<>> => Sent(u, Mirrored) = {} /\ Sent(u, Key) = {}
    BY <1>3, <2>3 DEF Sent
  <2>6. w \in clean' => Undisturbed(u)
    BY <1>1, <1>2, <2>3, <2>5 DEF IInv, Undisturbed, Keeps, Sent
  <2> QED BY <1>2, <2>2, <2>3, <2>4, <2>6, QuietStep
<1>4. CASE ~(contracts = <<>> \/ Sent(t, Mirrored \cup Key) = {})
  <2>1. PICK u : u = [t EXCEPT !.pc = "mirror", !.latest = contracts[1]]
    OBVIOUS
  <2>2. Become(w, u)
    BY <1>1, <1>4, <2>1 DEF FindLatest
  <2>3. contracts[1] \in Contract
    BY <1>4 DEF IInv, TypeOK, Agreements
  <2>4. u \in Edit /\ u.pc = "mirror" /\ u.had = t.had /\ u.seen = t.seen /\ u.patch = t.patch
        /\ u.latest = contracts[1]
    BY <2>1, <2>3 DEF Edit
  <2>5. Equipped(u)
    BY <2>3, <2>4 DEF Equipped
  <2>6. w \in clean' => Undisturbed(u)
    BY <1>1, <1>2, <1>4, <2>4 DEF IInv, Undisturbed, Keeps, Sent
  <2> QED BY <1>2, <2>2, <2>4, <2>5, <2>6, QuietStep
<1> QED BY <1>3, <1>4

\* The write shows what was sent, and leaves the other items as they were shown.
LEMMA CreatorStep == ASSUME IInv, NEW w \in Tab, WriteCreator(w) PROVE IInv'
<1>1. PICK t \in Edit : t = tab[w]
  BY DEF IInv, TypeOK
<1>2. PICK p \in Patch : p = t.patch
  BY DEF Edit
<1>3. PICK m \in Payout \cup {None} : m = t.merged
  BY DEF Edit
<1>4. /\ t.pc = "write" /\ Interfere(w)
      /\ UNCHANGED contracts /\ UNCHANGED <<stats, import, saves, imports>>
      /\ creator' = [c \in DOMAIN creator |->
                        IF c \in Sent(t, Field) THEN p[c]
                        ELSE IF c = "pay" THEN Or(m, creator.pay) ELSE creator[c]]
  BY <1>1, <1>2, <1>3 DEF WriteCreator, At
<1>5. Person(creator) /\ Agreements(contracts)
  BY DEF IInv, TypeOK
<1>6. "pay" \notin Field /\ \A x \in DOMAIN p : p[x] \in MaybeValue
  BY DEF Field, Patch
<1>7. /\ \A f \in Field \cap DOMAIN p : creator'[f] = p[f]
      /\ \A f \in Field \ DOMAIN p : creator'[f] = creator[f]
  BY <1>2, <1>4, <1>5, <1>6 DEF Person, Sent
<1>8. creator'.pay = Or(m, creator.pay)
  BY <1>2, <1>4, <1>5, <1>6 DEF Person, Sent
<1>9. Person(creator)'
  <2>1. DOMAIN creator' = DOMAIN creator
    BY <1>4
  <2>2. \A f \in Field : creator'[f] \in MaybeValue
    BY <1>5, <1>6, <1>7 DEF Person
  <2>3. creator'.pay \in Payout \cup {None}
    BY <1>5, <1>8 DEF Or, Person
  <2>4. \A n \in Rate : creator'[n] = creator[n]
    BY <1>4, <1>5 DEF Person, Rate, Sent, Field
  <2> QED BY <1>5, <2>1, <2>2, <2>3, <2>4 DEF Person
<1>10. PICK u : u = [t EXCEPT !.pc = "latest"]
  OBVIOUS
<1>11. Become(w, u)
  BY <1>1, <1>10 DEF WriteCreator
<1>12. u \in Edit /\ u.pc = "latest" /\ u.had = t.had /\ u.seen = t.seen /\ u.patch = p
  BY <1>2, <1>10 DEF Edit
<1>13. tab'[w] = u
  BY <1>11, <1>12, OneStep DEF IInv, TypeOK
<1>14. ASSUME w \in clean' PROVE Undisturbed(tab[w])'
  <2>1. Undisturbed(t)
    BY <1>1, <1>4, <1>14 DEF IInv, Interfere
  <2>2. /\ t.seen = Shown
        /\ t.had <=> creator.pay # None
        /\ m = IF Key \cap DOMAIN p = {} THEN None ELSE Merge(creator.pay, p)
    BY <1>2, <1>3, <1>4, <2>1 DEF Undisturbed, Sent
  <2>3. Keeps(u, Field, creator)'
    BY <1>7, <1>12 DEF Keeps, Sent
  <2>4. /\ Keeps(u, Key, creator.pay)' /\ (Sent(u, Key) # {} \/ u.had => creator'.pay # None)
        /\ \A k \in Key \ DOMAIN p : u.had => creator'.pay # None /\ creator'.pay[k] = creator.pay[k]
    <3>1. CASE Key \cap DOMAIN p = {}
      <4>1. creator'.pay = creator.pay
        BY <1>8, <2>2, <3>1 DEF Or
      <4>2. Keeps(u, Key, creator.pay)' /\ (Sent(u, Key) # {} \/ u.had => creator'.pay # None)
        BY <1>12, <2>2, <3>1, <4>1 DEF Keeps, Sent
      <4>3. \A k \in Key \ DOMAIN p : u.had => creator'.pay # None /\ creator'.pay[k] = creator.pay[k]
        BY <1>12, <2>2, <4>1
      <4> QED BY <4>2, <4>3
    <3>2. CASE Key \cap DOMAIN p # {}
      <4>1. m = Merge(creator.pay, p) /\ m # None
        BY <1>5, <2>2, <3>2, MergeTyped, NoneApart DEF Person
      <4>2. creator'.pay = Merge(creator.pay, p) /\ creator'.pay # None
        BY <1>8, <4>1 DEF Or
      <4>3. Keeps(u, Key, creator.pay)' /\ (Sent(u, Key) # {} \/ u.had => creator'.pay # None)
        <5>1. creator.pay \in Payout \cup {None}
          BY <1>5 DEF Person
        <5>2. \A k \in Key \cap DOMAIN p : creator'.pay[k] = p[k]
          BY <4>2, <5>1, MergeTyped
        <5> QED BY <1>12, <4>2, <5>2 DEF Keeps, Sent
      <4>4. \A k \in Key \ DOMAIN p : u.had => creator'.pay # None /\ creator'.pay[k] = creator.pay[k]
        BY <1>5, <1>12, <2>2, <4>2, MergeTyped DEF Person
      <4> QED BY <4>3, <4>4
    <3> QED BY <3>1, <3>2
  <2>5. ASSUME NEW x \in Item \ DOMAIN p, x \in Field \/ u.had
        PROVE  Shown'[x] = u.seen[x]
    <3>1. Shown = Profile(creator, contracts) /\ Shown' = Profile(creator', contracts)
      BY <1>4 DEF Shown
    <3>2. CASE x = "name"
      BY <1>7, <1>12, <2>2, <2>5, <3>1, <3>2, ProfileIs DEF Field
    <3>3. CASE x \in Field \ {"name"}
      BY <1>7, <1>12, <2>2, <2>5, <3>1, <3>3, ProfileIs
    <3>4. CASE x \notin Field
      <4>1. x \in Key /\ u.had
        BY <2>5, <3>4 DEF Item
      <4>2. creator.pay # None /\ creator'.pay # None /\ creator'.pay[x] = creator.pay[x]
        BY <1>12, <2>2, <2>4, <2>5, <4>1
      <4>3. Profile(creator, contracts)[x] = creator.pay[x]
        BY <4>1, <4>2, ProfileIs
      <4>4. Profile(creator', contracts)[x] = creator'.pay[x]
        BY <4>1, <4>2, ProfileIs
      <4> QED BY <1>12, <2>2, <3>1, <4>2, <4>3, <4>4
    <3> QED BY <3>2, <3>3, <3>4
  <2> QED BY <1>12, <1>13, <2>3, <2>4, <2>5 DEF Undisturbed, Keeps, Sent
<1>15. Agreements(contracts)'
  BY <1>4, <1>5 DEF Agreements
<1>16. u.pc \notin {"form", "mirror"}
  BY <1>12
<1> QED BY <1>4, <1>9, <1>11, <1>12, <1>14, <1>15, <1>16, WriteStep

\* The mirror brings the latest contract in line and stands in for nothing new.
LEMMA MirrorStep == ASSUME IInv, NEW w \in Tab, Mirror(w) PROVE IInv'
<1>1. PICK t \in Edit : t = tab[w]
  BY DEF IInv, TypeOK
<1>2. PICK p \in Patch : p = t.patch
  BY DEF Edit
<1>3. /\ t.pc = "mirror" /\ Interfere(w)
      /\ UNCHANGED creator /\ UNCHANGED <<stats, import, saves, imports>>
      /\ contracts' = [i \in DOMAIN contracts |-> MirrorOnto(contracts[i], t)]
  BY <1>1 DEF Mirror, At
<1>4. t.latest \in Contract
  BY <1>1, <1>3 DEF IInv, Equipped
<1>5. Person(creator) /\ Agreements(contracts)
  BY DEF IInv, TypeOK
<1>6. \A i \in DOMAIN contracts : contracts[i] \in Contract
  BY <1>5 DEF Agreements
<1>7. \A i \in DOMAIN contracts :
          /\ contracts'[i] = MirrorOnto(contracts[i], t)
          /\ contracts'[i] \in Contract /\ contracts'[i].id = contracts[i].id
          /\ \A f \in Field \ DOMAIN p : contracts'[i][f] = contracts[i][f]
  BY <1>2, <1>3, <1>4, <1>6, MirrorTyped
<1>8. DOMAIN contracts' = DOMAIN contracts
  BY <1>3
<1>9. Agreements(contracts)'
  <2>1. contracts' \in Seq(Contract)
    BY <1>3, <1>5, <1>7 DEF Agreements
  <2> QED BY <1>5, <1>7, <1>8, <2>1 DEF Agreements
<1>10. PICK u : u = [t EXCEPT !.pc = "answer"]
  OBVIOUS
<1>11. Become(w, u)
  BY <1>1, <1>10 DEF Mirror
<1>12. u \in Edit /\ u.pc = "answer" /\ u.had = t.had /\ u.seen = t.seen /\ u.patch = p
  BY <1>2, <1>10 DEF Edit
<1>13. tab'[w] = u
  BY <1>11, <1>12, OneStep DEF IInv, TypeOK
<1>14. ASSUME w \in clean' PROVE Undisturbed(tab[w])'
  <2>1. Undisturbed(t)
    BY <1>1, <1>3, <1>14 DEF IInv, Interfere
  <2>2. /\ Keeps(t, Field, creator)
        /\ Sent(t, Key) # {} \/ t.had => creator.pay # None
        /\ Keeps(t, Key, creator.pay)
        /\ \A x \in Item \ DOMAIN p : x \in Field \/ t.had => Shown[x] = t.seen[x]
        /\ contracts # <<>> /\ t.latest = contracts[1]
    BY <1>2, <1>3, <2>1 DEF Undisturbed
  <2>3. 1 \in DOMAIN contracts
    BY <1>5, <2>2 DEF Agreements
  <2>4. /\ \A f \in Mirrored \cap DOMAIN p : contracts'[1][f] = p[f]
        /\ Key \cap DOMAIN p # {} => contracts'[1].pay = Merge(contracts[1].pay, p)
    <3>1. contracts'[1] = [f \in DOMAIN contracts[1] |->
              IF f \in Sent(t, Mirrored) THEN p[f]
              ELSE IF f = "pay" /\ Sent(t, Key) # {} THEN Merge(contracts[1].pay, p)
                   ELSE contracts[1][f]]
      BY <1>2, <1>7, <2>2, <2>3 DEF MirrorOnto
    <3>2. contracts[1] \in Contract
      BY <1>6, <2>3
    <3> QED BY <1>2, <3>1, <3>2 DEF Contract, Sent, Mirrored
  <2>5. Keeps(u, Mirrored, contracts[1])'
    BY <1>12, <2>4 DEF Keeps, Sent
  <2>6. Keeps(u, Key, contracts[1].pay)'
    <3>1. contracts[1].pay \in Payout \cup {None}
      BY <1>6, <2>3 DEF Contract
    <3> QED BY <1>12, <2>4, <3>1, MergeTyped DEF Keeps, Sent
  <2>7. ASSUME NEW x \in Item \ DOMAIN p, x \in Field \/ u.had
        PROVE  Shown'[x] = u.seen[x]
    <3>1. Shown = Profile(creator, contracts) /\ Shown' = Profile(creator, contracts')
      BY <1>3 DEF Shown
    <3>2. CASE x \in Field
      <4>1. contracts \in Seq(Contract) /\ contracts' \in Seq(Contract)
        BY <1>5, <1>9 DEF Agreements
      <4>2. \A i \in DOMAIN contracts : contracts'[i][x] = contracts[i][x]
        BY <1>7, <2>7, <3>2
      <4>3. FromContracts(contracts', x) = FromContracts(contracts, x)
        BY <1>8, <4>1, <4>2, FirstSame
      <4>4. Profile(creator, contracts')[x] = Profile(creator, contracts)[x]
        BY <3>2, <4>3, ProfileIs
      <4> QED BY <1>12, <2>2, <2>7, <3>1, <4>4
    <3>3. CASE x \notin Field
      <4>1. x \in Key /\ t.had /\ creator.pay # None
        BY <1>12, <2>2, <2>7, <3>3 DEF Item
      <4>2. Profile(creator, contracts')[x] = Profile(creator, contracts)[x]
        BY <4>1, ProfileIs
      <4> QED BY <1>12, <2>2, <2>7, <3>1, <4>2
    <3> QED BY <3>2, <3>3
  <2>8. /\ Keeps(u, Field, creator)' /\ Keeps(u, Key, creator.pay)'
        /\ Sent(u, Key) # {} \/ u.had => creator'.pay # None
    BY <1>2, <1>3, <1>12, <2>2 DEF Keeps, Sent
  <2> QED BY <1>12, <1>13, <2>5, <2>6, <2>7, <2>8 DEF Undisturbed, Keeps, Sent
<1>15. Person(creator)'
  BY <1>3, <1>5 DEF Person
<1>16. u.pc \notin {"form", "mirror"}
  BY <1>12
<1> QED BY <1>3, <1>9, <1>11, <1>12, <1>14, <1>15, <1>16, WriteStep

\* A contract arriving.
LEMMA ImportCreatorStep == ASSUME IInv, ImportCreator PROVE IInv'
<1>1. PICK r \in ContractRef, term \in Term :
          /\ import' = [ref |-> r, term |-> term]
          /\ creator' = [creator EXCEPT !.name = Or(term.name, @), !.phone = Or(term.phone, @),
                                        !.campaign = Or(term.campaign, @),
                                        !.email = IF @ = None /\ term.email \notin Taken
                                                  THEN term.email ELSE @]
  BY DEF ImportCreator
<1>2. Person(creator) /\ Agreements(contracts)
  BY DEF IInv, TypeOK
<1>3. term \in Terms
  BY TermAssumption
<1>4. Person(creator)'
  <2>1. DOMAIN creator' = DOMAIN creator /\ creator'.pay = creator.pay
        /\ creator'.address = creator.address
    BY <1>1, <1>2 DEF Person, Field
  <2>2. creator'.name \in MaybeValue /\ creator'.phone \in MaybeValue
        /\ creator'.email \in MaybeValue
    BY <1>1, <1>2, <1>3 DEF Person, Field, Terms, Or
  <2>3. \A n \in Rate : creator'[n] = creator[n]
    BY <1>1, <1>2 DEF Person, Rate
  <2> QED BY <1>2, <2>1, <2>2, <2>3 DEF Person, Field
<1>5. UNCHANGED <<stats, tab, saves>> /\ clean' = {} /\ imports' \in Nat /\ UNCHANGED contracts
  BY DEF ImportCreator, IInv, TypeOK
<1>6. import' \in [ref : ContractRef, term : Term] \cup {None}
  BY <1>1
<1>7. Agreements(contracts)'
  BY <1>2, <1>5 DEF Agreements
<1> QED BY <1>4, <1>5, <1>6, <1>7, ArrivalStep

\* A contract of a known token takes the terms, one of a new token is the newest.
LEMMA ImportContractStep == ASSUME IInv, ImportContract PROVE IInv'
<1>1. PICK terms \in Terms, r \in ContractRef : terms = import.term /\ r = import.ref
  BY TermAssumption DEF ImportContract, IInv, TypeOK
<1>2. Person(creator) /\ Agreements(contracts)
  BY DEF IInv, TypeOK
<1> DEFINE known == {i \in DOMAIN contracts : contracts[i].id = r}
<1>3. ASSUME known = {} PROVE Agreements(contracts)'
  <2>1. PICK new : new = [f \in DOMAIN terms \cup {"id"} |-> IF f = "id" THEN r ELSE terms[f]]
    OBVIOUS
  <2>2. contracts' = <<new>> \o contracts
    BY <1>1, <1>3, <2>1 DEF ImportContract
  <2>3. new \in Contract /\ new.id = r
    <3>1. DOMAIN new = {"id", "campaign", "status", "name", "email", "phone", "address", "pay"}
      BY <2>1 DEF Terms
    <3> QED BY <2>1, <3>1 DEF Terms, Contract
  <2>4. contracts \in Seq(Contract)
    BY <1>2 DEF Agreements
  <2>5. /\ contracts' \in Seq(Contract)
        /\ DOMAIN contracts' = 1 .. Len(contracts) + 1
        /\ contracts'[1] = new
        /\ \A i \in 2 .. Len(contracts) + 1 : contracts'[i] = contracts[i - 1]
    BY <2>2, <2>3, <2>4
  <2>6. ASSUME NEW i \in DOMAIN contracts', NEW j \in DOMAIN contracts',
               contracts'[i].id = contracts'[j].id
        PROVE  i = j
    <3>1. \A n \in 2 .. Len(contracts) + 1 : n - 1 \in DOMAIN contracts /\ contracts'[n].id # r
      BY <1>3, <2>4, <2>5
    <3>2. CASE i = 1 \/ j = 1
      BY <2>3, <2>5, <2>6, <3>1, <3>2
    <3>3. CASE i # 1 /\ j # 1
      <4>1. i \in 2 .. Len(contracts) + 1 /\ j \in 2 .. Len(contracts) + 1
        BY <2>4, <2>5, <3>3
      <4>2. contracts[i - 1].id = contracts[j - 1].id
        BY <2>5, <2>6, <4>1
      <4>3. i - 1 = j - 1
        BY <1>2, <3>1, <4>1, <4>2 DEF Agreements
      <4> QED BY <4>1, <4>3
    <3> QED BY <3>2, <3>3
  <2> QED BY <2>5, <2>6 DEF Agreements
<1>4. ASSUME known # {} PROVE Agreements(contracts)'
  <2>1. contracts' = [i \in DOMAIN contracts |->
                        IF i \in known
                        THEN [f \in DOMAIN contracts[i] |->
                                IF f = "id" THEN r ELSE Or(terms[f], contracts[i][f])]
                        ELSE contracts[i]]
    BY <1>1, <1>4 DEF ImportContract
  <2>2. ASSUME NEW i \in DOMAIN contracts
        PROVE  contracts'[i] \in Contract /\ contracts'[i].id = contracts[i].id
    <3>1. PICK c \in Contract : c = contracts[i]
      BY <1>2 DEF Agreements
    <3>2. CASE i \notin known
      BY <2>1, <3>1, <3>2
    <3>3. CASE i \in known
      <4>1. PICK d : d = [f \in DOMAIN c |-> IF f = "id" THEN r ELSE Or(terms[f], c[f])]
        OBVIOUS
      <4>2. contracts'[i] = d /\ c.id = r
        BY <2>1, <3>1, <3>3, <4>1
      <4>3. d.id = r
        BY <4>1 DEF Contract
      <4>4. d.campaign \in Campaign \cup {None} /\ d.status \in {"PENDING", "SIGNED", "COMPLETED"}
            /\ d.pay \in Payout \cup {None}
        BY <4>1 DEF Contract, Terms, Or
      <4>5. \A f \in Field : d[f] \in MaybeValue
        BY <4>1 DEF Contract, Terms, Or, Field
      <4> QED BY <3>1, <4>1, <4>2, <4>3, <4>4, <4>5 DEF Contract, Field
    <3> QED BY <3>2, <3>3
  <2>3. contracts' \in Seq(Contract) /\ DOMAIN contracts' = DOMAIN contracts
    BY <1>2, <2>1, <2>2 DEF Agreements
  <2> QED BY <1>2, <2>2, <2>3 DEF Agreements
<1>5. Agreements(contracts)'
  BY <1>3, <1>4
<1>6. /\ UNCHANGED <<stats, tab, saves>> /\ clean' = {} /\ imports' \in Nat /\ UNCHANGED creator
      /\ import' \in [ref : ContractRef, term : Term] \cup {None}
  BY DEF ImportContract, IInv, TypeOK
<1>7. Person(creator)'
  BY <1>2, <1>6 DEF Person
<1> QED BY <1>5, <1>6, <1>7, ArrivalStep

\* IInv holds at first,
LEMMA Inductive == Init => IInv
  BY ClosedTyped, CreatorAssumption, HistoryAssumption DEF Init, IInv, TypeOK, Equipped, Closed

\* and every step keeps it.
LEMMA InvariantStep == ASSUME IInv, [Next]_vars PROVE IInv'
<1>1. CASE UNCHANGED vars
  <2>1. TypeOK'
    BY <1>1 DEF vars, IInv, TypeOK, Person, Agreements
  <2>2. \A w \in Tab : Equipped(tab'[w])
    BY <1>1 DEF vars, IInv
  <2>3. ASSUME NEW w \in clean' PROVE Undisturbed(tab[w])'
    BY <1>1 DEF vars, IInv, Undisturbed, Keeps, Shown
  <2> QED BY <2>1, <2>2, <2>3 DEF IInv, Equipped
<1>2. ASSUME NEW w \in Tab, Request(w) PROVE IInv'
  BY <1>2, OpenStep, SubmitStep, ReadStep, CreatorStep, CloseStep, LatestStep, MirrorStep DEF Request
<1> QED BY <1>1, <1>2, ImportCreatorStep, ImportContractStep DEF Next

-----------------------------------------------------------------------------
(* Sorting.                                                                *)

\* In a finite total order an element's place is that of the elements before it:
\* later elements have later places, and every place is taken.
LEMMA Places ==
    ASSUME NEW S, IsFiniteSet(S), NEW before \in [S -> SUBSET S],
           \A i \in S : i \notin before[i],
           \A i, j, k \in S : i \in before[j] /\ j \in before[k] => i \in before[k],
           \A i, j \in S : i # j => i \in before[j] \/ j \in before[i],
           NEW place, place = [j \in S |-> 1 + Cardinality(before[j])]
    PROVE  /\ \A j \in S : place[j] \in 1 .. Cardinality(S)
           /\ \A i, j \in S : place[i] < place[j] => i \in before[j]
           /\ \A i, j \in S : place[i] = place[j] => i = j
           /\ \A n \in 1 .. Cardinality(S) : \E i \in S : place[i] = n
<1>1. ASSUME NEW j \in S
      PROVE  IsFiniteSet(before[j]) /\ Cardinality(before[j]) \in Nat
  <2>1. before[j] \in SUBSET S
    OBVIOUS
  <2> QED BY <2>1, FS_Subset, FS_CardinalityType
<1>2. Cardinality(S) \in Nat
  BY FS_CardinalityType
<1>3. ASSUME NEW j \in S PROVE Cardinality(before[j]) < Cardinality(S)
  <2>1. before[j] \in SUBSET S /\ before[j] # S
    OBVIOUS
  <2>2. Cardinality(before[j]) <= Cardinality(S) /\ (Cardinality(S) = Cardinality(before[j]) => S = before[j])
    BY <2>1, FS_Subset
  <2> QED BY <1>1, <1>2, <2>1, <2>2
<1>4. ASSUME NEW i \in S, NEW j \in S, i \in before[j]
      PROVE  Cardinality(before[i]) < Cardinality(before[j])
  <2>1. before[i] \in SUBSET before[j] /\ before[i] # before[j]
    BY <1>4
  <2>2. IsFiniteSet(before[j])
    BY <1>1
  <2>3. Cardinality(before[i]) <= Cardinality(before[j])
        /\ (Cardinality(before[j]) = Cardinality(before[i]) => before[j] = before[i])
    BY <2>1, <2>2, FS_Subset
  <2> QED BY <1>1, <2>1, <2>3
<1>5. \A j \in S : place[j] = 1 + Cardinality(before[j])
  OBVIOUS
<1>6. \A j \in S : place[j] \in 1 .. Cardinality(S)
  BY <1>1, <1>2, <1>3, <1>5
<1>7. \A i, j \in S : place[i] \in Int /\ (i \in before[j] => place[i] < place[j])
  <2> SUFFICES ASSUME NEW i \in S, NEW j \in S
               PROVE  place[i] \in Int /\ (i \in before[j] => place[i] < place[j])
    OBVIOUS
  <2>1. Cardinality(before[i]) \in Nat /\ Cardinality(before[j]) \in Nat
    BY <1>1
  <2>2. i \in before[j] => Cardinality(before[i]) < Cardinality(before[j])
    BY <1>4
  <2> QED BY <1>5, <2>1, <2>2
<1>8. ASSUME NEW i \in S, NEW j \in S, place[i] < place[j] PROVE i \in before[j]
  <2>1. place[i] \in Int /\ place[j] \in Int
    BY <1>7
  <2>2. i # j
    BY <1>8, <2>1
  <2>3. i \in before[j] \/ j \in before[i]
    BY <2>2
  <2>4. j \in before[i] => place[j] < place[i]
    BY <1>7
  <2> QED BY <1>8, <2>1, <2>3, <2>4
<1>9. ASSUME NEW i \in S, NEW j \in S, place[i] = place[j] PROVE i = j
  <2>1. place[i] \in Int
    BY <1>7
  <2>2. ~(place[i] < place[j]) /\ ~(place[j] < place[i])
    BY <1>9, <2>1
  <2>3. ~(i \in before[j]) /\ ~(j \in before[i])
    BY <1>7, <2>2
  <2> QED BY <2>3
<1>10. \A n \in 1 .. Cardinality(S) : \E i \in S : place[i] = n
  <2>1. place \in Injection(S, 1 .. Cardinality(S))
    BY <1>6, <1>9 DEF Injection, IsInjective
  <2>2. IsFiniteSet(1 .. Cardinality(S)) /\ Cardinality(1 .. Cardinality(S)) = Cardinality(S)
    BY <1>2, FS_Interval
  <2>3. place \in Surjection(S, 1 .. Cardinality(S))
    BY <2>1, <2>2, FS_Injection
  <2> QED BY <2>3 DEF Surjection
<1> QED BY <1>6, <1>8, <1>9, <1>10

\* The rows a filter leaves.
Matching(rows, filter) == {i \in DOMAIN rows : MatchesRow(rows[i], filter)}

\* These rows, each once, in the order of a column: the blanks last, and two rows it does
\* not tell apart as they were.
Lists(list, rows, found, key, asc) ==
    \E N \in Nat : \E at \in [1 .. N -> found] :
        /\ N = Cardinality(found)
        /\ DOMAIN list = 1 .. N
        /\ \A n \in 1 .. N : list[n] = rows[at[n]]
        /\ \A i \in found : \E n \in 1 .. N : at[n] = i
        /\ \A m, n \in 1 .. N : m < n =>
              /\ at[m] # at[n]
              /\ \/ Precedes(rows[at[m]], rows[at[n]], key, asc)
                 \/ at[m] < at[n] /\ ~Precedes(rows[at[n]], rows[at[m]], key, asc)

\* Whatever rows and filters there are, the list has exactly the rows that match, each once, in
\* the order of the column; sorting is stable both ways and puts blanks last.
\* (app.js matchesFacets, matchesUsage, matchesQuery, visibleCreators "Blanks always sink to
\* the bottom")
THEOREM ListedExactly ==
    ASSUME NEW rows, NEW M \in Nat, DOMAIN rows = 1 .. M, NEW filter, NEW key \in RangeFacet,
           \A i \in 1 .. M : Counted(rows[i][key]), NEW asc \in BOOLEAN,
           NEW list, list = VisibleCreators(rows, filter, key, asc)
    PROVE  Lists(list, rows, Matching(rows, filter), key, asc)
<1> DEFINE Goes(i, j) == \/ Precedes(rows[i], rows[j], key, asc)
                         \/ i < j /\ ~Precedes(rows[j], rows[i], key, asc)
           S == Matching(rows, filter)
           R == {e \in S \X S : Goes(e[1], e[2])}
           place == [j \in S |-> 1 + Cardinality({i \in S : Goes(i, j)})]
<1>1. S \in SUBSET (1 .. M)
  BY DEF Matching
<1>2. VisibleCreators(rows, filter, key, asc)
        = [n \in 1 .. Cardinality(S) |-> rows[CHOOSE i \in S : place[i] = n]]
  BY DEF VisibleCreators, Matching
<1>18. \A i \in S : i \in Int /\ Counted(rows[i][key])
  BY <1>1
<1>15. IsFiniteSet(S)
  BY <1>1, FS_Interval, FS_Subset
<1>3. PICK N \in Nat : N = Cardinality(S)
  BY <1>15, FS_CardinalityType
<1>4. \A i, j \in S : <<i, j>> \in R <=> Goes(i, j)
  OBVIOUS
<1> HIDE DEF S
<1>5. \A i \in S : ~Goes(i, i)
  <2> SUFFICES ASSUME NEW i \in S PROVE ~Goes(i, i)
    OBVIOUS
  <2>1. PICK x : x = rows[i][key]
    OBVIOUS
  <2>2. x # None => x \in Int
    BY <1>18, <2>1 DEF Counted
  <2>3. ~(x # None /\ (x < x \/ x > x))
    BY <2>2
  <2> QED BY <1>18, <2>1, <2>3 DEF Precedes
<1>6. \A i, j, k \in S : Goes(i, j) /\ Goes(j, k) => Goes(i, k)
  <2> SUFFICES ASSUME NEW i \in S, NEW j \in S, NEW k \in S, Goes(i, j), Goes(j, k)
               PROVE  Goes(i, k)
    OBVIOUS
  <2>1. PICK x : x = rows[i][key]
    OBVIOUS
  <2>2. PICK y : y = rows[j][key]
    OBVIOUS
  <2>3. PICK z : z = rows[k][key]
    OBVIOUS
  <2>4. (x # None => x \in Int) /\ (y # None => y \in Int) /\ (z # None => z \in Int)
    BY <1>18, <2>1, <2>2, <2>3 DEF Counted
  <2>5. CASE asc = TRUE
    BY <1>18, <2>1, <2>2, <2>3, <2>4, <2>5 DEF Precedes
  <2>6. CASE asc = FALSE
    BY <1>18, <2>1, <2>2, <2>3, <2>4, <2>6 DEF Precedes
  <2> QED BY <2>5, <2>6
<1>7. \A i, j \in S : i # j => Goes(i, j) \/ Goes(j, i)
  BY <1>18 DEF Precedes
<1>8. place = [j \in S |-> 1 + Cardinality({i \in S : <<i, j>> \in R})]
  <2>1. ASSUME NEW j \in S PROVE {i \in S : Goes(i, j)} = {i \in S : <<i, j>> \in R}
    BY <1>4
  <2> QED BY <2>1
<1> HIDE DEF Goes, R, place, S
<1>9. /\ \A j \in S : place[j] \in 1 .. N
      /\ \A i, j \in S : place[i] < place[j] => <<i, j>> \in R
      /\ \A i, j \in S : place[i] = place[j] => i = j
      /\ \A n \in 1 .. N : \E i \in S : place[i] = n
  <2>1. \A i \in S : <<i, i>> \notin R
    BY <1>4, <1>5
  <2>2. \A i, j, k \in S : <<i, j>> \in R /\ <<j, k>> \in R => <<i, k>> \in R
    BY <1>4, <1>6
  <2>3. \A i, j \in S : i # j => <<i, j>> \in R \/ <<j, i>> \in R
    BY <1>4, <1>7
  <2>4. /\ \A j \in S : place[j] \in 1 .. Cardinality(S)
        /\ \A i, j \in S : place[i] < place[j] => <<i, j>> \in R
        /\ \A i, j \in S : place[i] = place[j] => i = j
        /\ \A n \in 1 .. Cardinality(S) : \E i \in S : place[i] = n
    <3>1. PICK p, s, before : p = place /\ s = S /\ before = [j \in S |-> {i \in S : <<i, j>> \in R}]
      OBVIOUS
    <3>2. before \in [s -> SUBSET s] /\ IsFiniteSet(s)
      BY <1>15, <3>1
    <3>3. \A i, j \in s : i \in before[j] <=> <<i, j>> \in R
      BY <3>1
    <3>4. /\ \A i \in s : i \notin before[i]
          /\ \A i, j, k \in s : i \in before[j] /\ j \in before[k] => i \in before[k]
          /\ \A i, j \in s : i # j => i \in before[j] \/ j \in before[i]
      BY <2>1, <2>2, <2>3, <3>1, <3>3
    <3>5. p = [j \in s |-> 1 + Cardinality(before[j])]
      BY <1>8, <3>1
    <3>6. /\ \A j \in s : p[j] \in 1 .. Cardinality(s)
          /\ \A i, j \in s : p[i] < p[j] => i \in before[j]
          /\ \A i, j \in s : p[i] = p[j] => i = j
          /\ \A n \in 1 .. Cardinality(s) : \E i \in s : p[i] = n
      BY <3>2, <3>4, <3>5, Places
    <3> QED BY <3>1, <3>3, <3>6
  <2> QED BY <1>3, <2>4
<1> DEFINE at == [n \in 1 .. N |-> CHOOSE i \in S : place[i] = n]
<1>10. \A n \in 1 .. N : at[n] \in S /\ place[at[n]] = n
  BY <1>9
<1>11. at \in [1 .. N -> S]
  BY <1>10
<1>12. DOMAIN list = 1 .. N /\ \A n \in 1 .. N : list[n] = rows[at[n]]
  BY <1>2, <1>3
<1> HIDE DEF at
<1>13. \A i \in S : \E n \in 1 .. N : at[n] = i
  <2> SUFFICES ASSUME NEW i \in S PROVE \E n \in 1 .. N : at[n] = i
    OBVIOUS
  <2>1. PICK n \in 1 .. N : n = place[i]
    BY <1>9
  <2>2. at[n] \in S /\ place[at[n]] = place[i]
    BY <1>10, <2>1
  <2>3. at[n] = i
    BY <1>9, <2>2
  <2> QED BY <2>3
<1>14. ASSUME NEW m \in 1 .. N, NEW n \in 1 .. N, m < n
       PROVE  at[m] # at[n] /\ Goes(at[m], at[n])
  <2>1. /\ at[m] \in S /\ place[at[m]] = m
        /\ at[n] \in S /\ place[at[n]] = n
    BY <1>10
  <2>2. <<at[m], at[n]>> \in R
    BY <1>9, <1>14, <2>1
  <2> QED BY <1>4, <1>14, <2>1, <2>2
<1>16. \A m, n \in 1 .. N : m < n =>
          /\ at[m] # at[n]
          /\ \/ Precedes(rows[at[m]], rows[at[n]], key, asc)
             \/ at[m] < at[n] /\ ~Precedes(rows[at[n]], rows[at[m]], key, asc)
  BY <1>14 DEF Goes
<1>17. Lists(list, rows, S, key, asc)
  BY <1>3, <1>11, <1>12, <1>13, <1>16, Zenon DEF Lists
<1> QED BY <1>17 DEF S

-----------------------------------------------------------------------------
(* Sums.                                                                   *)

\* Of sets drawn from a finite one, some have no other below them.
LEMMA FewestWith ==
    ASSUME NEW S, IsFiniteSet(S), NEW C \in SUBSET SUBSET S, C # {}
    PROVE  \E T \in C : \A U \in C : U \subseteq T => U = T
<1>1. IsWellFoundedOn(StrictSubsetOrdering(S), SUBSET S)
  BY FS_StrictSubsetOrderingWellFounded, FS_FiniteSubsetsOfFinite
<1>2. PICK T \in C : \A U \in C : ~(<<U, T>> \in StrictSubsetOrdering(S))
  BY <1>1, WFMin
<1> QED BY <1>2 DEF StrictSubsetOrdering

\* The member a sum takes next, and the totals of a set's parts.
One(s) == CHOOSE x \in s : TRUE
Adding(f, S, g) == g = [s \in SUBSET S |-> IF s = {} THEN 0 ELSE f[One(s)] + g[s \ {One(s)}]]

\* A sum is the total of the whole set, by parts.
LEMMA SumIsChoice ==
    ASSUME NEW f, NEW S
    PROVE  SumFunctionOnSet(f, S) = (CHOOSE g : Adding(f, S, g))[S]
  BY DEF SumFunctionOnSet, FoldFunctionOnSet, MapThenFoldSet, Adding, One

\* Whatever set it was built for, a part has one total.
LEMMA AddsAlike ==
    ASSUME NEW f, NEW A, NEW B, IsFiniteSet(A), NEW g, NEW h, Adding(f, A, g), Adding(f, B, h),
           NEW s \in (SUBSET A) \cap (SUBSET B)
    PROVE  g[s] = h[s]
<1> DEFINE C == {t \in (SUBSET A) \cap (SUBSET B) : g[t] # h[t]}
<1>0. C \in SUBSET SUBSET A
  OBVIOUS
<1>1. SUFFICES ASSUME C # {} PROVE FALSE
  OBVIOUS
<1> HIDE DEF C
<1>2. PICK t \in C : \A u \in C : u \subseteq t => u = t
  BY <1>0, <1>1, FewestWith
<1> USE DEF C
<1>9. t \in SUBSET A /\ t \in SUBSET B
  OBVIOUS
<1>3. g[t] = (IF t = {} THEN 0 ELSE f[One(t)] + g[t \ {One(t)}])
  BY <1>9 DEF Adding
<1>4. h[t] = (IF t = {} THEN 0 ELSE f[One(t)] + h[t \ {One(t)}])
  BY <1>9 DEF Adding
<1>5. t # {}
  BY <1>3, <1>4
<1>6. One(t) \in t
  BY <1>5 DEF One
<1>7. t \ {One(t)} \notin C
  BY <1>2, <1>6
<1>8. g[t \ {One(t)}] = h[t \ {One(t)}]
  BY <1>7
<1> QED BY <1>3, <1>4, <1>5, <1>8

\* A finite set has its totals by parts.
LEMMA SumsThere ==
    ASSUME NEW f, NEW S, IsFiniteSet(S)
    PROVE  \E g : Adding(f, S, g)
<1> DEFINE C == {t \in SUBSET S : ~\E g : Adding(f, t, g)}
<1>0. C \in SUBSET SUBSET S
  OBVIOUS
<1>1. SUFFICES ASSUME C # {} PROVE FALSE
  OBVIOUS
<1> HIDE DEF C
<1>2. PICK t \in C : \A u \in C : u \subseteq t => u = t
  BY <1>0, <1>1, FewestWith
<1> USE DEF C
<1>3. t \in SUBSET S /\ ~\E g : Adding(f, t, g)
  OBVIOUS
<1> DEFINE part(u) == CHOOSE g : Adding(f, u, g)
<1>4. \A u \in SUBSET t : u # t => Adding(f, u, part(u))
  <2> SUFFICES ASSUME NEW u \in SUBSET t, u # t PROVE Adding(f, u, part(u))
    OBVIOUS
  <2>1. u \notin C /\ u \in SUBSET S
    BY <1>2
  <2>2. \E g : Adding(f, u, g)
    BY <2>1
  <2> QED BY <2>2
<1> HIDE DEF part, C
<1> DEFINE total(u) == IF u = {} THEN 0
                       ELSE f[One(u)] + part(u \ {One(u)})[u \ {One(u)}]
           g == [u \in SUBSET t |-> total(u)]
<1>5. \A u \in SUBSET t : IsFiniteSet(u)
  BY <1>3, FS_Subset
<1>6. ASSUME NEW u \in SUBSET t, u # {}
      PROVE  One(u) \in u /\ u \ {One(u)} \in SUBSET t /\ u \ {One(u)} # t
  BY <1>6 DEF One
<1>7. ASSUME NEW u \in SUBSET t, u # t PROVE part(u)[u] = total(u)
  <2>1. part(u)[u] = IF u = {} THEN 0 ELSE f[One(u)] + part(u)[u \ {One(u)}]
    BY <1>4, <1>7 DEF Adding
  <2>2. CASE u = {}
    BY <2>1, <2>2
  <2>3. CASE u # {}
    <3>1. PICK v : v = u \ {One(u)}
      OBVIOUS
    <3>2. v \in SUBSET u /\ v \in SUBSET t /\ v # t
      BY <1>6, <2>3, <3>1
    <3>3. PICK p, q : p = part(u) /\ q = part(v)
      OBVIOUS
    <3>4. Adding(f, u, p) /\ Adding(f, v, q) /\ IsFiniteSet(u)
      BY <1>4, <1>5, <1>7, <3>2, <3>3
    <3>5. v \in (SUBSET u) \cap (SUBSET v)
      BY <3>2
    <3>6. p[v] = q[v]
      BY <3>4, <3>5, AddsAlike
    <3> QED BY <2>1, <2>3, <3>1, <3>3, <3>6
  <2> QED BY <2>2, <2>3
<1>8. \A u \in SUBSET t : g[u] = IF u = {} THEN 0 ELSE f[One(u)] + g[u \ {One(u)}]
  <2> SUFFICES ASSUME NEW u \in SUBSET t
               PROVE  g[u] = IF u = {} THEN 0 ELSE f[One(u)] + g[u \ {One(u)}]
    OBVIOUS
  <2>1. CASE u = {}
    BY <2>1
  <2>2. CASE u # {}
    <3>1. PICK v : v = u \ {One(u)}
      OBVIOUS
    <3>2. v \in SUBSET t /\ v # t
      BY <1>6, <2>2, <3>1
    <3>3. g[v] = part(v)[v]
      BY <1>7, <3>2
    <3> QED BY <2>2, <3>1, <3>3
  <2> QED BY <2>1, <2>2
<1>9. Adding(f, t, g)
  BY <1>8 DEF Adding
<1> QED BY <1>3, <1>9

\* A sum is one of its terms and the sum of the others.
LEMMA SumDef ==
    ASSUME NEW f, NEW S, IsFiniteSet(S)
    PROVE  SumFunctionOnSet(f, S) = IF S = {} THEN 0
                                    ELSE f[One(S)] + SumFunctionOnSet(f, S \ {One(S)})
<1>1. PICK g : g = (CHOOSE h : Adding(f, S, h))
  OBVIOUS
<1>2. Adding(f, S, g)
  BY <1>1, SumsThere
<1>3. SumFunctionOnSet(f, S) = g[S]
  BY <1>1, SumIsChoice
<1>4. g[S] = IF S = {} THEN 0 ELSE f[One(S)] + g[S \ {One(S)}]
  BY <1>2 DEF Adding
<1>5. CASE S = {}
  BY <1>3, <1>4, <1>5
<1>6. CASE S # {}
  <2>1. PICK T : T = S \ {One(S)}
    OBVIOUS
  <2>2. IsFiniteSet(T) /\ T \in SUBSET S
    BY <2>1, FS_Subset
  <2>3. PICK h : h = (CHOOSE k : Adding(f, T, k))
    OBVIOUS
  <2>4. Adding(f, T, h)
    BY <2>2, <2>3, SumsThere
  <2>5. SumFunctionOnSet(f, T) = h[T]
    BY <2>3, SumIsChoice
  <2>7. T \in (SUBSET S) \cap (SUBSET T)
    BY <2>2
  <2>6. g[T] = h[T]
    BY <2>7, <1>2, <2>2, <2>4, AddsAlike
  <2> QED BY <1>3, <1>4, <1>6, <2>1, <2>5, <2>6
<1> QED BY <1>5, <1>6

\* A sum is any of its terms and the sum of the others.
LEMMA SumTakesOut ==
    ASSUME NEW f, NEW S, IsFiniteSet(S), \A x \in S : f[x] \in Int
    PROVE  /\ SumFunctionOnSet(f, S) \in Int
           /\ \A x \in S : SumFunctionOnSet(f, S) = f[x] + SumFunctionOnSet(f, S \ {x})
<1> DEFINE Good(t) == /\ SumFunctionOnSet(f, t) \in Int
                      /\ \A x \in t : SumFunctionOnSet(f, t) = f[x] + SumFunctionOnSet(f, t \ {x})
           C == {t \in SUBSET S : ~Good(t)}
<1>0. C \in SUBSET SUBSET S
  OBVIOUS
<1>1. SUFFICES ASSUME C # {} PROVE FALSE
  OBVIOUS
<1> HIDE DEF C
<1>2. PICK t \in C : \A u \in C : u \subseteq t => u = t
  BY <1>0, <1>1, FewestWith
<1> USE DEF C
<1>3. t \in SUBSET S /\ IsFiniteSet(t) /\ ~Good(t)
  BY FS_Subset
<1>4. \A u \in SUBSET t : u # t => Good(u) /\ IsFiniteSet(u)
  BY <1>2, <1>3, FS_Subset
<1> HIDE DEF C
<1>5. CASE t = {}
  <2>1. SumFunctionOnSet(f, t) = 0
    BY <1>3, <1>5, SumDef
  <2> QED BY <1>3, <1>5, <2>1
<1>6. CASE t # {}
  <2>1. PICK c : c = One(t)
    OBVIOUS
  <2>2. c \in t
    BY <1>6, <2>1 DEF One
  <2>3. SumFunctionOnSet(f, t) = f[c] + SumFunctionOnSet(f, t \ {c})
    BY <1>3, <1>6, <2>1, SumDef
  <2>4. \A x \in t : f[x] \in Int /\ Good(t \ {x})
    BY <1>3, <1>4
  <2>5. SumFunctionOnSet(f, t) \in Int
    BY <2>2, <2>3, <2>4
  <2>6. ASSUME NEW x \in t, x # c
        PROVE  SumFunctionOnSet(f, t) = f[x] + SumFunctionOnSet(f, t \ {x})
    <3>1. x \in t \ {c} /\ c \in t \ {x} /\ (t \ {c}) \ {x} = (t \ {x}) \ {c}
      BY <2>2, <2>6
    <3>2. (t \ {c}) \ {x} \in SUBSET t /\ (t \ {c}) \ {x} # t
      BY <2>2
    <3>3. SumFunctionOnSet(f, (t \ {c}) \ {x}) \in Int
      BY <1>4, <3>2
    <3>4. SumFunctionOnSet(f, t \ {c}) = f[x] + SumFunctionOnSet(f, (t \ {c}) \ {x})
      BY <2>2, <2>4, <3>1
    <3>5. SumFunctionOnSet(f, t \ {x}) = f[c] + SumFunctionOnSet(f, (t \ {x}) \ {c})
      BY <2>4, <3>1
    <3> QED BY <2>2, <2>3, <2>4, <3>1, <3>3, <3>4, <3>5
  <2> QED BY <1>3, <2>3, <2>5, <2>6
<1> QED BY <1>5, <1>6

\* Nothing adds up to 0.
LEMMA SumEmpty == ASSUME NEW f PROVE SumFunctionOnSet(f, {}) = 0
  BY SumDef, FS_EmptySet

\* The same terms have the same sum.
LEMMA SumSame ==
    ASSUME NEW f, NEW g, NEW S, IsFiniteSet(S),
           \A x \in S : f[x] \in Int /\ g[x] = f[x]
    PROVE  SumFunctionOnSet(g, S) = SumFunctionOnSet(f, S)
<1> DEFINE Good(t) == SumFunctionOnSet(g, t) = SumFunctionOnSet(f, t)
           C == {t \in SUBSET S : ~Good(t)}
<1>1. C \in SUBSET SUBSET S
  OBVIOUS
<1>2. SUFFICES ASSUME C # {} PROVE FALSE
  OBVIOUS
<1> HIDE DEF C
<1>3. PICK t \in C : \A u \in C : u \subseteq t => u = t
  BY <1>1, <1>2, FewestWith
<1> USE DEF C
<1>4. t \in SUBSET S /\ IsFiniteSet(t) /\ ~Good(t)
  BY FS_Subset
<1>5. t # {}
  BY <1>4, SumEmpty
<1>6. PICK x \in t : TRUE
  BY <1>5
<1>7. Good(t \ {x})
  BY <1>3, <1>4
<1>8. \A y \in t : f[y] \in Int /\ g[y] \in Int
  BY <1>4
<1>9. SumFunctionOnSet(f, t) = f[x] + SumFunctionOnSet(f, t \ {x})
  BY <1>4, <1>8, SumTakesOut
<1>10. SumFunctionOnSet(g, t) = g[x] + SumFunctionOnSet(g, t \ {x})
  BY <1>4, <1>8, SumTakesOut
<1> QED BY <1>4, <1>7, <1>9, <1>10

\* A sum of sums, term by term.
LEMMA SumPlus ==
    ASSUME NEW f, NEW g, NEW h, NEW S, IsFiniteSet(S),
           \A x \in S : f[x] \in Int /\ g[x] \in Int /\ h[x] = f[x] + g[x]
    PROVE  SumFunctionOnSet(h, S) = SumFunctionOnSet(f, S) + SumFunctionOnSet(g, S)
<1> DEFINE Good(t) == SumFunctionOnSet(h, t) = SumFunctionOnSet(f, t) + SumFunctionOnSet(g, t)
           C == {t \in SUBSET S : ~Good(t)}
<1>1. C \in SUBSET SUBSET S
  OBVIOUS
<1>2. SUFFICES ASSUME C # {} PROVE FALSE
  OBVIOUS
<1> HIDE DEF C
<1>3. PICK t \in C : \A u \in C : u \subseteq t => u = t
  BY <1>1, <1>2, FewestWith
<1> USE DEF C
<1>4. t \in SUBSET S /\ IsFiniteSet(t) /\ ~Good(t)
  BY FS_Subset
<1>5. t # {}
  BY <1>4, SumEmpty
<1>6. PICK x \in t : TRUE
  BY <1>5
<1>7. Good(t \ {x})
  BY <1>3, <1>4
<1>8. \A y \in t : f[y] \in Int /\ g[y] \in Int /\ h[y] \in Int
  BY <1>4
<1>9. SumFunctionOnSet(f, t) = f[x] + SumFunctionOnSet(f, t \ {x})
  BY <1>4, <1>8, SumTakesOut
<1>10. SumFunctionOnSet(g, t) = g[x] + SumFunctionOnSet(g, t \ {x})
  BY <1>4, <1>8, SumTakesOut
<1>11. SumFunctionOnSet(h, t) = h[x] + SumFunctionOnSet(h, t \ {x})
  BY <1>4, <1>8, SumTakesOut
<1>12. IsFiniteSet(t \ {x}) /\ \A y \in t \ {x} : f[y] \in Int /\ g[y] \in Int
  BY <1>4, <1>8, FS_RemoveElement
<1>13. SumFunctionOnSet(f, t \ {x}) \in Int
  BY <1>12, SumTakesOut
<1>14. SumFunctionOnSet(g, t \ {x}) \in Int
  BY <1>12, SumTakesOut
<1>15. f[x] \in Int /\ g[x] \in Int /\ h[x] = f[x] + g[x]
  BY <1>4
<1> HIDE DEF C
<1> QED BY <1>4, <1>7, <1>9, <1>10, <1>11, <1>13, <1>14, <1>15

\* One term, so many times.
LEMMA SumConstant ==
    ASSUME NEW f, NEW S, IsFiniteSet(S), NEW c \in Int, \A x \in S : f[x] = c
    PROVE  SumFunctionOnSet(f, S) = Cardinality(S) * c
<1> DEFINE Good(t) == SumFunctionOnSet(f, t) = Cardinality(t) * c
           C == {t \in SUBSET S : ~Good(t)}
<1>1. C \in SUBSET SUBSET S
  OBVIOUS
<1>2. SUFFICES ASSUME C # {} PROVE FALSE
  OBVIOUS
<1> HIDE DEF C
<1>3. PICK t \in C : \A u \in C : u \subseteq t => u = t
  BY <1>1, <1>2, FewestWith
<1> USE DEF C
<1>4. t \in SUBSET S /\ IsFiniteSet(t) /\ ~Good(t)
  BY FS_Subset
<1>5. t # {}
  <2>1. SUFFICES ASSUME t = {} PROVE FALSE
    OBVIOUS
  <2>2. Cardinality(t) = 0 /\ SumFunctionOnSet(f, t) = 0
    BY <2>1, SumEmpty, FS_EmptySet
  <2> QED BY <1>4, <2>2
<1>6. PICK x \in t : TRUE
  BY <1>5
<1>7. Good(t \ {x})
  BY <1>3, <1>4
<1>8. \A y \in t : f[y] \in Int
  BY <1>4
<1>9. SumFunctionOnSet(f, t) = f[x] + SumFunctionOnSet(f, t \ {x})
  BY <1>4, <1>8, SumTakesOut
<1>10. PICK n, m : n = Cardinality(t) /\ m = Cardinality(t \ {x})
  OBVIOUS
<1>11. n \in Nat /\ m = n - 1
  BY <1>4, <1>10, FS_CardinalityType, FS_RemoveElement
<1>12. SumFunctionOnSet(f, t) = c + (n - 1) * c
  BY <1>4, <1>7, <1>9, <1>10, <1>11
<1>13. c + (n - 1) * c = n * c
  BY <1>11
<1> QED BY <1>4, <1>10, <1>12, <1>13

\* What two sets without a common member add up to.
LEMMA SumUnion ==
    ASSUME NEW f, NEW A, NEW B, IsFiniteSet(A), IsFiniteSet(B), A \cap B = {},
           \A x \in A \cup B : f[x] \in Int
    PROVE  SumFunctionOnSet(f, A \cup B) = SumFunctionOnSet(f, A) + SumFunctionOnSet(f, B)
<1> DEFINE Good(t) == SumFunctionOnSet(f, t \cup B) = SumFunctionOnSet(f, t) + SumFunctionOnSet(f, B)
           C == {t \in SUBSET A : ~Good(t)}
<1>1. C \in SUBSET SUBSET A
  OBVIOUS
<1>2. SUFFICES ASSUME C # {} PROVE FALSE
  OBVIOUS
<1> HIDE DEF C
<1>3. PICK t \in C : \A u \in C : u \subseteq t => u = t
  BY <1>1, <1>2, FewestWith
<1> USE DEF C
<1>4. t \in SUBSET A /\ IsFiniteSet(t) /\ ~Good(t)
  BY FS_Subset
<1>14. SumFunctionOnSet(f, B) \in Int
  BY SumTakesOut
<1>5. t # {}
  <2>1. SUFFICES ASSUME t = {} PROVE FALSE
    OBVIOUS
  <2>2. SumFunctionOnSet(f, t) = 0
    BY <2>1, SumEmpty
  <2>3. PICK u : u = t \cup B
    OBVIOUS
  <2>4. u = B
    BY <2>1, <2>3
  <2>5. SumFunctionOnSet(f, u) = SumFunctionOnSet(f, t) + SumFunctionOnSet(f, B)
    BY <1>14, <2>2, <2>4
  <2> QED BY <1>4, <2>3, <2>5
<1>6. PICK x \in t : TRUE
  BY <1>5
<1>7. Good(t \ {x})
  BY <1>3, <1>4
<1>8. (\A y \in t : f[y] \in Int) /\ (\A y \in t \cup B : f[y] \in Int)
  BY <1>4
<1>9. SumFunctionOnSet(f, t) = f[x] + SumFunctionOnSet(f, t \ {x})
  BY <1>4, <1>8, SumTakesOut
<1>10. SumFunctionOnSet(f, t \cup B) = f[x] + SumFunctionOnSet(f, (t \ {x}) \cup B)
  <2>1. PICK u : u = t \cup B
    OBVIOUS
  <2>2. IsFiniteSet(u) /\ x \in u /\ \A y \in u : f[y] \in Int
    BY <1>4, <1>8, <2>1, FS_Union
  <2>3. SumFunctionOnSet(f, u) = f[x] + SumFunctionOnSet(f, u \ {x})
    BY <2>2, SumTakesOut
  <2>4. u \ {x} = (t \ {x}) \cup B
    BY <1>4, <2>1
  <2> QED BY <2>1, <2>3, <2>4
<1>12. IsFiniteSet(t \ {x}) /\ \A y \in t \ {x} : f[y] \in Int
  BY <1>4, <1>8, FS_RemoveElement
<1>13. SumFunctionOnSet(f, t \ {x}) \in Int
  BY <1>12, SumTakesOut
<1>15. f[x] \in Int
  BY <1>8
<1> HIDE DEF C
<1> QED BY <1>4, <1>7, <1>9, <1>10, <1>13, <1>14, <1>15

\* Terms may be added up part by part.
LEMMA SumParts ==
    ASSUME NEW f, NEW S, IsFiniteSet(S), \A x \in S : f[x] \in Int,
           NEW K, IsFiniteSet(K), NEW part, \A x \in S : part[x] \in K,
           NEW p, \A k \in K : p[k] = SumFunctionOnSet(f, {x \in S : part[x] = k})
    PROVE  SumFunctionOnSet(p, K) = SumFunctionOnSet(f, S)
<1> DEFINE Of(t) == {x \in S : part[x] \in t}
           Only(k) == {x \in S : part[x] = k}
           Good(t) == SumFunctionOnSet(p, t) = SumFunctionOnSet(f, Of(t))
           C == {t \in SUBSET K : ~Good(t)}
<1>1. C \in SUBSET SUBSET K
  OBVIOUS
<1>2. SUFFICES ASSUME C # {} PROVE FALSE
  <2>1. K \in SUBSET K /\ Of(K) = S
    OBVIOUS
  <2> QED BY <2>1
<1> HIDE DEF C
<1>3. PICK t \in C : \A u \in C : u \subseteq t => u = t
  BY <1>1, <1>2, FewestWith
<1> USE DEF C
<1>4. t \in SUBSET K /\ IsFiniteSet(t) /\ ~Good(t)
  BY FS_Subset
<1>5. t # {}
  <2>1. SUFFICES ASSUME t = {} PROVE FALSE
    OBVIOUS
  <2>2. Of(t) = {}
    BY <2>1
  <2> QED BY <1>4, <2>1, <2>2, SumEmpty
<1>6. PICK k \in t : TRUE
  BY <1>5
<1>7. Good(t \ {k})
  BY <1>3, <1>4
<1> HIDE DEF C
<1>8. ASSUME NEW u \in SUBSET S
      PROVE  IsFiniteSet(u) /\ SumFunctionOnSet(f, u) \in Int
  <2>1. IsFiniteSet(u) /\ \A x \in u : f[x] \in Int
    BY FS_Subset
  <2> QED BY <2>1, SumTakesOut
<1>9. \A j \in t : p[j] = SumFunctionOnSet(f, Only(j)) /\ p[j] \in Int
  BY <1>4, <1>8
<1>15. \A j \in t : p[j] \in Int
  BY <1>9
<1>10. SumFunctionOnSet(p, t) = p[k] + SumFunctionOnSet(p, t \ {k})
  BY <1>4, <1>15, SumTakesOut
<1>11. Of(t) = Only(k) \cup Of(t \ {k}) /\ Only(k) \cap Of(t \ {k}) = {}
  OBVIOUS
<1>12. Only(k) \in SUBSET S /\ Of(t \ {k}) \in SUBSET S /\ \A x \in Only(k) \cup Of(t \ {k}) : f[x] \in Int
  OBVIOUS
<1>13. IsFiniteSet(Only(k)) /\ IsFiniteSet(Of(t \ {k}))
  BY <1>8, <1>12
<1> HIDE DEF Of, Only
<1>16. PICK a, b : a = Only(k) /\ b = Of(t \ {k})
  OBVIOUS
<1>17. SumFunctionOnSet(f, a \cup b) = SumFunctionOnSet(f, a) + SumFunctionOnSet(f, b)
  <2>1. IsFiniteSet(a) /\ IsFiniteSet(b) /\ a \cap b = {} /\ \A x \in a \cup b : f[x] \in Int
    BY <1>11, <1>12, <1>13, <1>16
  <2> QED BY <2>1, SumUnion
<1>14. SumFunctionOnSet(f, Of(t)) = SumFunctionOnSet(f, Only(k)) + SumFunctionOnSet(f, Of(t \ {k}))
  BY <1>11, <1>16, <1>17
<1> QED BY <1>4, <1>7, <1>9, <1>10, <1>14

\* A table of numbers, by rows and by columns, with the sums of both.
Tallied(A, B, m, w, r, c) ==
    /\ \A a \in A, b \in B : m[a][b] \in Int /\ w[b][a] = m[a][b]
    /\ \A a \in A : r[a] = SumFunctionOnSet(m[a], B)
    /\ \A b \in B : c[b] = SumFunctionOnSet(w[b], A)

\* The rows of a table add up to what its columns do.
LEMMA SumBothWays ==
    ASSUME NEW A, IsFiniteSet(A), NEW B, IsFiniteSet(B), NEW m, NEW w, NEW r, NEW c,
           Tallied(A, B, m, w, r, c)
    PROVE  SumFunctionOnSet(r, A) = SumFunctionOnSet(c, B)
<1> USE DEF Tallied
<1> DEFINE cut(t) == [b \in B |-> SumFunctionOnSet(w[b], t)]
           Good(t) == SumFunctionOnSet(r, t) = SumFunctionOnSet(cut(t), B)
           C == {t \in SUBSET A : ~Good(t)}
<1>20. ASSUME NEW t \in SUBSET A, NEW b \in B
       PROVE  SumFunctionOnSet(w[b], t) \in Int
              /\ \A x \in t : SumFunctionOnSet(w[b], t) = m[x][b] + SumFunctionOnSet(w[b], t \ {x})
  <2>1. IsFiniteSet(t) /\ \A a \in t : w[b][a] \in Int /\ w[b][a] = m[a][b]
    BY FS_Subset
  <2> QED BY <2>1, SumTakesOut
<1>1. C \in SUBSET SUBSET A
  OBVIOUS
<1>2. SUFFICES ASSUME C # {} PROVE FALSE
  <2>1. SumFunctionOnSet(cut(A), B) = SumFunctionOnSet(c, B)
    <3>1. \A b \in B : c[b] \in Int /\ cut(A)[b] = c[b]
      BY <1>20
    <3> HIDE DEF cut
    <3> QED BY <3>1, SumSame
  <2> QED BY <2>1
<1> HIDE DEF C
<1>3. PICK t \in C : \A u \in C : u \subseteq t => u = t
  BY <1>1, <1>2, FewestWith
<1> USE DEF C
<1>4. t \in SUBSET A /\ IsFiniteSet(t) /\ ~Good(t)
  BY FS_Subset
<1>5. t # {}
  <2>1. SUFFICES ASSUME t = {} PROVE FALSE
    OBVIOUS
  <2>2. \A b \in B : cut(t)[b] = 0
    BY <2>1, SumEmpty
  <2>3. SumFunctionOnSet(cut(t), B) = Cardinality(B) * 0
    <3> HIDE DEF cut
    <3> QED BY <2>2, SumConstant
  <2>4. SumFunctionOnSet(cut(t), B) = 0
    BY <2>3, FS_CardinalityType
  <2> QED BY <1>4, <2>1, <2>4, SumEmpty
<1>6. PICK x \in t : TRUE
  BY <1>5
<1>7. Good(t \ {x})
  BY <1>3, <1>4
<1> HIDE DEF C
<1>8. \A a \in t : r[a] = SumFunctionOnSet(m[a], B) /\ r[a] \in Int
  <2> SUFFICES ASSUME NEW a \in t PROVE r[a] = SumFunctionOnSet(m[a], B) /\ r[a] \in Int
    OBVIOUS
  <2>1. a \in A /\ \A b \in B : m[a][b] \in Int
    BY <1>4
  <2>2. SumFunctionOnSet(m[a], B) \in Int
    BY <2>1, SumTakesOut
  <2> QED BY <2>1, <2>2
<1>9. SumFunctionOnSet(r, t) = r[x] + SumFunctionOnSet(r, t \ {x})
  BY <1>4, <1>8, SumTakesOut
<1>10. \A b \in B : /\ m[x][b] \in Int /\ cut(t \ {x})[b] \in Int
                    /\ cut(t)[b] = m[x][b] + cut(t \ {x})[b]
  <2>1. t \ {x} \in SUBSET A
    BY <1>4
  <2> QED BY <1>4, <1>20, <2>1
<1>11. SumFunctionOnSet(cut(t), B) = SumFunctionOnSet(m[x], B) + SumFunctionOnSet(cut(t \ {x}), B)
  <2> HIDE DEF cut
  <2>1. PICK d, e, g : d = cut(t) /\ e = cut(t \ {x}) /\ g = m[x]
    OBVIOUS
  <2>2. \A b \in B : g[b] \in Int /\ e[b] \in Int /\ d[b] = g[b] + e[b]
    BY <1>10, <2>1
  <2>3. SumFunctionOnSet(d, B) = SumFunctionOnSet(g, B) + SumFunctionOnSet(e, B)
    BY <2>2, SumPlus
  <2> QED BY <2>1, <2>3
<1> QED BY <1>4, <1>7, <1>8, <1>9, <1>11

-----------------------------------------------------------------------------
(* Finite sets.                                                            *)

\* What a function makes of a finite set is finite.
LEMMA ImageFinite ==
    ASSUME NEW D, IsFiniteSet(D), NEW g
    PROVE  IsFiniteSet({g[i] : i \in D})
<1>1. PICK T : T = {g[i] : i \in D}
  OBVIOUS
<1>2. PICK h : h = [i \in D |-> g[i]]
  OBVIOUS
<1>3. h \in Surjection(D, T)
  BY <1>1, <1>2 DEF Surjection
<1>4. IsFiniteSet(T)
  BY <1>3, FS_Surjection
<1> QED BY <1>1, <1>4

\* The platforms are finitely many.
LEMMA PlatformFinite == IsFiniteSet(Platform)
<1>1. IsFiniteSet({}) /\ {} \cup {"IG"} = {"IG"} /\ {"IG"} \cup {"TT"} = {"IG", "TT"}
  BY FS_EmptySet
<1>2. IsFiniteSet({"IG"})
  BY FS_Singleton
<1>3. IsFiniteSet({"IG"} \cup {"TT"})
  BY <1>2, FS_AddElement
<1>4. IsFiniteSet({"IG", "TT"} \cup {"YT"})
  BY <1>1, <1>3, FS_AddElement
<1>5. {"IG", "TT"} \cup {"YT"} = Platform
  BY DEF Platform
<1> QED BY <1>4, <1>5

-----------------------------------------------------------------------------
(* The views on record.                                                    *)

\* Each statistic counts a number of views.
LEMMA ViewsTyped ==
    ASSUME Figures(stats)
    PROVE  /\ IsFiniteSet(DOMAIN stats)
           /\ \A i \in DOMAIN stats :
                 /\ Statistic(stats[i])
                 /\ StatViews(stats)[i] \in Int
                 /\ StatViews(stats)[i] = ViewsOf(stats[i])
           /\ DOMAIN StatViews(stats) = DOMAIN stats
<1>1. DOMAIN stats = 1 .. Len(stats) /\ Len(stats) \in Nat
  BY DEF Figures
<1>2. IsFiniteSet(DOMAIN stats)
  BY <1>1, FS_Interval
<1>3. \A i \in DOMAIN stats : Statistic(stats[i])
  BY DEF Figures, ToSet
<1>4. \A i \in DOMAIN stats : ViewsOf(stats[i]) \in Int
  BY <1>3, NoneAssumption DEF Statistic, Counted, ViewsOf
<1> QED BY <1>2, <1>3, <1>4 DEF StatViews

\* The views on record are a number.
LEMMA TotalTyped == ASSUME Figures(stats) PROVE TotalViews(stats) \in Int
<1>1. PICK f : f = StatViews(stats)
  OBVIOUS
<1>2. IsFiniteSet(DOMAIN f) /\ \A i \in DOMAIN f : f[i] \in Int
  BY <1>1, ViewsTyped
<1>3. SumFunctionOnSet(f, DOMAIN f) \in Int
  BY <1>2, SumTakesOut
<1> QED BY <1>1, <1>3 DEF TotalViews, SumFunction

\* Without statistics there are no views.
LEMMA NoViews == TotalViews(<<>>) = 0
<1>1. DOMAIN StatViews(<<>>) = {}
  BY DEF StatViews
<1>2. PICK f : f = StatViews(<<>>)
  OBVIOUS
<1> QED BY <1>1, <1>2, SumEmpty DEF TotalViews, SumFunction

\* A row of the profile's campaigns has the views of the statistics it stands for.
LEMMA RowViews ==
    ASSUME Figures(stats), NEW key \in DOMAIN Campaigns
    PROVE  ViewsOf(Campaigns[key])
             = SumFunctionOnSet(StatViews(stats), {i \in DOMAIN stats : CampaignKey(stats[i]) = key})
<1>1. PICK ran : ran = {i \in DOMAIN stats : CampaignKey(stats[i]) = key}
  OBVIOUS
<1>2. PICK signed : signed = {i \in DOMAIN contracts : CampaignKey(contracts[i]) = key}
  OBVIOUS
<1>3. PICK f : f = StatViews(stats)
  OBVIOUS
<1>4. PICK row : row = Campaigns[key]
  OBVIOUS
<1>5. row.views = IF ran = {} THEN None
                  ELSE IF signed = {} /\ Cardinality(ran) = 1 THEN stats[Min(ran)].views
                  ELSE SumFunctionOnSet(f, ran)
  BY <1>1, <1>2, <1>3, <1>4 DEF Campaigns, CampaignList
<1>6. IsFiniteSet(ran) /\ \A i \in ran : f[i] \in Int /\ f[i] = ViewsOf(stats[i])
  BY <1>1, <1>3, ViewsTyped, FS_Subset
<1>7. SumFunctionOnSet(f, ran) \in Int
  BY <1>6, SumTakesOut
<1>8. ViewsOf(row) = SumFunctionOnSet(f, ran)
  <2>1. CASE ran = {}
    BY <1>5, <2>1, SumEmpty DEF ViewsOf
  <2>2. CASE ran # {} /\ signed = {} /\ Cardinality(ran) = 1
    <3>1. PICK a : ran = {a}
      BY <1>6, <2>2, FS_Singleton
    <3>2. a \in Nat
      BY <1>1, <3>1 DEF Figures
    <3>3. Min(ran) = a
      <4>1. Min({a}) \in {a}
        BY <3>2, Least
      <4> QED BY <3>1, <4>1
    <3>4. ViewsOf(row) = f[a]
      BY <1>5, <1>6, <2>2, <3>1, <3>3 DEF ViewsOf
    <3>5. SumFunctionOnSet(f, ran) = f[a] + SumFunctionOnSet(f, ran \ {a})
      BY <1>6, <3>1, SumTakesOut
    <3>6. ran \ {a} = {} /\ f[a] \in Int
      BY <1>6, <3>1
    <3> QED BY <3>4, <3>5, <3>6, SumEmpty
  <2>3. CASE ran # {} /\ ~(signed = {} /\ Cardinality(ran) = 1)
    BY <1>5, <1>7, <2>3, NoneAssumption DEF ViewsOf
  <2> QED BY <2>1, <2>2, <2>3
<1> QED BY <1>1, <1>3, <1>4, <1>8

\* The campaigns of the profile add up.
LEMMA CampaignsAddUp ==
    ASSUME Figures(stats), Agreements(contracts)
    PROVE  SumFunction([key \in DOMAIN Campaigns |-> ViewsOf(Campaigns[key])]) = TotalViews(stats)
<1>1. PICK f, S : f = StatViews(stats) /\ S = DOMAIN stats
  OBVIOUS
<1>2. PICK K : K = DOMAIN Campaigns
  OBVIOUS
<1>3. PICK p : p = [key \in K |-> ViewsOf(Campaigns[key])]
  OBVIOUS
<1>4. PICK part : part = [i \in S |-> CampaignKey(stats[i])]
  OBVIOUS
<1>5. IsFiniteSet(S) /\ DOMAIN f = S /\ \A i \in S : f[i] \in Int
  BY <1>1, ViewsTyped
<1>6. K = KeysOf(contracts) \cup KeysOf(stats)
  BY <1>2 DEF Campaigns, CampaignList
<1>7. IsFiniteSet(K)
  <2>1. IsFiniteSet(DOMAIN contracts)
    BY FS_Interval DEF Agreements
  <2>2. IsFiniteSet(KeysOf(contracts)) /\ IsFiniteSet(KeysOf(stats))
    <3>1. ASSUME NEW seq, IsFiniteSet(DOMAIN seq) PROVE IsFiniteSet(KeysOf(seq))
      <4>1. PICK D, g : D = DOMAIN seq /\ g = [i \in D |-> CampaignKey(seq[i])]
        OBVIOUS
      <4>2. IsFiniteSet({g[i] : i \in D})
        BY <3>1, <4>1, ImageFinite
      <4>3. {g[i] : i \in D} = KeysOf(seq)
        BY <4>1 DEF KeysOf
      <4> QED BY <4>2, <4>3
    <3> QED BY <1>1, <1>5, <2>1, <3>1
  <2> QED BY <1>6, <2>2, FS_Union
<1>8. \A i \in S : part[i] \in K
  BY <1>1, <1>4, <1>6 DEF KeysOf
<1>9. \A k \in K : p[k] = SumFunctionOnSet(f, {i \in S : part[i] = k})
  <2> SUFFICES ASSUME NEW k \in K PROVE p[k] = SumFunctionOnSet(f, {i \in S : part[i] = k})
    OBVIOUS
  <2>1. {i \in S : part[i] = k} = {i \in DOMAIN stats : CampaignKey(stats[i]) = k}
    BY <1>1, <1>4
  <2> QED BY <1>1, <1>2, <1>3, <2>1, RowViews
<1>10. SumFunctionOnSet(p, K) = SumFunctionOnSet(f, S)
  BY <1>5, <1>7, <1>8, <1>9, SumParts
<1>11. DOMAIN p = K
  BY <1>3
<1> QED BY <1>1, <1>2, <1>3, <1>5, <1>10, <1>11 DEF SumFunction, TotalViews

\* An even share of each platform: what rounding adds or drops is at most half a
\* view a platform.
LEMMA EvenShares ==
    ASSUME NEW v \in Int, NEW n \in Nat, n > 0
    PROVE  /\ HalfUp(v, n) \in Int
           /\ 2 * (n * HalfUp(v, n)) - 2 * v \in (-n) .. n
<1>1. PICK a, d, q : a = 2 * v + n /\ d = 2 * n /\ q = a \div d
  OBVIOUS
<1>2. a \in Int /\ d \in Nat /\ d > 0
  BY <1>1
<1>3. q \in Int /\ d * q <= a /\ a < d * q + d
  <2>1. q \in Int /\ a = d * q + (a % d) /\ a % d \in 0 .. d - 1
    BY <1>1, <1>2
  <2> QED BY <1>2, <2>1
<1>4. HalfUp(v, n) = q
  BY <1>1 DEF HalfUp
<1>5. d * q = 2 * (n * q)
  BY <1>1, <1>3
<1>6. PICK z \in Int : z = n * q
  BY <1>3
<1>7. 2 * z <= 2 * v + n /\ 2 * v + n < 2 * z + 2 * n
  BY <1>1, <1>3, <1>5, <1>6
<1> QED BY <1>3, <1>4, <1>6, <1>7

\* Estimated shares add up to the profile's views, but for the rounding.
LEMMA SharesEstimated ==
    ASSUME Figures(stats), NEW views \in Int, Posted(stats) = {}, Ran(stats) # {},
           NEW shares, shares = PlatformBreakdown(stats, views)
    PROVE  2 * SumFunction(shares) - 2 * views
              \in - Cardinality(DOMAIN shares) .. Cardinality(DOMAIN shares)
<1>1. PICK R : R = Ran(stats)
  OBVIOUS
<1>2. R \subseteq Platform
  BY <1>1, ViewsTyped DEF Ran, Statistic
<1>3. IsFiniteSet(R)
  BY <1>2, PlatformFinite, FS_Subset
<1>4. PICK n \in Nat : n = Cardinality(R) /\ n > 0
  <2>1. Cardinality(R) \in Nat /\ Cardinality(R) # 0
    BY <1>1, <1>3, FS_CardinalityType, FS_EmptySet
  <2> QED BY <2>1
<1>5. PICK c : c = HalfUp(views, n)
  OBVIOUS
<1>6. shares = [code \in R |-> c]
  BY <1>1, <1>4, <1>5 DEF PlatformBreakdown
<1>7. c \in Int /\ 2 * (n * c) - 2 * views \in (-n) .. n
  BY <1>4, <1>5, EvenShares
<1>8. SumFunctionOnSet(shares, R) = n * c
  <2>1. \A code \in R : shares[code] = c
    BY <1>6
  <2> QED BY <1>3, <1>4, <1>7, <2>1, SumConstant
<1>9. DOMAIN shares = R
  BY <1>6
<1> QED BY <1>4, <1>7, <1>8, <1>9 DEF SumFunction

\* The views of the posts, by platform or by post.
LEMMA SharesOfPosts ==
    ASSUME Figures(stats), NEW views, Posted(stats) # {},
           NEW shares, shares = PlatformBreakdown(stats, views)
    PROVE  SumFunction(shares)
             = SumFunction([p \in Posts(stats) |->
                               SumFunction([code \in Platform |-> ViewsOn(stats, p, code)])])
<1>1. PICK A, B, P : A = Posts(stats) /\ B = Platform /\ P = Posted(stats) \cap Platform
  OBVIOUS
<1>2. PICK m : m = [p \in A |-> [code \in B |-> ViewsOn(stats, p, code)]]
  OBVIOUS
<1>3. PICK w : w = [code \in B |-> [p \in A |-> ViewsOn(stats, p, code)]]
  OBVIOUS
<1>4. PICK r : r = [p \in A |-> SumFunctionOnSet(m[p], B)]
  OBVIOUS
<1>5. PICK c : c = [code \in B |-> SumFunctionOnSet(w[code], A)]
  OBVIOUS
<1>6. ASSUME NEW p \in A, NEW code \in B
      PROVE  /\ ViewsOn(stats, p, code) \in Int
             /\ code \notin Posted(stats) => ViewsOn(stats, p, code) = 0
  <2>1. PICK i \in DOMAIN stats : \E j \in DOMAIN stats[i].videos : p = <<i, j>>
    BY <1>1 DEF Posts
  <2>2. PICK j \in DOMAIN stats[i].videos : p = <<i, j>>
    BY <2>1
  <2>3. PICK v : v = stats[i].videos[j]
    OBVIOUS
  <2>4. \A x \in DOMAIN v : v[x] \in Int
    BY <2>3, ViewsTyped DEF Statistic, ToSet
  <2>5. ViewsOn(stats, p, code) = IF code \in DOMAIN v THEN v[code] ELSE 0
    BY <2>2, <2>3 DEF ViewsOn
  <2>6. DOMAIN v \subseteq Posted(stats)
    BY <1>1, <2>2, <2>3 DEF Posted
  <2> QED BY <2>4, <2>5, <2>6
<1>7. IsFiniteSet(A)
  <2>1. PICK S : S = DOMAIN stats
    OBVIOUS
  <2>2. PICK g : g = [i \in S |-> {<<i, j>> : j \in DOMAIN stats[i].videos}]
    OBVIOUS
  <2>3. IsFiniteSet(S)
    BY <2>1, ViewsTyped
  <2>4. ASSUME NEW i \in S PROVE IsFiniteSet(g[i])
    <3>1. PICK D : D = DOMAIN stats[i].videos
      OBVIOUS
    <3>2. IsFiniteSet(D)
      <4>1. PICK vs : vs = stats[i].videos
        OBVIOUS
      <4>2. vs \in Seq(ToSet(vs))
        BY <2>1, <2>4, <4>1, ViewsTyped DEF Statistic
      <4>3. DOMAIN vs = 1 .. Len(vs) /\ Len(vs) \in Nat
        BY <4>2
      <4> QED BY <3>1, <4>1, <4>3, FS_Interval
    <3>3. PICK h : h = [j \in D |-> <<i, j>>]
      OBVIOUS
    <3>4. IsFiniteSet({h[j] : j \in D})
      BY <3>2, ImageFinite
    <3>5. {h[j] : j \in D} = g[i]
      BY <2>2, <2>4, <3>1, <3>3
    <3> QED BY <3>4, <3>5
  <2>5. PICK T : T = {g[i] : i \in S}
    OBVIOUS
  <2>6. IsFiniteSet(T)
    BY <2>3, <2>5, ImageFinite, Zenon
  <2>7. \A X \in T : IsFiniteSet(X)
    BY <2>4, <2>5
  <2>8. IsFiniteSet(UNION T)
    BY <2>6, <2>7, FS_UNION
  <2>9. A = UNION T
    BY <1>1, <2>1, <2>2, <2>5 DEF Posts
  <2> QED BY <2>8, <2>9
<1>8. IsFiniteSet(B)
  BY <1>1, PlatformFinite
<1>9. SumFunctionOnSet(r, A) = SumFunctionOnSet(c, B)
  <2>1. \A a \in A, b \in B : m[a][b] \in Int /\ w[b][a] = m[a][b]
    BY <1>2, <1>3, <1>6
  <2>2. \A a \in A : r[a] = SumFunctionOnSet(m[a], B)
    BY <1>4
  <2>3. \A b \in B : c[b] = SumFunctionOnSet(w[b], A)
    BY <1>5
  <2>4. Tallied(A, B, m, w, r, c)
    BY <2>1, <2>2, <2>3 DEF Tallied
  <2> QED BY <1>7, <1>8, <2>4, SumBothWays
<1>10. ASSUME NEW b \in B
       PROVE  c[b] \in Int /\ (b \notin P => c[b] = 0)
  <2>1. PICK h : h = w[b]
    OBVIOUS
  <2>2. c[b] = SumFunctionOnSet(h, A) /\ \A a \in A : h[a] = ViewsOn(stats, a, b)
    BY <1>3, <1>5, <2>1
  <2>3. \A a \in A : h[a] \in Int
    BY <1>6, <2>2
  <2>4. SumFunctionOnSet(h, A) \in Int
    BY <1>7, <2>3, SumTakesOut
  <2>5. ASSUME b \notin P PROVE c[b] = 0
    <3>1. \A a \in A : h[a] = 0
      BY <1>1, <1>6, <2>2, <2>5
    <3>2. SumFunctionOnSet(h, A) = Cardinality(A) * 0
      BY <1>7, <3>1, SumConstant
    <3> QED BY <1>7, <2>2, <3>2, FS_CardinalityType
  <2> QED BY <2>2, <2>4, <2>5
<1>11. SumFunctionOnSet(c, B) = SumFunctionOnSet(c, P)
  <2>1. PICK Q : Q = B \ P
    OBVIOUS
  <2>2. IsFiniteSet(P) /\ IsFiniteSet(Q) /\ P \cap Q = {} /\ P \cup Q = B
    BY <1>1, <1>8, <2>1, FS_Subset
  <2>3. \A b \in P \cup Q : c[b] \in Int
    BY <1>10, <2>2
  <2>4. SumFunctionOnSet(c, P \cup Q) = SumFunctionOnSet(c, P) + SumFunctionOnSet(c, Q)
    BY <2>2, <2>3, SumUnion
  <2>5. \A b \in Q : c[b] = 0
    BY <1>10, <2>1
  <2>6. SumFunctionOnSet(c, Q) = Cardinality(Q) * 0
    BY <2>2, <2>5, SumConstant
  <2>7. SumFunctionOnSet(c, Q) = 0
    BY <2>2, <2>6, FS_CardinalityType
  <2>8. SumFunctionOnSet(c, P) \in Int
    BY <2>2, <2>3, SumTakesOut
  <2>9. PICK x, y, z : x = SumFunctionOnSet(c, P) /\ y = SumFunctionOnSet(c, Q)
                       /\ z = SumFunctionOnSet(c, P \cup Q)
    OBVIOUS
  <2>10. z = x
    BY <2>4, <2>7, <2>8, <2>9
  <2> QED BY <2>2, <2>9, <2>10
<1>12. SumFunction(shares) = SumFunctionOnSet(c, P)
  <2>1. shares = [code \in P |-> SumFunction([p \in A |-> ViewsOn(stats, p, code)])]
    BY <1>1 DEF PlatformBreakdown
  <2>2. \A b \in P : shares[b] = c[b] /\ c[b] \in Int
    <3> SUFFICES ASSUME NEW b \in P PROVE shares[b] = c[b] /\ c[b] \in Int
      OBVIOUS
    <3>1. b \in B
      BY <1>1
    <3>2. w[b] = [p \in A |-> ViewsOn(stats, p, b)]
      BY <1>3, <3>1
    <3>3. shares[b] = SumFunctionOnSet(w[b], A)
      BY <2>1, <3>2 DEF SumFunction
    <3> QED BY <1>5, <1>10, <3>1, <3>3
  <2>3. IsFiniteSet(P)
    BY <1>1, <1>8, FS_Subset
  <2>4. SumFunctionOnSet(shares, P) = SumFunctionOnSet(c, P)
    BY <2>2, <2>3, SumSame
  <2>5. DOMAIN shares = P
    BY <2>1
  <2> QED BY <2>4, <2>5 DEF SumFunction
<1>13. r = [p \in A |-> SumFunction([code \in B |-> ViewsOn(stats, p, code)])]
  <2>1. ASSUME NEW p \in A PROVE r[p] = SumFunction([code \in B |-> ViewsOn(stats, p, code)])
    BY <1>2, <1>4 DEF SumFunction
  <2> QED BY <1>4, <2>1
<1>14. SumFunction(r) = SumFunctionOnSet(r, A)
  BY <1>4 DEF SumFunction
<1> QED BY <1>1, <1>9, <1>11, <1>12, <1>13, <1>14

\* What ViewsConserved asks of a state whose data is typed.
LEMMA ViewsAreConserved == ASSUME TypeOK PROVE ViewsConserved
<1>1. Figures(stats) /\ Agreements(contracts) /\ Person(creator)
  BY DEF TypeOK
<1>2. PICK views : views = ProfileViews(creator, stats)
  OBVIOUS
<1>3. PICK shares : shares = PlatformBreakdown(stats, views)
  OBVIOUS
<1>4. views \in Int
  <2>1. TotalViews(stats) \in Int /\ Counted(creator.averageViews)
    BY <1>1, TotalTyped DEF Person, Rate
  <2> QED BY <1>2, <2>1 DEF ProfileViews, Counted
<1>5. SumFunction([key \in DOMAIN Campaigns |-> ViewsOf(Campaigns[key])]) = TotalViews(stats)
  BY <1>1, CampaignsAddUp
<1>6. ASSUME Posted(stats) = {}, DOMAIN shares # {}
      PROVE  2 * SumFunction(shares) - 2 * views
                \in - Cardinality(DOMAIN shares) .. Cardinality(DOMAIN shares)
  <2>1. Ran(stats) # {}
    BY <1>3, <1>6 DEF PlatformBreakdown
  <2> QED BY <1>1, <1>3, <1>4, <1>6, <2>1, SharesEstimated
<1>7. ASSUME Posted(stats) # {}
      PROVE  SumFunction(shares)
               = SumFunction([p \in Posts(stats) |->
                                 SumFunction([code \in Platform |-> ViewsOn(stats, p, code)])])
  BY <1>1, <1>3, <1>7, SharesOfPosts
<1> QED BY <1>2, <1>3, <1>5, <1>6, <1>7, Zenon DEF ViewsConserved

-----------------------------------------------------------------------------
(* The filters and the list.                                               *)

\* A known number is in one bucket of a facet, an unknown one in none.
LEMMA OneBucket ==
    ASSUME NEW f \in RangeFacet, NEW n, Counted(n)
    PROVE  Cardinality({b \in Buckets(f) : InBucket(n, b)}) = IF n = None THEN 0 ELSE 1
<1>1. CASE n = None
  <2>1. {b \in Buckets(f) : InBucket(n, b)} = {}
    BY <1>1 DEF InBucket
  <2> QED BY <1>1, <2>1, FS_EmptySet
<1>2. ASSUME n # None
      PROVE  \E c \in Buckets(f) : {b \in Buckets(f) : InBucket(n, b)} = {c}
  <2>1. n \in Int /\ None \notin Int
    BY <1>2, NoneAssumption DEF Counted
  <2>2. CASE f = "campaigns"
    <3>1. Buckets(f) = {<<None, 1>>, <<1, 3>>, <<3, 6>>, <<6, None>>}
      BY <2>2 DEF Buckets
    <3> QED BY <1>2, <2>1, <3>1, SMT DEF InBucket
  <2>3. CASE f = "views"
    <3>1. Buckets(f) = {<<None, 100000>>, <<100000, 1000000>>, <<1000000, 10000000>>,
                      <<10000000, None>>}
      BY <2>3 DEF Buckets
    <3> QED BY <1>2, <2>1, <3>1, SMT DEF InBucket
  <2>4. CASE f = "engagement"
    <3>1. Buckets(f) = {<<None, 10>>, <<10, 30>>, <<30, 50>>, <<50, None>>}
      BY <2>4 DEF Buckets
    <3> QED BY <1>2, <2>1, <3>1, SMT DEF InBucket
  <2>5. CASE f = "cpm"
    <3>1. Buckets(f) = {<<None, 1>>, <<1, 5>>, <<5, 10>>, <<10, None>>}
      BY <2>5 DEF Buckets
    <3> QED BY <1>2, <2>1, <3>1, SMT DEF InBucket
  <2> QED BY <2>2, <2>3, <2>4, <2>5 DEF RangeFacet
<1>3. CASE n # None
  <2>1. PICK c \in Buckets(f) : {b \in Buckets(f) : InBucket(n, b)} = {c}
    BY <1>2, <1>3
  <2> QED BY <1>3, <2>1, FS_Singleton
<1> QED BY <1>1, <1>3

\* With one range filter set and the others cleared, a row is listed if its number
\* is in the bucket.
LEMMA OneFilter ==
    ASSUME NEW r, NEW f \in RangeFacet, NEW b \in Buckets(f)
    PROVE  MatchesRow(r, [Cleared EXCEPT ![f] = b]) <=> InBucket(r[f], b)
<1>1. b # None
  BY NoneAssumption
<1>2. PICK g : g = [Cleared EXCEPT ![f] = b]
  OBVIOUS
<1>3. /\ g.query = None /\ g.usage = "All" /\ g.platform = None /\ g.risk = None
      /\ g[f] = b /\ \A h \in RangeFacet : h # f => g[h] = None
  BY <1>2 DEF Cleared, RangeFacet
<1>4. MatchesRow(r, g) <=> InBucket(r[f], b)
  BY <1>1, <1>3 DEF MatchesRow
<1> QED BY <1>2, <1>4

\* Of the buckets of a facet one, or none, lists a row.
LEMMA Bucketed ==
    ASSUME NEW r, NEW f \in RangeFacet, Counted(r[f])
    PROVE  Cardinality({b \in Buckets(f) : MatchesRow(r, [Cleared EXCEPT ![f] = b])})
              = IF r[f] = None THEN 0 ELSE 1
<1>1. {b \in Buckets(f) : MatchesRow(r, [Cleared EXCEPT ![f] = b])}
        = {b \in Buckets(f) : InBucket(r[f], b)}
  BY OneFilter
<1> QED BY <1>1, OneBucket

\* A list of the same rows, by a number, the blanks last.
InOrder(list, rows, key, asc) ==
    /\ ToSet(list) = ToSet(rows)
    /\ \A i, j \in DOMAIN list : i < j /\ list[j][key] # None =>
          /\ list[i][key] # None
          /\ IF asc THEN list[i][key] <= list[j][key] ELSE list[i][key] >= list[j][key]

\* The list is in order.
LEMMA Sorted ==
    ASSUME NEW rows, NEW N \in Nat, DOMAIN rows = 1 .. N, NEW key \in RangeFacet,
           \A i \in 1 .. N : Counted(rows[i][key]), NEW asc \in BOOLEAN,
           NEW list, list = VisibleCreators(rows, Cleared, key, asc)
    PROVE  InOrder(list, rows, key, asc)
<1>1. PICK at \in [1 .. N -> 1 .. N] :
         /\ DOMAIN list = 1 .. N
         /\ \A n \in 1 .. N : list[n] = rows[at[n]]
         /\ \A i \in 1 .. N : \E n \in 1 .. N : at[n] = i
         /\ \A m, n \in 1 .. N : m < n =>
               \/ Precedes(rows[at[m]], rows[at[n]], key, asc)
               \/ at[m] < at[n] /\ ~Precedes(rows[at[n]], rows[at[m]], key, asc)
  <2>1. Lists(list, rows, Matching(rows, Cleared), key, asc)
    BY ListedExactly
  <2>2. Matching(rows, Cleared) = 1 .. N
    BY DEF Matching, MatchesRow, Cleared, RangeFacet
  <2>3. IsFiniteSet(1 .. N) /\ Cardinality(1 .. N) = N
    <3>1. 1 \in Int /\ N \in Int
      OBVIOUS
    <3>2. IsFiniteSet(1 .. N) /\ Cardinality(1 .. N) = IF 1 > N THEN 0 ELSE N - 1 + 1
      BY <3>1, FS_Interval
    <3> QED BY <3>2
  <2>4. PICK found : found = Matching(rows, Cleared)
    OBVIOUS
  <2>5. PICK L \in Nat : \E at \in [1 .. L -> found] :
           /\ L = Cardinality(found)
           /\ DOMAIN list = 1 .. L
           /\ \A n \in 1 .. L : list[n] = rows[at[n]]
           /\ \A i \in found : \E n \in 1 .. L : at[n] = i
           /\ \A m, n \in 1 .. L : m < n =>
                 /\ at[m] # at[n]
                 /\ \/ Precedes(rows[at[m]], rows[at[n]], key, asc)
                    \/ at[m] < at[n] /\ ~Precedes(rows[at[n]], rows[at[m]], key, asc)
    BY <2>1, <2>4 DEF Lists
  <2>6. L = N /\ found = 1 .. N
    BY <2>2, <2>3, <2>4, <2>5
  <2> QED BY <2>5, <2>6
<1>3. ToSet(list) = ToSet(rows)
  <2>1. \A n \in 1 .. N : \E i \in 1 .. N : list[n] = rows[i]
    BY <1>1
  <2>2. \A i \in 1 .. N : \E n \in 1 .. N : list[n] = rows[i]
    BY <1>1
  <2>3. \A x : x \in ToSet(list) <=> \E n \in 1 .. N : x = list[n]
    BY <1>1 DEF ToSet
  <2>4. \A x : x \in ToSet(rows) <=> \E i \in 1 .. N : x = rows[i]
    BY DEF ToSet
  <2>5. ASSUME NEW x \in ToSet(list) PROVE x \in ToSet(rows)
    <3>1. PICK n \in 1 .. N : x = list[n]
      BY <2>3, <2>5
    <3>2. PICK i \in 1 .. N : list[n] = rows[i]
      BY <2>1
    <3> QED BY <2>4, <3>1, <3>2
  <2>6. ASSUME NEW x \in ToSet(rows) PROVE x \in ToSet(list)
    <3>1. PICK i \in 1 .. N : x = rows[i]
      BY <2>4, <2>6
    <3>2. PICK n \in 1 .. N : list[n] = rows[i]
      BY <2>2
    <3> QED BY <2>3, <3>1, <3>2
  <2> QED BY <2>5, <2>6
<1>4. ASSUME NEW i \in 1 .. N, NEW j \in 1 .. N, i < j, list[j][key] # None
      PROVE  /\ list[i][key] # None
             /\ IF asc THEN list[i][key] <= list[j][key] ELSE list[i][key] >= list[j][key]
  <2>1. PICK x, y : x = list[i][key] /\ y = list[j][key]
    OBVIOUS
  <2>2. x = rows[at[i]][key] /\ y = rows[at[j]][key]
    BY <1>1, <2>1
  <2>3. (x # None => x \in Int) /\ y \in Int
    <3>1. at[i] \in 1 .. N /\ at[j] \in 1 .. N
      BY <1>1
    <3>2. Counted(x) /\ Counted(y) /\ y # None
      BY <1>4, <2>1, <2>2, <3>1
    <3> QED BY <3>2 DEF Counted
  <2>4. \/ Precedes(rows[at[i]], rows[at[j]], key, asc)
        \/ ~Precedes(rows[at[j]], rows[at[i]], key, asc)
    BY <1>1, <1>4
  <2>5. \/ x # None /\ (y # None => IF asc THEN x < y ELSE x > y)
        \/ ~(y # None /\ (x # None => IF asc THEN y < x ELSE y > x))
    BY <2>2, <2>4 DEF Precedes
  <2>6. x # None /\ IF asc THEN x <= y ELSE x >= y
    <3>1. CASE asc = TRUE
      <4>1. y # None
        BY <1>4, <2>1
      <4>2. x # None /\ (x < y \/ ~(y < x))
        BY <2>5, <3>1, <4>1, Zenon
      <4> QED BY <2>3, <3>1, <4>2
    <3>2. CASE asc = FALSE
      BY <1>4, <2>1, <2>3, <2>5, <3>2
    <3> QED BY <3>1, <3>2
  <2> QED BY <2>1, <2>6
<1> QED BY <1>1, <1>3, <1>4 DEF InOrder

\* What Deal Studio is told.
LEMMA Agreed == SegmentsAgree
<1> DEFINE listed == {key \in DOMAIN Campaigns : key \in Named(contracts) \cup Named(stats)}
<1>1. DOMAIN Campaigns = KeysOf(contracts) \cup KeysOf(stats)
  BY DEF Campaigns, CampaignList
<1>2. Named(contracts) \subseteq KeysOf(contracts) /\ Named(stats) \subseteq KeysOf(stats)
  <2>1. ASSUME NEW seq PROVE Named(seq) \subseteq KeysOf(seq)
    BY DEF Named, KeysOf, CampaignKey, Or
  <2> QED BY <2>1
<1>3. listed = Named(contracts) \cup Named(stats)
  BY <1>1, <1>2
<1>4. \A asked : DOMAIN PriorCampaigns(creator, contracts, stats, asked)
                   = (Own(creator) \cup Named(contracts) \cup Named(stats)) \ {asked}
  BY DEF PriorCampaigns
<1>5. \A asked : DOMAIN PriorCampaigns(creator, contracts, stats, asked)
                   = (listed \cup Own(creator)) \ {asked}
  BY <1>3, <1>4
<1>6. RosterRow(creator, contracts, stats).segment
        = IF SignedContracts(contracts) # {} \/ stats # <<>> THEN "used" ELSE "unused"
  BY DEF RosterRow
<1>7. contracts = <<>> => SignedContracts(contracts) = {}
  BY DEF SignedContracts
<1>8. Category(contracts) # RosterRow(creator, contracts, stats).segment =>
          IF contracts = <<>> THEN stats # <<>>
          ELSE stats = <<>> /\ SignedContracts(contracts) = {}
  BY <1>6, <1>7 DEF Category
<1> QED BY <1>5, <1>8 DEF SegmentsAgree

\* The numbers of a row.
LEMMA RowCounted ==
    ASSUME Person(creator), Figures(stats), NEW f \in RangeFacet
    PROVE  Counted(RosterRow(creator, contracts, stats)[f])
<1>1. PICK row : row = RosterRow(creator, contracts, stats)
  OBVIOUS
<1>2. Counted(creator.averageViews) /\ Counted(creator.cpm) /\ Counted(creator.engagementRate)
  BY DEF Person, Rate
<1>3. Len(stats) \in Nat /\ TotalViews(stats) \in Int
  BY TotalTyped DEF Figures
<1>5. CASE f = "campaigns"
  <2>1. row.campaigns = Len(stats)
    BY <1>1 DEF RosterRow
  <2> QED BY <1>1, <1>3, <1>5, <2>1 DEF Counted
<1>6. CASE f = "views"
  <2>1. row.views = IF stats # <<>> THEN TotalViews(stats)
                    ELSE IF creator.averageViews = None THEN 0 ELSE creator.averageViews
    BY <1>1 DEF RosterRow
  <2> QED BY <1>1, <1>2, <1>3, <1>6, <2>1 DEF Counted
<1>7. CASE f = "engagement"
  <2>1. PICK rate : rate = creator.engagementRate
    OBVIOUS
  <2>2. row.engagement = EngagementTenths(rate)
    BY <1>1, <2>1 DEF RosterRow
  <2>3. CASE rate = None
    BY <1>1, <1>7, <2>2, <2>3 DEF EngagementTenths, Counted
  <2>4. CASE rate # None
    <3>1. rate \in Int
      BY <1>2, <2>1, <2>4 DEF Counted
    <3>2. EngagementTenths(rate) \in Int
      BY <2>4, <3>1, SMT DEF EngagementTenths, HalfUp
    <3> QED BY <1>1, <1>7, <2>2, <3>2 DEF Counted
  <2> QED BY <2>3, <2>4
<1>8. CASE f = "cpm"
  <2>1. row.cpm = creator.cpm
    BY <1>1 DEF RosterRow
  <2> QED BY <1>1, <1>2, <1>8, <2>1
<1> QED BY <1>5, <1>6, <1>7, <1>8 DEF RangeFacet

\* What ListSound asks of a state whose data is typed.
LEMMA ListIsSound == ASSUME TypeOK PROVE ListSound
<1> DEFINE row == RosterRow(creator, contracts, stats)
           rows == <<row>> \o Others
<1>1. row = RosterRow(creator, contracts, stats)
  OBVIOUS
<1>2. rows = <<row>> \o Others
  OBVIOUS
<1> HIDE DEF row, rows
<1>3. PICK N \in Nat : N = Len(Others) + 1
  BY OthersAssumption
<1>4. DOMAIN rows = 1 .. N /\ rows[1] = row /\ \A i \in 2 .. N : rows[i] = Others[i - 1]
  BY <1>2, <1>3, OthersAssumption
<1>5. \A i \in 2 .. N : Others[i - 1] \in ToSet(Others)
  BY <1>3, OthersAssumption DEF ToSet
<1>6. ASSUME NEW i \in 1 .. N, NEW f \in RangeFacet PROVE Counted(rows[i][f])
  <2>1. CASE i = 1
    BY <1>1, <1>4, <2>1, RowCounted DEF TypeOK
  <2>2. CASE i \in 2 .. N
    BY <1>4, <1>5, <2>2, OthersAssumption
  <2> QED BY <2>1, <2>2
<1>7. Shown["name"] # None => row.name = Shown["name"]
  <2>1. Shown["name"] = Or(FromContracts(contracts, "name"), creator.name)
    BY ProfileIs DEF Shown
  <2>2. row.name = Or(FromContracts(contracts, "name"), Or(creator.name, creator.email))
    BY <1>1 DEF RosterRow
  <2> QED BY <2>1, <2>2 DEF Or
<1>8. stats = <<>> \/ TotalViews(stats) # 0 => row.views = ProfileViews(creator, stats)
  <2>1. row.views = IF stats # <<>> THEN TotalViews(stats)
                    ELSE IF creator.averageViews = None THEN 0 ELSE creator.averageViews
    BY <1>1 DEF RosterRow
  <2> QED BY <2>1, NoViews DEF ProfileViews
<1>9. ASSUME NEW r \in ToSet(rows), NEW f \in RangeFacet
      PROVE  Cardinality({b \in Buckets(f) : MatchesRow(r, [Cleared EXCEPT ![f] = b])})
                = IF r[f] = None THEN 0 ELSE 1
  <2>1. PICK i \in 1 .. N : r = rows[i]
    BY <1>4 DEF ToSet
  <2>2. Counted(r[f])
    BY <1>6, <2>1
  <2> QED BY <2>2, Bucketed
<1>10. ASSUME NEW key \in RangeFacet, NEW asc \in BOOLEAN
       PROVE  InOrder(VisibleCreators(rows, Cleared, key, asc), rows, key, asc)
  <2>1. \A i \in 1 .. N : Counted(rows[i][key])
    BY <1>6
  <2>2. PICK list : list = VisibleCreators(rows, Cleared, key, asc)
    OBVIOUS
  <2>3. InOrder(list, rows, key, asc)
    BY <1>4, <2>1, <2>2, Sorted
  <2> QED BY <2>2, <2>3
<1>11. \A r \in ToSet(rows), f \in RangeFacet :
          Cardinality({b \in Buckets(f) : MatchesRow(r, [Cleared EXCEPT ![f] = b])})
              = IF r[f] = None THEN 0 ELSE 1
  BY <1>9
<1>12. \A key \in RangeFacet, asc \in BOOLEAN :
          LET list == VisibleCreators(rows, Cleared, key, asc) IN
          /\ ToSet(list) = ToSet(rows)
          /\ \A i, j \in DOMAIN list : i < j /\ list[j][key] # None =>
                /\ list[i][key] # None
                /\ IF asc THEN list[i][key] <= list[j][key]
                          ELSE list[i][key] >= list[j][key]
  BY <1>10 DEF InOrder
<1> QED BY <1>7, <1>8, <1>11, <1>12, Agreed, Zenon DEF ListSound, row, rows

-----------------------------------------------------------------------------
(* The theorems.                                                           *)

\* What the profile and the database hold is typed, whatever edits and contracts
\* arrive: the payout details merged are a whole record, and a contract is stored
\* once.
\* (roster.service.ts updateDetails; contracts.service.ts createFromOutreach)
THEOREM TypeCorrect == Spec => []TypeOK
<1>1. IInv => TypeOK
  BY DEF IInv
<1> QED BY <1>1, Inductive, InvariantStep, PTL DEF Spec

\* A save that nothing interfered with is shown, and is in the latest agreement.
\* (roster.service.ts updateDetails, buildContact, buildPayment)
THEOREM SavesShown == Spec => SavedEverywhere
<1>1. ASSUME IInv, NEW w \in clean, Reply(w)
      PROVE  /\ \A x \in DOMAIN tab[w].patch :
                    tab[w].patch[x] # None /\ (x = "name" => FromContracts(contracts, x) = None)
                    => Shown[x] = tab[w].patch[x]
             /\ contracts # <<>> =>
                    /\ \A f \in Sent(tab[w], Mirrored) :
                           Parties(creator, contracts[1])[f] = creator[f]
                    /\ \A k \in Sent(tab[w], Key) : contracts[1].pay[k] = creator.pay[k]
  <2>1. PICK t \in Edit : t = tab[w]
    BY <1>1 DEF IInv, TypeOK
  <2>2. t.pc = "answer" /\ Undisturbed(t)
    BY <1>1, <2>1 DEF Reply, At, IInv
  <2>3. /\ Keeps(t, Field, creator) /\ Keeps(t, Key, creator.pay)
        /\ Sent(t, Key) # {} => creator.pay # None
        /\ contracts # <<>> => Keeps(t, Mirrored, contracts[1]) /\ Keeps(t, Key, contracts[1].pay)
    BY <2>2 DEF Undisturbed
  <2>4. ASSUME NEW x \in DOMAIN t.patch, t.patch[x] # None,
               x = "name" => FromContracts(contracts, x) = None
        PROVE  Shown[x] = t.patch[x]
    <3>1. x \in Item /\ Shown = Profile(creator, contracts)
      BY DEF Edit, Patch, Shown
    <3>2. CASE x \in Field
      <4>1. creator[x] = t.patch[x]
        BY <2>3, <3>2 DEF Keeps, Sent
      <4>2. Profile(creator, contracts)["name"] = Or(FromContracts(contracts, "name"), creator["name"])
            /\ \A f \in Field \ {"name"} :
                   Profile(creator, contracts)[f] = Or(creator[f], FromContracts(contracts, f))
        BY ProfileIs
      <4> QED BY <2>4, <3>1, <3>2, <4>1, <4>2 DEF Or
    <3>3. CASE x \in Key
      <4>1. creator.pay # None /\ creator.pay[x] = t.patch[x]
        BY <2>3, <3>3 DEF Keeps, Sent
      <4> QED BY <3>1, <3>3, <4>1, ProfileIs
    <3> QED BY <3>1, <3>2, <3>3 DEF Item
  <2>5. ASSUME contracts # <<>>
        PROVE  /\ \A f \in Sent(t, Mirrored) : Parties(creator, contracts[1])[f] = creator[f]
               /\ \A k \in Sent(t, Key) : contracts[1].pay[k] = creator.pay[k]
    <3>1. \A f \in Sent(t, Mirrored) : f \in Field /\ contracts[1][f] = creator[f]
      BY <2>3, <2>5 DEF Keeps, Sent, Mirrored, Field
    <3>2. \A k \in Sent(t, Key) : contracts[1].pay[k] = creator.pay[k]
      BY <2>3, <2>5 DEF Keeps
    <3> QED BY <3>1, <3>2 DEF Parties, Or
  <2> QED BY <2>1, <2>4, <2>5
<1>2. IInv /\ [Next]_vars =>
        [\A w \in clean : Reply(w) =>
          /\ \A x \in DOMAIN tab[w].patch :
                tab[w].patch[x] # None /\ (x = "name" => FromContracts(contracts, x) = None)
                => Shown[x] = tab[w].patch[x]
          /\ contracts # <<>> =>
                /\ \A f \in Sent(tab[w], Mirrored) :
                       Parties(creator, contracts[1])[f] = creator[f]
                /\ \A k \in Sent(tab[w], Key) : contracts[1].pay[k] = creator.pay[k]]_vars
  BY <1>1
<1> QED BY <1>2, Inductive, InvariantStep, PTL DEF Spec, SavedEverywhere

\* A save that nothing interfered with changes nothing else that is shown.
\* (roster.service.ts updateDetails "merges keys")
THEOREM EditsLocal == Spec => EditIsLocal
<1>1. ASSUME IInv, NEW w \in clean, Reply(w), NEW x \in Item \ DOMAIN tab[w].patch,
             x \in Field \/ tab[w].had
      PROVE  Shown[x] = tab[w].seen[x]
  BY <1>1 DEF IInv, Undisturbed, Reply, At
<1>2. IInv /\ [Next]_vars =>
        [\A w \in clean : Reply(w) =>
          \A x \in Item \ DOMAIN tab[w].patch :
              x \in Field \/ tab[w].had => Shown[x] = tab[w].seen[x]]_vars
  BY <1>1
<1> QED BY <1>2, Inductive, InvariantStep, PTL DEF Spec, EditIsLocal

\* At every moment the list agrees with the profile and with Deal Studio, every
\* row is in the bucket of its number and no other, and sorting loses no row and
\* puts the blanks last.
\* (roster.service.ts roster, profile; creators.service.ts checkParticipation,
\* categorize; app.js ROSTER_FACETS, visibleCreators)
THEOREM ListCorrect == Spec => []ListSound
<1>1. IInv => ListSound
  BY ListIsSound DEF IInv
<1> QED BY <1>1, Inductive, InvariantStep, PTL DEF Spec

\* At every moment the campaigns of the profile add up to the views on record,
\* and the platforms' shares to the views they are a breakdown of, however many
\* contracts and statistics share a campaign, name one or name none.
\* (roster.service.ts buildCampaignList, buildPlatformBreakdown)
THEOREM ViewsKept == Spec => []ViewsConserved
<1>1. IInv => ViewsConserved
  BY ViewsAreConserved DEF IInv
<1> QED BY <1>1, Inductive, InvariantStep, PTL DEF Spec
=============================================================================
