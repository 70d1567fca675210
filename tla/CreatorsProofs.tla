--------------------------- MODULE CreatorsProofs ---------------------------
(***************************************************************************)
(* Proofs about Creators, for any number of workers, records and people:  *)
(* type correctness, and that no interleaving of transactions mixes two    *)
(* people in one record or hangs a contract off the wrong one, what a      *)
(* merge keeps, that the table implements IdentityRegistry, that nobody's  *)
(* key is taken, and that every request ends.                              *)
(*                                                                         *)
(* The argument: whatever a worker has read, the ids it holds were created *)
(* for the person its payload speaks of.  The row behind an id may change  *)
(* or disappear under the worker, but an id is never reused, so what the   *)
(* worker writes there later is still about the same person.               *)
(***************************************************************************)
EXTENDS Creators, TLAPS

\* The local variables of a worker speak of one person.
SamePerson(t) ==
    /\ t.person \in Person
    /\ Pure(t.in, t.person) /\ Pure(t.seen, t.person) /\ Pure(t.dupSeen, t.person)
    /\ t.target # None => about[t.target] = t.person
    /\ t.byEmail # None => about[t.byEmail] = t.person
    /\ \A r \in ContractRef : r = t.item \/ r \in t.moved => Signer[r] = t.person

\* The records of a mergeAll are of known people, each pair of one.
PairsSame(t) ==
    /\ \A id \in t.candidates : about[id] \in Person
    /\ \A s, d \in CreatorId : <<s, d>> \in t.pairs =>
           s # d /\ about[s] = about[d] /\ about[d] \in Person

Good(t) ==
    /\ Found(t)
    /\ PairsSame(t)
    /\ t.pc \notin {"idle", "item", "find", "pairs"} => SamePerson(t)
    /\ t.pc = "item" => \A r \in ContractRef : r = t.item => about[t.target] = Signer[r]

RowsKnown ==
    \A id \in live : about[id] \in Person /\ Pure(creators[id], about[id])

\* The inductive invariant.
IInv ==
    /\ TypeOK
    /\ RowsKnown
    /\ ContractOnSigner
    /\ \A w \in Worker : Good(task[w])

-----------------------------------------------------------------------------
(* Rows.                                                                   *)

\* Taking fields from another row of the same person keeps a row pure.
LEMMA TakePure ==
    ASSUME NEW r \in Row, NEW s \in Row, NEW fs, NEW p, Pure(r, p), Pure(s, p)
    PROVE  Take(r, s, fs) \in Row /\ Pure(Take(r, s, fs), p)
  BY DEF Row, Pure, Field, Take

\* Blank is a row of anybody.
LEMMA BlankPure == Blank \in Row /\ \A p : Pure(Blank, p)
  BY DEF Blank, Row, Pure, Field

\* A row found by an identity value of a pure row is about the same person.
LEMMA WithSamePerson ==
    ASSUME TypeOK, RowsKnown, NEW r \in Row, NEW p \in Person, Pure(r, p),
           NEW f \in Field, NEW id \in With(f, r[f])
    PROVE  /\ id \in CreatorId /\ id \in live
           /\ about[id] = p
           /\ creators[id] \in Row /\ Pure(creators[id], p)
  BY DEF TypeOK, RowsKnown, With, Pure

\* Log entries are pairs of a field and a value.
LEMMA EntriesType ==
    ASSUME NEW r \in Row, NEW fs \in SUBSET Field
    PROVE  Entries(r, fs) \subseteq Field \X Value
  BY DEF Entries, Row, Field, Value

-----------------------------------------------------------------------------
(* Tasks.                                                                  *)

\* An idle worker holds nothing.
LEMMA IdleGood == Idle \in Task /\ Good(Idle)
  BY BlankPure DEF Idle, Task, Step, Good, Found, Targeted, Merging, PairsSame

\* mergeAll between two pairs.
LEMMA BetweenPairs ==
    ASSUME NEW rest \in SUBSET (CreatorId \X CreatorId),
           NEW u, u = [Idle EXCEPT !.pc = "pairs", !.attempt = 2, !.src = "MANUAL_API",
                                   !.pairs = rest]
    PROVE  u \in Task /\ u.pc = "pairs" /\ u.pairs = rest /\ u.candidates = {}
  BY BlankPure DEF Idle, Task, Step

\* mergeAll goes on with the pairs that are left.
LEMMA DoneGood ==
    ASSUME NEW t \in Task, PairsSame(t)
    PROVE  Done(t) \in Task /\ Good(Done(t))
<1> PICK rest : rest = t.pairs \ {<<t.target, t.byEmail>>}
  OBVIOUS
<1>1. CASE rest = {}
  BY <1>1, IdleGood DEF Done
<1>2. CASE rest # {}
  <2> PICK u : u = [Idle EXCEPT !.pc = "pairs", !.attempt = 2, !.src = "MANUAL_API",
                                !.pairs = rest]
    OBVIOUS
  <2>1. Done(t) = u
    BY <1>2 DEF Done
  <2>2. rest \in SUBSET (CreatorId \X CreatorId)
    BY DEF Task
  <2>3. u \in Task /\ u.pc = "pairs" /\ u.pairs = rest /\ u.candidates = {}
    BY <2>2, BetweenPairs
  <2>4. PairsSame(u)
    BY <2>3 DEF PairsSame
  <2> QED BY <2>1, <2>3, <2>4 DEF Good, Found, Targeted, Merging
<1> QED BY <1>1, <1>2

\* A merge called on two records of one person.
LEMMA CallGood ==
    ASSUME NEW s \in CreatorId, NEW d \in CreatorId, s # d, about[s] = about[d],
           about[d] \in Person, NEW pairs \in SUBSET (CreatorId \X CreatorId),
           \A i, j \in CreatorId : <<i, j>> \in pairs =>
               i # j /\ about[i] = about[j] /\ about[j] \in Person
    PROVE  CallMerge(s, d, pairs) \in Task /\ Good(CallMerge(s, d, pairs))
<1> PICK u : u = CallMerge(s, d, pairs)
  OBVIOUS
<1>1. u \in Task /\ u.pc = "mergeRead" /\ u.person = about[d] /\ u.target = s
      /\ u.byEmail = d /\ u.pairs = pairs /\ u.candidates = {}
  BY BlankPure DEF CallMerge, Idle, Task, Step
<1>2. u.in = Blank /\ u.seen = Blank /\ u.dupSeen = Blank /\ u.item = None /\ u.moved = {}
  BY DEF CallMerge, Idle
<1>3. SamePerson(u) /\ Found(u) /\ PairsSame(u)
  BY <1>1, <1>2, BlankPure, NoneAssumption DEF SamePerson, Found, Targeted, Merging, PairsSame
<1> QED BY <1>1, <1>3 DEF Good

\* The record resolveExisting settles on becomes the target.
LEMMA SettleGood ==
    ASSUME TypeOK, NEW t \in Task, SamePerson(t), PairsSame(t), NEW id \in CreatorId,
           about[id] = t.person, NEW row \in Row, Pure(row, t.person)
    PROVE  Settle(t, id, row) \in Task /\ Good(Settle(t, id, row))
<1> PICK u : u = Settle(t, id, row)
  OBVIOUS
<1>1. ToFills(t.in, row) \in {"fillEmail", "fillHandle", "update"}
  BY DEF ToFills, ToHandleFill
<1>2. u \in Task
  BY <1>1 DEF Settle, Task, Step
<1>3. /\ u.pc \in {"fillEmail", "fillHandle", "update"} /\ u.target = id
      /\ u.byEmail = None /\ u.seen = row /\ u.in = t.in /\ u.dupSeen = t.dupSeen
      /\ u.person = t.person /\ u.item = t.item /\ u.moved = t.moved
      /\ u.candidates = t.candidates /\ u.pairs = t.pairs
  BY <1>1 DEF Settle, Task
<1>4. SamePerson(u) /\ PairsSame(u)
  BY <1>3 DEF SamePerson, PairsSame
<1>5. Found(u)
  BY <1>3, NoneAssumption DEF Found, Targeted, Merging
<1> QED BY <1>2, <1>4, <1>5, <1>3 DEF Good

\* What an upsert returns is a record of the person it was about.
LEMMA ReturnGood ==
    ASSUME NEW t \in Task, SamePerson(t), PairsSame(t), NEW id \in CreatorId,
           about[id] = t.person
    PROVE  Return(t, id) \in Task /\ Good(Return(t, id))
<1>1. CASE t.item = None
  BY <1>1, DoneGood DEF Return
<1>2. CASE t.item # None
  <2> PICK u : u = [Idle EXCEPT !.pc = "item", !.item = t.item, !.target = id]
    OBVIOUS
  <2>1. u = Return(t, id)
    BY <1>2 DEF Return
  <2>2. t.item \in ContractRef \cup Campaign \cup {None}
    BY DEF Task
  <2>3. u \in Task /\ u.pc = "item" /\ u.item = t.item /\ u.target = id
        /\ u.pairs = {} /\ u.candidates = {}
    BY <2>2, IdleGood DEF Idle, Task, Step
  <2>4. PairsSame(u) /\ Found(u)
    BY <2>3, NoneAssumption DEF PairsSame, Found, Targeted, Merging
  <2> QED BY <2>1, <2>3, <2>4 DEF Good, SamePerson
<1> QED BY <1>1, <1>2

\* A retried transaction starts from its payload.
LEMMA RetryGood ==
    ASSUME NEW t \in Task, SamePerson(t), PairsSame(t)
    PROVE  Retry(t) \in Task /\ Good(Retry(t))
<1>1. CASE t.attempt = 1
  <2> PICK u : u = [Idle EXCEPT !.pc = "email", !.in = t.in, !.person = t.person,
                                !.src = t.src, !.item = t.item, !.attempt = 2]
    OBVIOUS
  <2>1. u = Retry(t)
    BY <1>1 DEF Retry
  <2>2. /\ t.in \in Row /\ t.person \in Person
        /\ t.src \in Source \cup {"MANUAL_API", None}
        /\ t.item \in ContractRef \cup Campaign \cup {None}
    BY DEF Task, SamePerson
  <2>3. /\ u \in Task /\ u.pc = "email" /\ u.in = t.in /\ u.person = t.person
        /\ u.item = t.item /\ u.seen = Blank /\ u.dupSeen = Blank /\ u.moved = {}
        /\ u.target = None /\ u.byEmail = None /\ u.pairs = {} /\ u.candidates = {}
    BY <2>2, IdleGood DEF Idle, Task, Step
  <2>4. SamePerson(u) /\ PairsSame(u) /\ Found(u)
    BY <2>3, BlankPure DEF SamePerson, PairsSame, Found, Targeted, Merging
  <2> QED BY <2>1, <2>3, <2>4 DEF Good
<1>2. CASE t.attempt # 1
  BY <1>2, DoneGood DEF Retry
<1> QED BY <1>1, <1>2

\* A step that only changes one worker's local variables.
LEMMA TaskStep ==
    ASSUME IInv, NEW w \in Worker, NEW t \in Task, Good(t),
           task' = [task EXCEPT ![w] = t], UNCHANGED tables
    PROVE  IInv'
<1>1. \A v \in Worker : task'[v] \in Task /\ Good(task'[v])
  BY DEF IInv, TypeOK
<1>2. TypeOK'
  BY <1>1 DEF IInv, TypeOK, tables, Good
<1>3. (RowsKnown /\ ContractOnSigner)'
  BY DEF IInv, tables, RowsKnown, ContractOnSigner
<1>4. \A v \in Worker : Good(task[v])'
  BY <1>1 DEF tables, Good, SamePerson, PairsSame
<1> QED BY <1>2, <1>3, <1>4 DEF IInv

-----------------------------------------------------------------------------
(* Requests.                                                               *)

LEMMA RequestStep ==
    ASSUME IInv, NEW w \in Worker, Request(w)
    PROVE  IInv'
<1>1. CASE \E in \in Payload, src \in Source :
              \E item \in Items(src, in.person) : StartUpsert(w, in, src, item)
  <2>1. PICK in \in Payload, src \in Source :
            \E item \in Items(src, in.person) : StartUpsert(w, in, src, item)
    BY <1>1
  <2>2. PICK item \in Items(src, in.person) : StartUpsert(w, in, src, item)
    BY <2>1
  <2>3. /\ in.row \in Row /\ in.person \in Person /\ Pure(in.row, in.person)
    BY PayloadAssumption
  <2>4. /\ item \in ContractRef \cup Campaign \cup {None}
        /\ \A r \in ContractRef : r = item => Signer[r] = in.person
    BY NoneAssumption, ItemAssumption DEF Items
  <2> DEFINE t == [Idle EXCEPT !.pc = "email", !.in = in.row, !.person = in.person,
                               !.src = src, !.item = item]
  <2>5. t \in Task /\ Good(t)
    BY <2>3, <2>4, IdleGood, BlankPure
    DEF Idle, Task, Step, Good, Found, Targeted, Merging, SamePerson, PairsSame
  <2> QED BY <2>2, <2>5, TaskStep DEF StartUpsert
<1>2. CASE \E s, d \in CreatorId : StartMergePair(w, s, d)
  <2>1. PICK s \in CreatorId, d \in CreatorId : StartMergePair(w, s, d)
    BY <1>2
  <2>2. about[d] \in Person /\ about[s] = about[d] /\ s # d
    BY <2>1 DEF StartMergePair, IInv, TypeOK
  <2>3. CallMerge(s, d, {}) \in Task /\ Good(CallMerge(s, d, {}))
    BY <2>2, CallGood
  <2> QED BY <2>1, <2>3, TaskStep DEF StartMergePair
<1>3. CASE \E id \in CreatorId, in \in Edit : StartEdit(w, id, in)
  <2>1. PICK id \in CreatorId, in \in Edit : StartEdit(w, id, in)
    BY <1>3
  <2>2. /\ in.row \in Row /\ in.person \in Person /\ Pure(in.row, in.person)
        /\ creators[id] \in Row /\ Pure(creators[id], in.person)
    BY <2>1, PayloadAssumption DEF StartEdit, IInv, RowsKnown, TypeOK
  <2> DEFINE t == [Idle EXCEPT !.pc = "edit", !.in = in.row, !.person = in.person,
                               !.target = id, !.seen = creators[id]]
  <2>3. t \in Task /\ Good(t)
    BY <2>1, <2>2, IdleGood, BlankPure, NoneAssumption
    DEF Idle, Task, Step, Good, Found, Targeted, Merging, SamePerson, PairsSame, StartEdit
  <2> QED BY <2>1, <2>3, TaskStep DEF StartEdit
<1>4. CASE \E id \in CreatorId, e \in RosterEdit : StartRosterEdit(w, id, e)
  <2>1. PICK id \in CreatorId, e \in RosterEdit : StartRosterEdit(w, id, e)
    BY <1>4
  <2>2. /\ e.row \in Row /\ e.person \in Person /\ Pure(e.row, e.person)
        /\ e.clear \subseteq Field
    BY RosterAssumption
  <2> DEFINE t == [Idle EXCEPT !.pc = "roster", !.in = e.row, !.person = e.person,
                               !.target = id, !.fill = e.clear]
  <2>3. t \in Task /\ Good(t)
    BY <2>1, <2>2, IdleGood, BlankPure, NoneAssumption
    DEF Idle, Task, Step, Good, Found, Targeted, Merging, SamePerson, PairsSame, StartRosterEdit
  <2> QED BY <2>1, <2>3, TaskStep DEF StartRosterEdit
<1>5. CASE StartMergeAll(w)
  <2> PICK t : t = [Idle EXCEPT !.pc = "find", !.attempt = 2, !.src = "MANUAL_API",
                        !.candidates = {id \in live : creators[id].handle = None}]
    OBVIOUS
  <2>1. \A id \in t.candidates : id \in CreatorId /\ about[id] \in Person
    BY DEF Idle, IInv, RowsKnown, TypeOK
  <2>2. t \in Task /\ t.pc = "find" /\ t.pairs = {}
    BY <2>1, BlankPure DEF Idle, Task, Step
  <2>3. Good(t)
    BY <2>1, <2>2 DEF Good, Found, Targeted, Merging, PairsSame
  <2> QED BY <1>5, <2>2, <2>3, TaskStep DEF StartMergeAll
<1> QED BY <1>1, <1>2, <1>3, <1>4, <1>5 DEF Request

-----------------------------------------------------------------------------
(* Statements that only read.                                              *)

\* A worker in the middle of a transaction holds values of one person.
LEMMA Working ==
    ASSUME IInv, NEW w \in Worker
    PROVE  /\ task[w] \in Task /\ Good(task[w]) /\ PairsSame(task[w])
           /\ task[w].pc \notin {"idle", "item", "find", "pairs"} => SamePerson(task[w])
  BY DEF IInv, TypeOK, Good

\* find and the loop of mergeAll.
LEMMA PairStep ==
    ASSUME IInv, NEW w \in Worker, FindMasters(w) \/ NextPair(w)
    PROVE  IInv'
<1> PICK t \in Task : t = task[w]
  BY Working
<1>1. Good(t) /\ PairsSame(t)
  BY Working
<1>2. CASE FindMasters(w)
  <2> PICK pairs \in SUBSET ({id \in live : creators[id].handle # None} \X t.candidates) :
          /\ \A p \in pairs : p[1] # p[2] /\ about[p[1]] = about[p[2]]
          /\ task' = [task EXCEPT ![w] = Done([t EXCEPT !.pairs = pairs])]
    BY <1>2 DEF FindMasters
  <2> PICK u : u = [t EXCEPT !.pairs = pairs]
    OBVIOUS
  <2>1. u.pairs = pairs /\ u.candidates = t.candidates
    BY DEF Task
  <2>2. pairs \in SUBSET (CreatorId \X CreatorId)
    BY DEF IInv, TypeOK, Task
  <2>3. u \in Task
    BY <2>2 DEF Task
  <2>4. ASSUME NEW a \in CreatorId, NEW b \in CreatorId, <<a, b>> \in pairs
        PROVE  a # b /\ about[a] = about[b] /\ about[b] \in Person
    <3>1. PICK p : p = <<a, b>> /\ p \in pairs
      BY <2>4
    <3>2. p[1] = a /\ p[2] = b /\ b \in t.candidates
      BY <3>1
    <3> QED BY <1>1, <3>1, <3>2 DEF PairsSame
  <2>5. PairsSame(u)
    BY <1>1, <2>1, <2>4 DEF PairsSame
  <2>6. Done(u) \in Task /\ Good(Done(u))
    BY <2>3, <2>5, DoneGood
  <2>7. task' = [task EXCEPT ![w] = Done(u)] /\ UNCHANGED tables
    BY <1>2 DEF FindMasters
  <2> QED BY <2>6, <2>7, TaskStep
<1>3. CASE NextPair(w)
  <2> PICK p \in t.pairs : task' = [task EXCEPT ![w] = CallMerge(p[1], p[2], t.pairs)]
    BY <1>3 DEF NextPair
  <2>1. PICK a \in CreatorId, b \in CreatorId : p = <<a, b>>
    BY DEF Task
  <2>2. a # b /\ about[a] = about[b] /\ about[b] \in Person
    BY <1>1, <2>1 DEF PairsSame
  <2>3. CallMerge(a, b, t.pairs) \in Task /\ Good(CallMerge(a, b, t.pairs))
    BY <1>1, <2>2, CallGood DEF Task, PairsSame
  <2> QED BY <1>3, <2>1, <2>3, TaskStep DEF NextPair
<1> QED BY <1>2, <1>3

LEMMA LookUpStep ==
    ASSUME IInv, NEW w \in Worker,
           SettleByEmail(w) \/ FoundByHandle(w) \/ FindByName(w)
    PROVE  IInv'
<1>1. task[w] \in Task /\ SamePerson(task[w]) /\ PairsSame(task[w])
  BY Working DEF SettleByEmail, FoundByHandle, FindByName
<1>2. \A f \in Field : \A id \in With(f, task[w].in[f]) :
          /\ Settle(task[w], id, creators[id]) \in Task
          /\ Good(Settle(task[w], id, creators[id]))
  <2> TAKE f \in Field
  <2> TAKE id \in With(f, task[w].in[f])
  <2>1. task[w].in \in Row /\ task[w].person \in Person
        /\ Pure(task[w].in, task[w].person)
    BY <1>1 DEF Task, SamePerson
  <2>2. /\ id \in CreatorId /\ about[id] = task[w].person
        /\ creators[id] \in Row /\ Pure(creators[id], task[w].person)
    BY <2>1, WithSamePerson DEF IInv
  <2> QED BY <1>1, <2>2, SettleGood DEF IInv
<1>3. CASE \E f \in Field : \E id \in With(f, task[w].in[f]) :
               /\ task' = [task EXCEPT ![w] = Settle(task[w], id, creators[id])]
               /\ UNCHANGED tables
  BY <1>2, <1>3, TaskStep
<1>4. CASE /\ task' = [task EXCEPT ![w].pc = "create"]
           /\ UNCHANGED tables
  <2> DEFINE t == [task[w] EXCEPT !.pc = "create"]
  <2>1. t \in Task /\ Good(t)
    BY <1>1 DEF Task, Step, Good, Found, Targeted, Merging, SamePerson, PairsSame
  <2>2. task' = [task EXCEPT ![w] = t]
    BY <1>4
  <2> QED BY <1>4, <2>1, <2>2, TaskStep
<1>5. CASE SettleByEmail(w)
  BY <1>3, <1>5 DEF SettleByEmail, Field
<1>6. CASE FoundByHandle(w)
  BY <1>3, <1>6 DEF FoundByHandle, Field
<1>7. CASE FindByName(w)
  BY <1>3, <1>4, <1>7 DEF FindByName, Field
<1> QED BY <1>5, <1>6, <1>7

\* Moving on without a record: the worker keeps what it holds.
LEMMA LookPastStep ==
    ASSUME IInv, NEW w \in Worker,
           LookPastEmail(w) \/ FoundSplit(w) \/ KeepEmailMatch(w) \/ NoHandleMatch(w)
    PROVE  IInv'
<1> DEFINE t == task[w]
<1>1. t \in Task /\ SamePerson(t) /\ PairsSame(t)
  BY Working DEF LookPastEmail, FoundSplit, KeepEmailMatch, NoHandleMatch
<1>2. t.in \in Row /\ t.person \in Person /\ Pure(t.in, t.person)
  BY <1>1 DEF Task, SamePerson
<1>3. CASE LookPastEmail(w)
  <2>1. CASE task' = [task EXCEPT ![w].pc = "handle"]
    <3> DEFINE u == [t EXCEPT !.pc = "handle"]
    <3>1. u \in Task /\ Good(u)
      BY <1>1 DEF Task, Step, Good, Found, Targeted, Merging, SamePerson, PairsSame
    <3>2. task' = [task EXCEPT ![w] = u]
      BY <2>1
    <3> QED BY <1>3, <3>1, <3>2, TaskStep DEF LookPastEmail
  <2>2. CASE \E id \in With("email", t.in.email) :
                 task' = [task EXCEPT ![w].pc = "handle", ![w].byEmail = id,
                                      ![w].seen = creators[id]]
    <3>1. PICK id \in With("email", t.in.email) :
              task' = [task EXCEPT ![w].pc = "handle", ![w].byEmail = id,
                                   ![w].seen = creators[id]]
      BY <2>2
    <3> DEFINE u == [t EXCEPT !.pc = "handle", !.byEmail = id, !.seen = creators[id]]
    <3>2. /\ id \in CreatorId /\ about[id] = t.person
          /\ creators[id] \in Row /\ Pure(creators[id], t.person)
      BY <1>2, WithSamePerson DEF IInv, Field
    <3>3. u \in Task /\ Good(u)
      BY <1>1, <3>2 DEF Task, Step, Good, Found, Targeted, Merging, SamePerson, PairsSame
    <3>4. task' = [task EXCEPT ![w] = u]
      BY <3>1
    <3> QED BY <1>3, <3>3, <3>4, TaskStep DEF LookPastEmail
  <2> QED BY <1>3, <2>1, <2>2 DEF LookPastEmail
<1>4. CASE FoundSplit(w)
  <2>1. PICK id \in With("handle", t.in.handle) \ {t.byEmail} :
            task' = [task EXCEPT ![w].pc = "mergeRead", ![w].target = id]
    BY <1>4 DEF FoundSplit
  <2> DEFINE u == [t EXCEPT !.pc = "mergeRead", !.target = id]
  <2>2. id \in CreatorId /\ about[id] = t.person
    BY <1>2, WithSamePerson DEF IInv, Field
  <2>3. u \in Task /\ Good(u)
    BY <1>1, <1>4, <2>2, NoneAssumption
    DEF Task, Step, Good, Found, Targeted, Merging, SamePerson, PairsSame, FoundSplit
  <2>4. task' = [task EXCEPT ![w] = u]
    BY <2>1
  <2> QED BY <1>4, <2>3, <2>4, TaskStep DEF FoundSplit
<1>5. CASE KeepEmailMatch(w)
  <2>1. t.byEmail \in CreatorId /\ about[t.byEmail] = t.person
    BY <1>1, <1>5 DEF KeepEmailMatch, SamePerson, Task
  <2>2. t.seen \in Row /\ Pure(t.seen, t.person)
    BY <1>1 DEF SamePerson, Task
  <2>3. Settle(t, t.byEmail, t.seen) \in Task /\ Good(Settle(t, t.byEmail, t.seen))
    BY <1>1, <2>1, <2>2, SettleGood DEF IInv
  <2> QED BY <1>5, <2>3, TaskStep DEF KeepEmailMatch
<1>6. CASE NoHandleMatch(w)
  <2> DEFINE u == [t EXCEPT !.pc = IF t.in.name # None THEN "name" ELSE "create"]
  <2>1. u \in Task /\ Good(u)
    BY <1>1 DEF Task, Step, Good, Found, Targeted, Merging, SamePerson, PairsSame
  <2>2. task' = [task EXCEPT ![w] = u]
    BY <1>6 DEF NoHandleMatch
  <2> QED BY <1>6, <2>1, <2>2, TaskStep DEF NoHandleMatch
<1> QED BY <1>3, <1>4, <1>5, <1>6

LEMMA FillStep ==
    ASSUME IInv, NEW w \in Worker, FillEmail(w) \/ FillHandle(w)
    PROVE  IInv'
<1> DEFINE t == task[w]
<1>1. t \in Task /\ SamePerson(t) /\ PairsSame(t) /\ t.target # None
  BY Working DEF FillEmail, FillHandle, Good, Found, Targeted
<1>2. CASE FillEmail(w)
  <2> DEFINE u == [t EXCEPT !.pc = ToHandleFill(t.in, t.seen),
                            !.fill = IF With("email", t.in.email) \subseteq {t.target}
                                     THEN @ \cup {"email"} ELSE @]
  <2>1. u \in Task /\ Good(u)
    BY <1>1
    DEF Task, Step, Good, Found, Targeted, Merging, SamePerson, PairsSame, ToHandleFill, Field
  <2>2. task' = [task EXCEPT ![w] = u]
    BY <1>2 DEF FillEmail
  <2> QED BY <1>2, <2>1, <2>2, TaskStep DEF FillEmail
<1>3. CASE FillHandle(w)
  <2> DEFINE u == [t EXCEPT !.pc = "update",
                            !.fill = IF With("handle", t.in.handle) \subseteq {t.target}
                                     THEN @ \cup {"handle"} ELSE @]
  <2>1. u \in Task /\ Good(u)
    BY <1>1 DEF Task, Step, Good, Found, Targeted, Merging, SamePerson, PairsSame, Field
  <2>2. task' = [task EXCEPT ![w] = u]
    BY <1>3 DEF FillHandle
  <2> QED BY <1>3, <2>1, <2>2, TaskStep DEF FillHandle
<1> QED BY <1>2, <1>3

\* Giving up or starting over.
LEMMA RefusedStep ==
    ASSUME IInv, NEW w \in Worker,
           CreateClash(w) \/ UpdateRefused(w) \/ MergeRefused(w) \/ Abort(w)
    PROVE  IInv'
<1>1. CASE task' = [task EXCEPT ![w] = Idle] /\ UNCHANGED tables
  BY <1>1, IdleGood, TaskStep
<1>0. CASE task' = [task EXCEPT ![w] = Done(task[w])] /\ UNCHANGED tables
  BY <1>0, Working, DoneGood, TaskStep
<1>2. ASSUME task[w].pc \in {"create", "update", "mergeDelete"}
      PROVE  Retry(task[w]) \in Task /\ Good(Retry(task[w]))
  BY <1>2, Working, RetryGood
<1>3. CASE CreateClash(w)
  BY <1>2, <1>3, TaskStep DEF CreateClash
<1>4. CASE UpdateRefused(w)
  BY <1>1, <1>2, <1>4, TaskStep DEF UpdateRefused
<1>5. CASE MergeRefused(w)
  BY <1>0, <1>2, <1>5, TaskStep DEF MergeRefused
<1>6. CASE Abort(w)
  BY <1>0, <1>1, <1>6 DEF Abort
<1> QED BY <1>3, <1>4, <1>5, <1>6

LEMMA MergeReadStep ==
    ASSUME IInv, NEW w \in Worker, MergeRead(w) \/ MergeMove(w)
    PROVE  IInv'
<1> DEFINE t == task[w]
<1>1. /\ t \in Task /\ SamePerson(t) /\ PairsSame(t)
      /\ t.target \in CreatorId /\ t.byEmail \in CreatorId
      /\ t.target # None /\ t.byEmail \notin {None, t.target}
  BY Working DEF MergeRead, MergeMove, Good, Found, Targeted, Merging, Task
<1>2. CASE MergeRead(w) /\ ~({t.target, t.byEmail} \subseteq live)
  BY <1>1, <1>2, DoneGood, TaskStep DEF MergeRead
<1>3. CASE MergeRead(w) /\ {t.target, t.byEmail} \subseteq live
  <2> DEFINE u == [t EXCEPT !.pc = "mergeMove",
                            !.seen = creators[t.target],
                            !.dupSeen = creators[t.byEmail],
                            !.moved = {c \in Campaign :
                                         /\ <<t.byEmail, c>> \in stats
                                         /\ <<t.target, c>> \notin stats}]
  <2>1. /\ creators[t.target] \in Row /\ Pure(creators[t.target], t.person)
        /\ creators[t.byEmail] \in Row /\ Pure(creators[t.byEmail], t.person)
    BY <1>1, <1>3 DEF SamePerson, IInv, RowsKnown, TypeOK
  <2>2. u \in Task /\ Good(u)
    BY <1>1, <2>1, ItemAssumption
    DEF Task, Step, Good, Found, Targeted, Merging, SamePerson, PairsSame
  <2>3. task' = [task EXCEPT ![w] = u]
    BY <1>3 DEF MergeRead
  <2> QED BY <1>3, <2>2, <2>3, TaskStep DEF MergeRead
<1>4. CASE MergeMove(w)
  <2> DEFINE u == [t EXCEPT !.pc = "mergeDelete",
                            !.moved = @ \cup {r \in ContractRef :
                                                contracts[r] = t.byEmail}]
  <2>1. \A r \in ContractRef : contracts[r] = t.byEmail => Signer[r] = t.person
    BY <1>1 DEF SamePerson, IInv, ContractOnSigner
  <2>2. u \in Task /\ Good(u)
    BY <1>1, <2>1 DEF Task, Step, Good, Found, Targeted, Merging, SamePerson, PairsSame
  <2>3. task' = [task EXCEPT ![w] = u]
    BY <1>4 DEF MergeMove
  <2> QED BY <1>4, <2>2, <2>3, TaskStep DEF MergeMove
<1> QED BY <1>2, <1>3, <1>4 DEF MergeRead

-----------------------------------------------------------------------------
(* Statements that write.                                                  *)

\* An id keeps its person for ever, so what a worker holds stays good whatever
\* happens to the rows.
LEMMA GoodStays ==
    ASSUME NEW t \in Task, Good(t),
           \A id \in CreatorId : about[id] # None => about'[id] = about[id]
    PROVE  Good(t)'
<1>1. \A id \in CreatorId : about[id] \in Person => about'[id] = about[id]
  BY NoneAssumption
<1>2. PairsSame(t)'
  BY <1>1 DEF Good, PairsSame, Task
<1>3. CASE t.pc \notin {"idle", "item", "find", "pairs"}
  BY <1>1, <1>2, <1>3 DEF Good, SamePerson, Task
<1>4. CASE t.pc = "item"
  BY <1>1, <1>2, <1>4, SignerAssumption DEF Good, Found, Targeted, Task
<1>5. CASE t.pc \in {"idle", "find", "pairs"}
  BY <1>2, <1>5 DEF Good
<1> QED BY <1>3, <1>4, <1>5

LEMMA GoodKept ==
    ASSUME IInv, NEW w \in Worker, NEW t \in Task, Good(t)',
           task' = [task EXCEPT ![w] = t],
           \A id \in CreatorId : about[id] # None => about'[id] = about[id]
    PROVE  /\ task' \in [Worker -> Task]
           /\ \A v \in Worker : Found(task'[v])
           /\ \A v \in Worker : Good(task[v])'
<1>1. task' \in [Worker -> Task]
  BY DEF IInv, TypeOK
<1>2. \A v \in Worker \ {w} : Good(task[v])'
  <2> TAKE v \in Worker \ {w}
  <2>1. task'[v] = task[v] /\ task[v] \in Task /\ Good(task[v])
    BY Working DEF IInv, TypeOK
  <2> QED BY <2>1, GoodStays
<1>3. \A v \in Worker : Good(task[v])'
  BY <1>2 DEF IInv, TypeOK
<1> QED BY <1>1, <1>3 DEF Good

\* An update of one record with fields of a row of the same person.
LEMMA WriteStep ==
    ASSUME IInv, NEW w \in Worker, NEW t \in Task, Good(t),
           task' = [task EXCEPT ![w] = t],
           NEW id \in live, NEW in \in Row, Pure(in, about[id]),
           NEW fs \in SUBSET Field,
           creators' = [creators EXCEPT ![id] = Take(@, in, fs)],
           audit' \in {audit, [audit EXCEPT ![id] = @ \cup Entries(in, fs)]},
           UNCHANGED <<live, about, contracts, stats>>
    PROVE  IInv'
<1>1. id \in CreatorId /\ about[id] \in Person
      /\ creators[id] \in Row /\ Pure(creators[id], about[id])
  BY DEF IInv, TypeOK, RowsKnown
<1>2. /\ Take(creators[id], in, fs) \in Row
      /\ Pure(Take(creators[id], in, fs), about[id])
  BY <1>1, TakePure
<1>3. RowsKnown'
  BY <1>1, <1>2 DEF IInv, TypeOK, RowsKnown
<1>4. Good(t)'
  BY DEF Good, SamePerson, PairsSame
<1>5. /\ task' \in [Worker -> Task] /\ \A v \in Worker : Found(task'[v])
      /\ \A v \in Worker : Good(task[v])'
  BY <1>4, GoodKept
<1>6. audit' \in [CreatorId -> SUBSET (Field \X Value)]
  BY <1>1, EntriesType DEF IInv, TypeOK
<1>7. TypeOK'
  BY <1>2, <1>5, <1>6 DEF IInv, TypeOK
<1>8. ContractOnSigner'
  BY DEF IInv, ContractOnSigner
<1> QED BY <1>3, <1>5, <1>7, <1>8 DEF IInv

LEMMA ChangeType ==
    ASSUME NEW in, NEW row
    PROVE  Overwrites(in, row) \subseteq Field /\ KeyChange(in, row) \subseteq Field
  BY DEF Overwrites, KeyChange, Field, Key

LEMMA UpdateStep ==
    ASSUME IInv, NEW w \in Worker, Update(w)
    PROVE  IInv'
<1> DEFINE t == task[w]
           changes == Overwrites(t.in, t.seen) \cup t.fill
<1>1. /\ t \in Task /\ SamePerson(t) /\ PairsSame(t)
      /\ t.target \in CreatorId /\ about[t.target] = t.person
      /\ t.in \in Row /\ Pure(t.in, t.person) /\ changes \in SUBSET Field
  BY Working, ChangeType DEF Update, Good, Found, Targeted, Task, SamePerson
<1>2. Return(t, t.target) \in Task /\ Good(Return(t, t.target))
  BY <1>1, ReturnGood
<1>3. task' = [task EXCEPT ![w] = Return(t, t.target)]
  BY DEF Update
<1>4. CASE changes = {}
  BY <1>2, <1>3, <1>4, TaskStep DEF Update
<1>5. CASE changes # {}
  <2>1. Write(t.target, t.in, changes)
    BY <1>5 DEF Update
  <2> QED BY <1>1, <1>2, <1>3, <2>1, WriteStep DEF Write
<1> QED BY <1>4, <1>5

LEMMA EditStep ==
    ASSUME IInv, NEW w \in Worker, CommitEdit(w) \/ CommitRosterEdit(w)
    PROVE  IInv'
<1> DEFINE t == task[w]
<1>1. /\ t \in Task /\ SamePerson(t) /\ PairsSame(t)
      /\ t.target \in CreatorId /\ about[t.target] = t.person
      /\ t.in \in Row /\ Pure(t.in, t.person) /\ t.fill \in SUBSET Field
  BY Working DEF CommitEdit, CommitRosterEdit, Good, Found, Targeted, Task, SamePerson
<1>2. task' = [task EXCEPT ![w] = Idle]
  BY DEF CommitEdit, CommitRosterEdit
<1>3. CASE UNCHANGED tables
  BY <1>2, <1>3, IdleGood, TaskStep
<1>4. CASE CommitEdit(w) /\ ~UNCHANGED tables
  <2> DEFINE changes == Overwrites(t.in, t.seen) \cup KeyChange(t.in, t.seen)
  <2>1. Write(t.target, t.in, changes) /\ changes \in SUBSET Field
    BY <1>4, ChangeType DEF CommitEdit
  <2> QED BY <1>1, <1>2, <2>1, IdleGood, WriteStep DEF Write
<1>5. CASE CommitRosterEdit(w) /\ ~UNCHANGED tables
  <2> DEFINE fs == {f \in Field : t.in[f] # None} \cup t.fill
  <2>1. /\ t.target \in live /\ fs \in SUBSET Field
        /\ creators' = [creators EXCEPT ![t.target] = Take(@, t.in, fs)]
        /\ UNCHANGED <<live, about, contracts, stats, audit>>
    BY <1>1, <1>5 DEF CommitRosterEdit
  <2> QED BY <1>1, <1>2, <2>1, IdleGood, WriteStep
<1> QED BY <1>3, <1>4, <1>5

LEMMA CreateStep ==
    ASSUME IInv, NEW w \in Worker, Create(w)
    PROVE  IInv'
<1> PICK t \in Task : t = task[w]
  BY Working
<1>1. /\ SamePerson(t) /\ PairsSame(t)
      /\ t.in \in Row /\ t.person \in Person /\ Pure(t.in, t.person)
  BY Working DEF Create, Task, SamePerson
<1>2. PICK id \in CreatorId :
          /\ about[id] = None
          /\ creators' = [creators EXCEPT ![id] = t.in]
          /\ live' = live \cup {id}
          /\ about' = [about EXCEPT ![id] = t.person]
          /\ task' = [task EXCEPT ![w] = Return(t, id)]
  BY DEF Create
<1>3. UNCHANGED <<contracts, stats, audit>>
  BY DEF Create
<1>4. about \in [CreatorId -> Person \cup {None}] /\ about'[id] = t.person
  BY <1>2 DEF IInv, TypeOK
<1>5. Return(t, id) \in Task /\ Good(Return(t, id))'
  <2>1. CASE t.item = None
    <3>1. Return(t, id) = Done(t)
      BY <2>1 DEF Return
    <3> QED BY <1>1, <1>2, <3>1, DoneGood, GoodStays DEF IInv, TypeOK
  <2>2. CASE t.item # None
    <3> DEFINE u == Return(t, id)
    <3>1. u = [Idle EXCEPT !.pc = "item", !.item = t.item, !.target = id]
      BY <2>2 DEF Return
    <3>2. /\ u \in Task /\ u.pc = "item" /\ u.item = t.item /\ u.target = id
          /\ u.pairs = {} /\ u.candidates = {}
      BY <3>1, IdleGood DEF Task, Step, Idle
    <3> HIDE DEF u
    <3>3. \A r \in ContractRef : r = u.item => about'[u.target] = Signer[r]
      BY <1>1, <1>4, <3>2 DEF SamePerson
    <3> QED BY <3>2, <3>3, NoneAssumption DEF Good, Found, Targeted, Merging, PairsSame, u
  <2> QED BY <2>1, <2>2
<1>6. /\ task' \in [Worker -> Task] /\ \A v \in Worker : Found(task'[v])
      /\ \A v \in Worker : Good(task[v])'
  BY <1>2, <1>4, <1>5, GoodKept
<1>7. TypeOK'
  BY <1>1, <1>2, <1>3, <1>6 DEF IInv, TypeOK
<1>8. RowsKnown'
  BY <1>1, <1>2, <1>4 DEF IInv, TypeOK, RowsKnown
<1>9. ContractOnSigner'
  <2>1. id \notin live
    BY <1>2, NoneAssumption DEF IInv, RowsKnown
  <2> QED BY <1>2, <1>3, <1>4, <2>1 DEF IInv, TypeOK, ContractOnSigner
<1> QED BY <1>6, <1>7, <1>8, <1>9 DEF IInv

\* The survivor after a merge is a row of the person both records were about.
LEMMA AbsorbedGood ==
    ASSUME NEW t \in Task, SamePerson(t), creators[t.target] \in Row,
           Pure(creators[t.target], t.person)
    PROVE  /\ Absorbed(t) \in Row /\ Pure(Absorbed(t), t.person)
           /\ MergeFills(t) \in SUBSET Field
           /\ MergedChanges(t) \in SUBSET Field
<1>1. /\ t.dupSeen \in Row /\ Pure(t.dupSeen, t.person)
      /\ t.in \in Row /\ Pure(t.in, t.person)
  BY DEF Task, SamePerson
<1>2. Merged(t) \in Row /\ Pure(Merged(t), t.person)
  BY <1>1, TakePure DEF Merged
<1>3. Absorbed(t) \in Row /\ Pure(Absorbed(t), t.person)
  BY <1>1, <1>2, TakePure DEF Absorbed
<1>4. MergeFills(t) \in SUBSET Field /\ MergedChanges(t) \in SUBSET Field
  BY ChangeType DEF MergeFills, MergedChanges, Field, Fillable, Key
<1> QED BY <1>3, <1>4

LEMMA MergeDeleteStep ==
    ASSUME IInv, NEW w \in Worker, MergeDelete(w)
    PROVE  IInv'
<1> PICK t \in Task : t = task[w]
  BY Working
<1> DEFINE s == t.target
           d == t.byEmail
<1>1. /\ SamePerson(t) /\ PairsSame(t)
      /\ s \in CreatorId /\ d \in CreatorId /\ s # d
      /\ about[s] = t.person /\ about[d] = t.person
      /\ t.dupSeen \in Row /\ t.in \in Row
  BY Working DEF MergeDelete, Good, Found, Targeted, Merging, Task, SamePerson
<1>2. /\ s \in live /\ d \in live
      /\ creators' = [creators EXCEPT ![s] = Absorbed(t), ![d] = Blank]
      /\ live' = live \ {d}
      /\ contracts' = [r \in ContractRef |->
             IF r \in t.moved THEN s
             ELSE IF contracts[r] = d THEN None ELSE contracts[r]]
      /\ stats' = (stats \ ({d} \X Campaign)) \cup ({s} \X (t.moved \cap Campaign))
      /\ audit' = [audit EXCEPT
             ![s] = @ \cup audit[d] \cup Entries(t.dupSeen, MergeFills(t))
                      \cup Entries(t.in, MergedChanges(t)),
             ![d] = {}]
      /\ task' = [task EXCEPT ![w] = Return(t, s)]
      /\ about' = about
  BY DEF MergeDelete
<1>3. creators[s] \in Row /\ Pure(creators[s], t.person)
  BY <1>1, <1>2 DEF IInv, RowsKnown, TypeOK
<1>4. /\ Absorbed(t) \in Row /\ Pure(Absorbed(t), t.person)
      /\ MergeFills(t) \in SUBSET Field /\ MergedChanges(t) \in SUBSET Field
  BY <1>1, <1>3, AbsorbedGood
<1>5. Return(t, s) \in Task /\ Good(Return(t, s))
  BY <1>1, ReturnGood
<1>6. Good(Return(t, s))'
  BY <1>2, <1>5 DEF Good, SamePerson, PairsSame
<1>7. /\ task' \in [Worker -> Task] /\ \A v \in Worker : Found(task'[v])
      /\ \A v \in Worker : Good(task[v])'
  BY <1>2, <1>5, <1>6, GoodKept
<1>8. TypeOK'
  <2>1. creators' \in [CreatorId -> Row]
    BY <1>2, <1>4, BlankPure DEF IInv, TypeOK
  <2>2. /\ Entries(t.dupSeen, MergeFills(t)) \subseteq
              Field \X Value
        /\ Entries(t.in, MergedChanges(t)) \subseteq
              Field \X Value
    BY <1>1, <1>4, EntriesType
  <2>3. audit' \in [CreatorId -> SUBSET (Field \X Value)]
    BY <1>1, <1>2, <2>2 DEF IInv, TypeOK
  <2>4. stats' \subseteq CreatorId \X Campaign
    BY <1>1, <1>2 DEF IInv, TypeOK
  <2>5. contracts' \in [ContractRef -> CreatorId \cup {None}]
    BY <1>1, <1>2 DEF IInv, TypeOK
  <2> QED BY <1>2, <1>7, <2>1, <2>3, <2>4, <2>5 DEF IInv, TypeOK
<1>9. RowsKnown'
  BY <1>1, <1>2, <1>4 DEF IInv, TypeOK, RowsKnown
<1>10. ContractOnSigner'
  BY <1>1, <1>2, NoneAssumption DEF IInv, ContractOnSigner, SamePerson
<1> QED BY <1>7, <1>8, <1>9, <1>10 DEF IInv

LEMMA StoreStep ==
    ASSUME IInv, NEW w \in Worker, StoreContract(w) \/ StoreStats(w)
    PROVE  IInv'
<1>1. /\ task' = [task EXCEPT ![w] = Idle]
      /\ UNCHANGED <<creators, live, about, audit>>
  BY DEF StoreContract, StoreStats
<1>2. Good(Idle)'
  BY <1>1, IdleGood DEF Good, SamePerson, PairsSame
<1>3. /\ task' \in [Worker -> Task] /\ \A v \in Worker : Found(task'[v])
      /\ \A v \in Worker : Good(task[v])'
  BY <1>1, <1>2, IdleGood, GoodKept
<1>4. /\ task[w].pc = "item" /\ task[w].target \in CreatorId
      /\ Good(task[w])
  BY Working DEF StoreContract, StoreStats, Good, Found, Targeted, Task
<1>5. /\ contracts' \in [ContractRef -> CreatorId \cup {None}]
      /\ stats' \subseteq CreatorId \X Campaign
  BY <1>4 DEF IInv, TypeOK, StoreContract, StoreStats
<1>6. ContractOnSigner'
  BY <1>1, <1>4 DEF IInv, TypeOK, ContractOnSigner, StoreContract, StoreStats, Good
<1>7. TypeOK' /\ RowsKnown'
  BY <1>1, <1>3, <1>5 DEF IInv, TypeOK, RowsKnown
<1> QED BY <1>3, <1>6, <1>7 DEF IInv

\* Whatever is deleted under a worker, what it holds stays about one person.
LEMMA RemoveStep ==
    ASSUME IInv, NEW id \in CreatorId, Remove(id)
    PROVE  IInv'
<1>1. \A w \in Worker : Good(task[w])'
  BY DEF IInv, Remove, Good, SamePerson, PairsSame
<1>2. TypeOK'
  BY BlankPure DEF IInv, TypeOK, Remove
<1>3. RowsKnown'
  BY DEF IInv, TypeOK, RowsKnown, Remove
<1>4. ContractOnSigner'
  BY NoneAssumption DEF IInv, TypeOK, ContractOnSigner, Remove
<1> QED BY <1>1, <1>2, <1>3, <1>4 DEF IInv

-----------------------------------------------------------------------------
(* The invariant.                                                          *)

LEMMA InitGood == Init => IInv
  BY IdleGood, BlankPure DEF Init, IInv, TypeOK, RowsKnown, ContractOnSigner, Good

\* No step of any worker, and no deletion, disturbs the invariant.
LEMMA NextGood == IInv /\ [Next]_vars => IInv'
<1> SUFFICES ASSUME IInv, [Next]_vars PROVE IInv'
  OBVIOUS
<1>1. CASE UNCHANGED vars
  BY <1>1 DEF vars, IInv, TypeOK, RowsKnown, ContractOnSigner, Good, SamePerson, PairsSame
<1>2. ASSUME NEW w \in Worker, Statement(w) PROVE IInv'
  BY <1>2, PairStep, LookUpStep, LookPastStep, FillStep, RefusedStep, MergeReadStep,
     CreateStep, UpdateStep, MergeDeleteStep, StoreStep, EditStep
  DEF Statement
<1>3. ASSUME NEW w \in Worker, Request(w) \/ Abort(w) PROVE IInv'
  BY <1>3, RequestStep, RefusedStep
<1>4. ASSUME NEW id \in CreatorId, Remove(id) PROVE IInv'
  BY <1>4, RemoveStep
<1> QED BY <1>1, <1>2, <1>3, <1>4 DEF Next

LEMMA Inductive == Spec => []IInv
<1>1. Init => IInv
  BY InitGood
<1>2. IInv /\ [Next]_vars => IInv'
  BY NextGood
<1> QED BY <1>1, <1>2, PTL DEF Spec

\* Type correctness: every column and local variable keeps its type, and no
\* step acts on a record it has not found.
THEOREM TypeCorrect == Spec => []TypeOK
<1>1. IInv => TypeOK
  BY DEF IInv
<1> QED BY <1>1, Inductive, PTL

\* However the upserts, merges, edits and deletions of any number of workers
\* interleave, no creator row ever holds identity values of two people.
THEOREM PureRecords == Spec => []RecordsPure
<1>1. IInv => RecordsPure
  BY DEF IInv, RowsKnown, RecordsPure
<1> QED BY <1>1, Inductive, PTL

\* A contract stored with an id read earlier, and moved by any number of merges
\* since, still hangs off a living record of the person who signed it.
THEOREM ContractsOnSigner == Spec => []ContractOnSigner
<1>1. IInv => ContractOnSigner
  BY DEF IInv
<1> QED BY <1>1, Inductive, PTL

-----------------------------------------------------------------------------
(* Fills: what a source writes into an identity key.                       *)

\* A worker only plans to write fields its payload gives, and keys it has read
\* empty; the roster form is the one writer that clears fields.
Intended(t) ==
    /\ t.pc \in {"email", "handle", "name"} => t.fill = {}
    /\ t.pc = "fillEmail" => t.in.email # None /\ t.seen.email = None
    /\ t.pc = "fillHandle" => t.in.handle # None /\ t.seen.handle = None
    /\ t.pc \in {"fillEmail", "fillHandle", "update"} => \A f \in t.fill : t.seen[f] = None
    /\ t.pc # "roster" => \A f \in t.fill : t.in[f] # None
    /\ t.pc = "roster" => RosterEdit # {}

\* Only mergeAll has candidates and pairs, the pair it merges among them.
Listed(t) ==
    /\ t.candidates # {} => t.pc = "find"
    /\ t.pairs # {} => t.pc \in {"pairs"} \cup Merging
    /\ t.pc \in Merging /\ t.pairs # {} => <<t.target, t.byEmail>> \in t.pairs

Planned(t) == Intended(t) /\ Listed(t)

FillGiven == \A w \in Worker : Planned(task[w])

LEMMA OneTask ==
    ASSUME IInv, FillGiven, NEW w \in Worker, NEW t, Planned(t),
           task' = [task EXCEPT ![w] = t]
    PROVE  FillGiven'
  BY DEF IInv, TypeOK, FillGiven, Planned, Intended, Listed

\* The worker keeps its payload and its fills, and looks at something else.
LEMMA NewStep ==
    ASSUME NEW t, Planned(t), NEW u,
           u.in = t.in, u.fill = t.fill, u.candidates = t.candidates, u.pairs = t.pairs,
           \/ t.pc = "email" /\ u.pc = "handle"
           \/ t.pc = "handle" /\ u.pc \in {"mergeRead", "name", "create"}
           \/ t.pc = "name" /\ u.pc = "create"
           \/ /\ t.pc = "mergeRead" /\ u.pc = "mergeMove"
              /\ u.target = t.target /\ u.byEmail = t.byEmail
           \/ /\ t.pc = "mergeMove" /\ u.pc = "mergeDelete"
              /\ u.target = t.target /\ u.byEmail = t.byEmail
    PROVE  Planned(u)
  BY DEF Planned, Intended, Listed, Merging

LEMMA SettlePlanned ==
    ASSUME NEW t \in Task, Planned(t), t.pc \in {"email", "handle", "name"}, NEW id, NEW row
    PROVE  Planned(Settle(t, id, row))
<1> PICK u : u = Settle(t, id, row)
  OBVIOUS
<1>1. /\ u.pc = ToFills(t.in, row) /\ u.in = t.in /\ u.seen = row /\ u.fill = t.fill
      /\ u.candidates = t.candidates /\ u.pairs = t.pairs
  BY DEF Settle, Task
<1>2. u.fill = {} /\ u.candidates = {} /\ u.pairs = {}
  BY <1>1 DEF Planned, Intended, Listed, Merging
<1> QED BY <1>1, <1>2 DEF Planned, Intended, Listed, ToFills, ToHandleFill, Merging

LEMMA FreshPlanned ==
    ASSUME NEW t \in Task, NEW id
    PROVE  Planned(Idle) /\ Planned(Done(t)) /\ Planned(Return(t, id)) /\ Planned(Retry(t))
<1>1. Planned(Idle)
  BY DEF Planned, Intended, Listed, Idle, Merging
<1>2. Planned(Done(t))
  <2> PICK rest : rest = t.pairs \ {<<t.target, t.byEmail>>}
    OBVIOUS
  <2>1. CASE rest = {}
    BY <1>1, <2>1 DEF Done
  <2>2. CASE rest # {}
    <3> PICK u : u = [Idle EXCEPT !.pc = "pairs", !.attempt = 2, !.src = "MANUAL_API",
                                  !.pairs = rest]
      OBVIOUS
    <3>1. u.pc = "pairs" /\ u.candidates = {} /\ u.fill = {}
      BY DEF Idle
    <3>2. Planned(u)
      BY <3>1 DEF Planned, Intended, Listed, Merging
    <3> QED BY <2>2, <3>2 DEF Done
  <2> QED BY <2>1, <2>2
<1>3. Planned(Return(t, id))
  BY <1>2 DEF Return, Planned, Intended, Listed, Idle, Merging
<1>4. Planned(Retry(t))
  BY <1>2 DEF Retry, Planned, Intended, Listed, Idle, Merging
<1> QED BY <1>1, <1>2, <1>3, <1>4

LEMMA CallPlanned ==
    ASSUME NEW s, NEW d, NEW pairs, pairs # {} => <<s, d>> \in pairs
    PROVE  Planned(CallMerge(s, d, pairs))
<1> PICK u : u = CallMerge(s, d, pairs)
  OBVIOUS
<1>1. /\ u.pc = "mergeRead" /\ u.target = s /\ u.byEmail = d /\ u.pairs = pairs
      /\ u.candidates = {} /\ u.fill = {}
  BY DEF CallMerge, Idle
<1> QED BY <1>1 DEF Planned, Intended, Listed, Merging

LEMMA StatementPlanned ==
    ASSUME IInv, FillGiven, NEW w \in Worker, Statement(w)
    PROVE  FillGiven'
<1> PICK t \in Task : t = task[w]
  BY Working
<1>1. Planned(t)
  BY DEF FillGiven
<1>2. CASE \E id, row : /\ task' = [task EXCEPT ![w] = Settle(t, id, row)]
                        /\ t.pc \in {"email", "handle", "name"}
  BY <1>1, <1>2, SettlePlanned, OneTask
<1>3. CASE \E u \in {Idle, Done(t), Retry(t)} : task' = [task EXCEPT ![w] = u]
  BY <1>3, FreshPlanned, OneTask
<1>4. CASE \E id : task' = [task EXCEPT ![w] = Return(t, id)]
  BY <1>4, FreshPlanned, OneTask
<1>5. CASE SettleByEmail(w) \/ FoundByHandle(w) \/ KeepEmailMatch(w)
  BY <1>2, <1>5 DEF SettleByEmail, FoundByHandle, KeepEmailMatch
<1>6. CASE CreateClash(w) \/ UpdateRefused(w) \/ MergeRefused(w)
  BY <1>3, <1>6 DEF CreateClash, UpdateRefused, MergeRefused
<1>7. CASE Create(w) \/ Update(w) \/ MergeDelete(w)
  BY <1>4, <1>7 DEF Create, Update, MergeDelete
<1>8. CASE StoreContract(w) \/ StoreStats(w) \/ CommitEdit(w) \/ CommitRosterEdit(w)
  BY <1>3, <1>8 DEF StoreContract, StoreStats, CommitEdit, CommitRosterEdit
<1>9. CASE LookPastEmail(w)
  <2>1. CASE task' = [task EXCEPT ![w].pc = "handle"]
    <3> PICK u : u = [t EXCEPT !.pc = "handle"]
      OBVIOUS
    <3>1. /\ u.pc = "handle" /\ t.pc = "email" /\ u.in = t.in /\ u.fill = t.fill
          /\ u.candidates = t.candidates /\ u.pairs = t.pairs
      BY <1>9 DEF LookPastEmail, Task
    <3>2. Planned(u)
      BY <1>1, <3>1, NewStep
    <3>3. task' = [task EXCEPT ![w] = u]
      BY <2>1
    <3> QED BY <3>2, <3>3, OneTask
  <2>2. ASSUME NEW id, task' = [task EXCEPT ![w].pc = "handle", ![w].byEmail = id,
                                            ![w].seen = creators[id]]
        PROVE  FillGiven'
    <3> PICK u : u = [t EXCEPT !.pc = "handle", !.byEmail = id, !.seen = creators[id]]
      OBVIOUS
    <3>1. /\ u.pc = "handle" /\ t.pc = "email" /\ u.in = t.in /\ u.fill = t.fill
          /\ u.candidates = t.candidates /\ u.pairs = t.pairs
      BY <1>9 DEF LookPastEmail, Task
    <3>2. Planned(u)
      BY <1>1, <3>1, NewStep
    <3>3. task' = [task EXCEPT ![w] = u]
      BY <2>2
    <3> QED BY <3>2, <3>3, OneTask
  <2> QED BY <1>9, <2>1, <2>2 DEF LookPastEmail
<1>10. CASE FoundSplit(w)
  <2> PICK id : task' = [task EXCEPT ![w].pc = "mergeRead", ![w].target = id]
    BY <1>10 DEF FoundSplit
  <2> PICK u : u = [t EXCEPT !.pc = "mergeRead", !.target = id]
    OBVIOUS
  <2>1. /\ u.pc = "mergeRead" /\ t.pc = "handle" /\ u.in = t.in /\ u.fill = t.fill
        /\ u.candidates = t.candidates /\ u.pairs = t.pairs
    BY <1>10 DEF FoundSplit, Task
  <2>2. Planned(u)
    BY <1>1, <2>1, NewStep
  <2> QED BY <2>2, OneTask
<1>11. CASE NoHandleMatch(w) \/ (FindByName(w) /\ task' = [task EXCEPT ![w].pc = "create"])
  <2> PICK pc \in {"name", "create"} : task' = [task EXCEPT ![w].pc = pc]
    BY <1>11 DEF NoHandleMatch
  <2> PICK u : u = [t EXCEPT !.pc = pc]
    OBVIOUS
  <2>1. /\ u.pc = pc /\ (t.pc = "handle" \/ (t.pc = "name" /\ u.pc = "create"))
        /\ u.in = t.in /\ u.fill = t.fill
        /\ u.candidates = t.candidates /\ u.pairs = t.pairs
    <3>1. CASE NoHandleMatch(w)
      BY <3>1 DEF NoHandleMatch, Task
    <3>2. CASE FindByName(w) /\ task' = [task EXCEPT ![w].pc = "create"]
      BY <3>2 DEF FindByName, Task, IInv, TypeOK
    <3> QED BY <1>11, <3>1, <3>2
  <2>2. Planned(u)
    BY <1>1, <2>1, NewStep
  <2> QED BY <2>2, OneTask
<1>12. CASE FindByName(w) /\ ~(task' = [task EXCEPT ![w].pc = "create"])
  BY <1>2, <1>12 DEF FindByName
<1>13. CASE MergeRead(w)
  <2> DEFINE moved == {c \in Campaign : /\ <<t.byEmail, c>> \in stats
                                        /\ <<t.target, c>> \notin stats}
  <2>1. CASE task' = [task EXCEPT ![w] = Done(t)]
    BY <1>3, <2>1
  <2>2. CASE task' = [task EXCEPT ![w].pc = "mergeMove", ![w].seen = creators[t.target],
                                  ![w].dupSeen = creators[t.byEmail], ![w].moved = moved]
    <3> PICK u : u = [t EXCEPT !.pc = "mergeMove", !.seen = creators[t.target],
                               !.dupSeen = creators[t.byEmail], !.moved = moved]
      OBVIOUS
    <3>1. /\ u.pc = "mergeMove" /\ t.pc = "mergeRead" /\ u.in = t.in /\ u.fill = t.fill
          /\ u.candidates = t.candidates /\ u.pairs = t.pairs
          /\ u.target = t.target /\ u.byEmail = t.byEmail
      BY <1>13 DEF MergeRead, Task
    <3>2. Planned(u)
      BY <1>1, <3>1, NewStep
    <3>3. task' = [task EXCEPT ![w] = u]
      BY <2>2
    <3> QED BY <3>2, <3>3, OneTask
  <2> QED BY <1>13, <2>1, <2>2 DEF MergeRead
<1>14. CASE MergeMove(w)
  <2> PICK u : u = [t EXCEPT !.pc = "mergeDelete",
                             !.moved = @ \cup {r \in ContractRef : contracts[r] = t.byEmail}]
    OBVIOUS
  <2>1. /\ u.pc = "mergeDelete" /\ t.pc = "mergeMove" /\ u.in = t.in /\ u.fill = t.fill
        /\ u.candidates = t.candidates /\ u.pairs = t.pairs
        /\ u.target = t.target /\ u.byEmail = t.byEmail
    BY <1>14 DEF MergeMove, Task
  <2>2. Planned(u)
    BY <1>1, <2>1, NewStep
  <2>3. task' = [task EXCEPT ![w] = u]
    BY <1>14 DEF MergeMove
  <2> QED BY <2>2, <2>3, OneTask
<1>15. CASE FillEmail(w)
  <2> PICK u : u = [t EXCEPT !.pc = ToHandleFill(t.in, t.seen),
                             !.fill = IF With("email", t.in.email) \subseteq {t.target}
                                      THEN @ \cup {"email"} ELSE @]
    OBVIOUS
  <2>1. /\ t.pc = "fillEmail" /\ u.pc = ToHandleFill(t.in, t.seen) /\ u.in = t.in
        /\ u.seen = t.seen /\ u.fill \subseteq t.fill \cup {"email"}
        /\ u.candidates = t.candidates /\ u.pairs = t.pairs
    BY <1>15 DEF FillEmail, Task
  <2>2. u.candidates = {} /\ u.pairs = {}
    BY <1>1, <2>1 DEF Planned, Listed, Merging
  <2>3. Planned(u)
    BY <1>1, <2>1, <2>2 DEF Planned, Intended, Listed, ToHandleFill, Merging
  <2>4. task' = [task EXCEPT ![w] = u]
    BY <1>15 DEF FillEmail
  <2> QED BY <2>3, <2>4, OneTask
<1>16. CASE FillHandle(w)
  <2> PICK u : u = [t EXCEPT !.pc = "update",
                             !.fill = IF With("handle", t.in.handle) \subseteq {t.target}
                                      THEN @ \cup {"handle"} ELSE @]
    OBVIOUS
  <2>1. /\ t.pc = "fillHandle" /\ u.pc = "update" /\ u.in = t.in
        /\ u.seen = t.seen /\ u.fill \subseteq t.fill \cup {"handle"}
        /\ u.candidates = t.candidates /\ u.pairs = t.pairs
    BY <1>16 DEF FillHandle, Task
  <2>2. u.candidates = {} /\ u.pairs = {}
    BY <1>1, <2>1 DEF Planned, Listed, Merging
  <2>3. Planned(u)
    BY <1>1, <2>1, <2>2 DEF Planned, Intended, Listed, Merging
  <2>4. task' = [task EXCEPT ![w] = u]
    BY <1>16 DEF FillHandle
  <2> QED BY <2>3, <2>4, OneTask
<1>17. CASE FindMasters(w)
  <2> PICK pairs \in SUBSET ({id \in live : creators[id].handle # None} \X t.candidates) :
          task' = [task EXCEPT ![w] = Done([t EXCEPT !.pairs = pairs])]
    BY <1>17 DEF FindMasters
  <2> PICK u : u = [t EXCEPT !.pairs = pairs]
    OBVIOUS
  <2>1. pairs \in SUBSET (CreatorId \X CreatorId)
    BY DEF IInv, TypeOK, Task
  <2>2. u \in Task
    BY <2>1 DEF Task
  <2> QED BY <2>2, FreshPlanned, OneTask
<1>18. CASE NextPair(w)
  <2> PICK p \in t.pairs : task' = [task EXCEPT ![w] = CallMerge(p[1], p[2], t.pairs)]
    BY <1>18 DEF NextPair
  <2>1. PICK a \in CreatorId, b \in CreatorId : p = <<a, b>>
    BY DEF Task
  <2>2. Planned(CallMerge(a, b, t.pairs))
    BY <2>1, CallPlanned
  <2> QED BY <2>1, <2>2, OneTask
<1> QED BY <1>5, <1>6, <1>7, <1>8, <1>9, <1>10, <1>11, <1>12, <1>13, <1>14, <1>15, <1>16,
           <1>17, <1>18 DEF Statement

LEMMA FillGivenInductive == Spec => [](IInv /\ FillGiven)
<1>1. Init => FillGiven
  BY FreshPlanned, IdleGood DEF Init, FillGiven
<1>2. IInv /\ FillGiven /\ [Next]_vars => FillGiven'
  <2> SUFFICES ASSUME IInv, FillGiven, [Next]_vars PROVE FillGiven'
    OBVIOUS
  <2>1. CASE UNCHANGED vars
    BY <2>1 DEF vars, FillGiven, Planned, Intended, Listed
  <2>2. ASSUME NEW w \in Worker, Statement(w) PROVE FillGiven'
    BY <2>2, StatementPlanned
  <2>3. ASSUME NEW w \in Worker, Request(w) PROVE FillGiven'
    <3>1. ASSUME NEW in, NEW src, NEW item, StartUpsert(w, in, src, item)
          PROVE  FillGiven'
      <4> DEFINE t == [Idle EXCEPT !.pc = "email", !.in = in.row,
                                   !.person = in.person, !.src = src, !.item = item]
      <4>1. Planned(t)
        BY DEF Planned, Intended, Listed, Idle, Merging
      <4> QED BY <3>1, <4>1, OneTask DEF StartUpsert
    <3>2. ASSUME NEW s, NEW d, StartMergePair(w, s, d) PROVE FillGiven'
      <4>1. Planned(CallMerge(s, d, {}))
        BY CallPlanned
      <4> QED BY <3>2, <4>1, OneTask DEF StartMergePair
    <3>3. ASSUME NEW id, NEW in, StartEdit(w, id, in) PROVE FillGiven'
      <4> DEFINE t == [Idle EXCEPT !.pc = "edit", !.in = in.row,
                                   !.person = in.person, !.target = id,
                                   !.seen = creators[id]]
      <4>1. Planned(t)
        BY DEF Planned, Intended, Listed, Idle, Merging
      <4> QED BY <3>3, <4>1, OneTask DEF StartEdit
    <3>4. ASSUME NEW id, NEW e \in RosterEdit, StartRosterEdit(w, id, e)
          PROVE  FillGiven'
      <4> DEFINE t == [Idle EXCEPT !.pc = "roster", !.in = e.row,
                                   !.person = e.person, !.target = id,
                                   !.fill = e.clear]
      <4>1. Planned(t)
        BY DEF Planned, Intended, Listed, Idle, Merging
      <4> QED BY <3>4, <4>1, OneTask DEF StartRosterEdit
    <3>5. ASSUME StartMergeAll(w) PROVE FillGiven'
      <4> PICK t : t = [Idle EXCEPT !.pc = "find", !.attempt = 2, !.src = "MANUAL_API",
                            !.candidates = {id \in live : creators[id].handle = None}]
        OBVIOUS
      <4>1. t.pc = "find" /\ t.pairs = {} /\ t.fill = {}
        BY DEF Idle
      <4>2. Planned(t)
        BY <4>1 DEF Planned, Intended, Listed, Merging
      <4> QED BY <3>5, <4>2, OneTask DEF StartMergeAll
    <3> QED BY <2>3, <3>1, <3>2, <3>3, <3>4, <3>5 DEF Request
  <2>4. ASSUME NEW w \in Worker, Abort(w) PROVE FillGiven'
    BY <2>4, Working, FreshPlanned, IdleGood, OneTask DEF Abort
  <2>5. ASSUME NEW id \in CreatorId, Remove(id) PROVE FillGiven'
    BY <2>5 DEF Remove, FillGiven, Planned, Intended, Listed
  <2> QED BY <2>1, <2>2, <2>3, <2>4, <2>5 DEF Next
<1> QED BY <1>1, <1>2, Inductive, PTL DEF Spec

\* No step but the roster form clears a field of a record that survives the
\* step; one that sets a field logs it.
LEMMA FieldStep ==
    ASSUME IInv, FillGiven, Next, NEW id \in live \cap live', NEW f \in Field,
           creators[id][f] # creators'[id][f]
    PROVE  \/ \E w \in Worker : Steps(w, "roster")
           \/ creators'[id][f] # None /\ <<f, creators'[id][f]>> \in audit'[id]
<1>1. id \in CreatorId /\ about[id] \in Person /\ creators[id] \in Row
  BY DEF IInv, TypeOK, RowsKnown
<1>2. ASSUME NEW in \in Row, NEW fs \in SUBSET Field, NEW i \in CreatorId,
             Write(i, in, fs), \A g \in fs : in[g] # None
      PROVE  creators'[id][f] # None /\ <<f, creators'[id][f]>> \in audit'[id]
  <2>1. i = id /\ f \in fs /\ creators'[id][f] = in[f]
    BY <1>1, <1>2 DEF Write, Take, Field, IInv, TypeOK
  <2>2. <<f, in[f]>> \in Entries(in, fs)
    BY <1>2, <2>1 DEF Entries
  <2>3. audit'[id] = audit[id] \cup Entries(in, fs)
    BY <1>1, <1>2, <2>1 DEF Write, IInv, TypeOK
  <2> QED BY <1>2, <2>1, <2>2, <2>3
<1>3. ASSUME NEW w \in Worker, Request(w) \/ Abort(w) PROVE FALSE
  BY <1>3 DEF Request, Abort, StartUpsert, StartMergePair, StartMergeAll, StartEdit,
              StartRosterEdit, tables
<1>4. ASSUME NEW i \in CreatorId, Remove(i) PROVE FALSE
  BY <1>1, <1>4 DEF Remove, IInv, TypeOK
<1>5. PICK w \in Worker : Statement(w)
  BY <1>3, <1>4 DEF Next
<1>6. PICK t \in Task : t = task[w]
  BY Working
<1>7. t.in \in Row /\ t.dupSeen \in Row /\ Intended(t)
  BY <1>6 DEF Task, FillGiven, Planned
<1>8. CASE Create(w)
  BY <1>1, <1>8, NoneAssumption DEF Create, IInv, TypeOK
<1>9. CASE Update(w)
  <2> DEFINE changes == Overwrites(t.in, t.seen) \cup t.fill
  <2>1. changes \in SUBSET Field /\ \A g \in changes : t.in[g] # None
    BY <1>6, <1>7, <1>9 DEF Update, Intended, Overwrites, Task, Field
  <2>2. t.target \in CreatorId /\ Write(t.target, t.in, changes)
    BY <1>6, <1>9, Working DEF Update, tables, Good, Found, Targeted, Task
  <2> QED BY <1>2, <1>7, <2>1, <2>2
<1>10. CASE CommitEdit(w)
  <2> DEFINE changes == Overwrites(t.in, t.seen) \cup KeyChange(t.in, t.seen)
  <2>1. changes \in SUBSET Field /\ \A g \in changes : t.in[g] # None
    BY DEF Overwrites, KeyChange, Key, Field
  <2>2. t.target \in CreatorId /\ Write(t.target, t.in, changes)
    BY <1>6, <1>10, Working DEF CommitEdit, tables, Good, Found, Targeted, Task
  <2> QED BY <1>2, <1>7, <2>1, <2>2
<1>11. CASE CommitRosterEdit(w)
  BY <1>6, <1>11 DEF CommitRosterEdit, Steps, IInv, TypeOK, Idle
<1>12. CASE MergeDelete(w)
  <2>1. /\ t.target \in CreatorId /\ t.byEmail \in CreatorId /\ t.target # t.byEmail
        /\ creators' = [creators EXCEPT ![t.target] = Absorbed(t), ![t.byEmail] = Blank]
        /\ live' = live \ {t.byEmail}
        /\ audit' = [audit EXCEPT
               ![t.target] = @ \cup audit[t.byEmail]
                               \cup Entries(t.dupSeen, MergeFills(t))
                               \cup Entries(t.in, MergedChanges(t)),
               ![t.byEmail] = {}]
    BY <1>6, <1>12, Working DEF MergeDelete, Good, Found, Targeted, Merging, Task
  <2>2. id = t.target /\ creators'[id] = Absorbed(t)
    BY <1>1, <2>1 DEF IInv, TypeOK
  <2>3. Entries(t.dupSeen, MergeFills(t)) \cup Entries(t.in, MergedChanges(t))
            \subseteq audit'[id]
    BY <1>1, <2>1, <2>2 DEF IInv, TypeOK
  <2>4. CASE f \in MergedChanges(t)
    <3>1. t.in[f] # None /\ Absorbed(t)[f] = t.in[f]
      BY <2>4 DEF Absorbed, Take, MergedChanges, Overwrites, Key, Field
    <3>2. <<f, t.in[f]>> \in Entries(t.in, MergedChanges(t))
      BY <2>4, <3>1 DEF Entries
    <3> QED BY <2>2, <2>3, <3>1, <3>2
  <2>5. CASE f \notin MergedChanges(t)
    <3>1. Absorbed(t)[f] = Merged(t)[f]
      BY <2>5 DEF Absorbed, Take, Field
    <3>2. f \in MergeFills(t) /\ Merged(t)[f] = t.dupSeen[f]
      BY <2>2, <3>1 DEF Merged, Take, Field
    <3>3. t.dupSeen[f] # None
      BY <3>2 DEF MergeFills
    <3>4. <<f, t.dupSeen[f]>> \in Entries(t.dupSeen, MergeFills(t))
      BY <3>2, <3>3 DEF Entries
    <3> QED BY <2>2, <2>3, <3>1, <3>2, <3>3, <3>4
  <2> QED BY <2>4, <2>5
<1>13. UNCHANGED creators \/ Create(w) \/ Update(w) \/ CommitEdit(w)
       \/ CommitRosterEdit(w) \/ MergeDelete(w)
  BY <1>5 DEF Statement, FindMasters, NextPair, SettleByEmail, LookPastEmail, FoundSplit,
     KeepEmailMatch, FoundByHandle, NoHandleMatch, FindByName, FillEmail, FillHandle, CreateClash,
     UpdateRefused, MergeRead, MergeMove, MergeRefused, StoreContract, StoreStats,
     tables
<1> QED BY <1>8, <1>9, <1>10, <1>11, <1>12, <1>13

\* An id keeps its person.
LEMMA AboutKept ==
    ASSUME IInv, Next, NEW id \in live, about[id] \in Person
    PROVE  about'[id] = about[id]
<1>1. ASSUME NEW w \in Worker, Request(w) \/ Abort(w) PROVE UNCHANGED about
  BY <1>1 DEF Request, Abort, StartUpsert, StartMergePair, StartMergeAll, StartEdit,
              StartRosterEdit, tables
<1>2. ASSUME NEW i \in CreatorId, Remove(i) PROVE UNCHANGED about
  BY <1>2 DEF Remove
<1>3. ASSUME NEW w \in Worker, Create(w) PROVE about'[id] = about[id]
  BY <1>3, NoneAssumption DEF Create, IInv, TypeOK
<1>4. ASSUME NEW w \in Worker, Statement(w), ~Create(w) PROVE UNCHANGED about
  BY <1>4 DEF Statement, FindMasters, NextPair, SettleByEmail, LookPastEmail, FoundSplit,
     KeepEmailMatch, FoundByHandle, NoHandleMatch, FindByName, FillEmail, FillHandle, CreateClash,
     Update, Write, UpdateRefused, MergeRead, MergeMove, MergeDelete, MergeRefused,
     StoreContract, StoreStats, CommitEdit, CommitRosterEdit, tables
<1> QED BY <1>1, <1>2, <1>3, <1>4 DEF Next

\* The people the sources speak of have one email and one handle each.
OneKeyEach ==
    \A f \in Key : \A p \in Person : \A r, q \in Row :
        Pure(r, p) /\ Pure(q, p) /\ r[f] # None /\ q[f] # None => r[f] = q[f]

\* A key a record has stays as long as the record, but for the roster form.
LEMMA KeyKept ==
    ASSUME OneKeyEach, IInv, IInv', FillGiven, Next,
           NEW id \in live \cap live', NEW f \in Key, creators[id][f] # None,
           ~\E w \in Worker : Steps(w, "roster")
    PROVE  creators'[id][f] = creators[id][f]
<1> SUFFICES ASSUME creators'[id][f] # creators[id][f] PROVE FALSE
  OBVIOUS
<1>1. id \in CreatorId /\ about[id] \in Person
      /\ creators[id] \in Row /\ Pure(creators[id], about[id])
  BY DEF IInv, TypeOK, RowsKnown
<1>2. creators'[id] \in Row /\ Pure(creators'[id], about'[id])
  BY <1>1 DEF IInv, TypeOK, RowsKnown
<1>3. creators'[id][f] # None
  BY FieldStep DEF Key, Field
<1>4. about'[id] = about[id]
  BY <1>1, AboutKept
<1> QED BY <1>1, <1>2, <1>3, <1>4 DEF OneKeyEach

\* A source replaces a key of a record only in a transaction that has read it empty.
FilledAsRead ==
    [][\A id \in live \cap live', f \in Key :
          \/ creators[id][f] \in {None, creators'[id][f]}
          \/ \E w \in Worker : Steps(w, "edit") \/ Steps(w, "roster")
          \/ \E w \in Worker : /\ Steps(w, "update") \/ Steps(w, "mergeDelete")
                               /\ task[w].target = id /\ task[w].seen[f] = None]_vars

LEMMA KeyRead ==
    ASSUME IInv, FillGiven, Next, NEW id \in live \cap live', NEW f \in Key,
           creators[id][f] \notin {None, creators'[id][f]},
           ~\E w \in Worker : Steps(w, "edit") \/ Steps(w, "roster")
    PROVE  \E w \in Worker : /\ \/ Update(w) /\ Steps(w, "update")
                                \/ MergeDelete(w) /\ Steps(w, "mergeDelete")
                             /\ task[w].target = id /\ task[w].seen[f] = None
<1>1. id \in CreatorId /\ creators[id] \in Row
  BY DEF IInv, TypeOK
<1>2. ASSUME NEW w \in Worker, Request(w) \/ Abort(w) PROVE FALSE
  BY <1>2 DEF Request, Abort, StartUpsert, StartMergePair, StartMergeAll, StartEdit,
              StartRosterEdit, tables
<1>3. ASSUME NEW i \in CreatorId, Remove(i) PROVE FALSE
  BY <1>1, <1>3 DEF Remove, IInv, TypeOK
<1>4. PICK w \in Worker : Statement(w)
  BY <1>2, <1>3 DEF Next
<1>5. PICK t \in Task : t = task[w]
  BY Working
<1>6. /\ Intended(t) /\ task \in [Worker -> Task]
      /\ \A i : Return(t, i).pc \in {"idle", "item", "pairs"}
  BY <1>5 DEF FillGiven, Planned, Return, Done, Idle, IInv, TypeOK
<1>7. CASE Create(w)
  BY <1>1, <1>7, NoneAssumption DEF Create, IInv, TypeOK, RowsKnown
<1>8. CASE Update(w)
  <2> DEFINE changes == Overwrites(t.in, t.seen) \cup t.fill
  <2>1. Write(t.target, t.in, changes)
    BY <1>5, <1>8 DEF Update, tables
  <2>2. t.target = id /\ f \in changes
    BY <1>1, <2>1 DEF Write, Take, Key, IInv, TypeOK
  <2>3. t.seen[f] = None
    BY <1>5, <1>6, <1>8, <2>2 DEF Update, Intended, Overwrites
  <2>4. Steps(w, "update")
    BY <1>5, <1>6, <1>8 DEF Update, Steps
  <2> QED BY <1>5, <1>8, <2>2, <2>3, <2>4
<1>9. CASE CommitEdit(w) \/ CommitRosterEdit(w)
  <2>1. Steps(w, "edit") \/ Steps(w, "roster")
    BY <1>6, <1>9 DEF CommitEdit, CommitRosterEdit, Steps, Idle
  <2> QED BY <2>1
<1>10. CASE MergeDelete(w)
  <2>1. /\ t.target \in CreatorId /\ t.byEmail \in CreatorId /\ t.target # t.byEmail
        /\ creators' = [creators EXCEPT ![t.target] = Absorbed(t), ![t.byEmail] = Blank]
        /\ live' = live \ {t.byEmail}
    BY <1>5, <1>10, Working DEF MergeDelete, Good, Found, Targeted, Merging, Task
  <2>2. id = t.target /\ creators'[id] = Absorbed(t)
    BY <1>1, <2>1 DEF IInv, TypeOK
  <2>3. t.seen[f] = None
    <3> SUFFICES ASSUME t.seen[f] # None PROVE FALSE
      OBVIOUS
    <3>1. f \notin MergeFills(t)
      BY DEF MergeFills
    <3>2. Merged(t)[f] = creators[id][f]
      BY <2>2, <3>1 DEF Merged, Take, Key
    <3>3. MergedBase(t)[f] # None
      BY <3>2 DEF MergedBase
    <3>4. f \notin MergedChanges(t)
      BY <3>3 DEF MergedChanges, Overwrites
    <3>5. Absorbed(t)[f] = Merged(t)[f]
      BY <3>4 DEF Absorbed, Take, Key
    <3> QED BY <2>2, <3>2, <3>5
  <2>4. Steps(w, "mergeDelete")
    BY <1>5, <1>6, <1>10 DEF MergeDelete, Steps
  <2> QED BY <1>5, <1>10, <2>2, <2>3, <2>4
<1>11. UNCHANGED creators \/ Create(w) \/ Update(w) \/ CommitEdit(w)
       \/ CommitRosterEdit(w) \/ MergeDelete(w)
  BY <1>4 DEF Statement, FindMasters, NextPair, SettleByEmail, LookPastEmail, FoundSplit,
     KeepEmailMatch, FoundByHandle, NoHandleMatch, FindByName, FillEmail, FillHandle,
     CreateClash, UpdateRefused, MergeRead, MergeMove, MergeRefused, StoreContract,
     StoreStats, tables
<1> QED BY <1>7, <1>8, <1>9, <1>10, <1>11

\* Whatever interleaves, and whatever keys the payloads bring, an upsert or a merge
\* replaces a key only where its own transaction had read none: what it may overwrite
\* is a key that came between its read and its write.
\* (creators.service.ts applyIdentityFills; creator-merge.service.ts doMerge)
THEOREM KeysFilledAsRead == Spec => FilledAsRead
<1> DEFINE Fills == \A id \in live \cap live', f \in Key :
          \/ creators[id][f] \in {None, creators'[id][f]}
          \/ \E w \in Worker : Steps(w, "edit") \/ Steps(w, "roster")
          \/ \E w \in Worker : /\ Steps(w, "update") \/ Steps(w, "mergeDelete")
                               /\ task[w].target = id /\ task[w].seen[f] = None
<1>1. IInv /\ FillGiven /\ [Next]_vars => [Fills]_vars
  BY KeyRead
<1> QED BY <1>1, FillGivenInductive, PTL DEF Spec, FilledAsRead

\* The activity log tells every change of every field of a record, whatever
\* interleaves, as long as nobody uses the roster's edit form.
THEOREM ChangesLogged == RosterEdit = {} => (Spec => ChangesAudited)
<1> SUFFICES ASSUME RosterEdit = {} PROVE Spec => ChangesAudited
  OBVIOUS
<1> DEFINE Logged == \A id \in live \cap live', f \in Field :
                         creators[id][f] # creators'[id][f]
                             => <<f, creators'[id][f]>> \in audit'[id]
<1>1. IInv /\ FillGiven /\ [Next]_vars => [Logged]_vars
  <2> SUFFICES ASSUME IInv, FillGiven, Next PROVE Logged
    OBVIOUS
  <2>1. ~\E w \in Worker : Steps(w, "roster")
    BY DEF FillGiven, Planned, Intended, Steps
  <2> QED BY <2>1, FieldStep
<1> QED BY <1>1, FillGivenInductive, PTL DEF Spec, ChangesAudited
-----------------------------------------------------------------------------
(* What one request has read, when nothing but a deletion comes between    *)
(* its statements.                                                         *)

OneWorker == \A v, w \in Worker : v = w

\* The rows mergeAll has found keep and lack handles as they did.
PairHeld(s, d) ==
    /\ s \in live => creators[s].handle # None
    /\ d \in live => creators[d].handle = None

\* What a request has read is so until it commits, unless a row was deleted.
Held(t) ==
    LET s == t.target
        d == t.byEmail IN
    /\ t.pc = "email" => d = None
    /\ t.pc \in {"handle"} \cup Merging /\ d \in live =>
          creators[d].handle = None \/ ByHand(t)
    /\ t.pc = "handle" /\ d \in live => t.seen = creators[d]
    /\ t.pc \in {"fillEmail", "fillHandle", "update"} /\ s \in live => t.seen = creators[s]
    /\ t.pc \in {"mergeMove", "mergeDelete"} /\ {s, d} \subseteq live =>
          /\ t.seen = creators[s] /\ t.dupSeen = creators[d]
          /\ \A c \in Campaign : <<d, c>> \in stats => <<s, c>> \in stats \/ c \in t.moved
    /\ t.pc = "mergeDelete" =>
          \A r \in ContractRef : contracts[r] = d => r \in t.moved
    /\ \A id \in t.candidates \cap live : creators[id].handle = None
    /\ \A i, j : <<i, j>> \in t.pairs => PairHeld(i, j)

AllHeld == \A w \in Worker : Held(task[w])

LEMMA HeldStep ==
    ASSUME OneWorker, IInv, AllHeld, NEW w \in Worker, NEW t, Held(t)',
           task' = [task EXCEPT ![w] = t]
    PROVE  AllHeld'
<1>1. task'[w] = t /\ \A v \in Worker : v = w
  BY DEF IInv, TypeOK, OneWorker
<1> QED BY <1>1 DEF AllHeld

\* A worker that has read nothing, or is past using it.
LEMMA NothingHeld ==
    ASSUME NEW t,
           t.pc \in {"idle", "item", "name", "create", "edit", "roster"}
               \/ (t.pc = "email" /\ t.byEmail = None),
           t.candidates = {}, t.pairs = {}
    PROVE  Held(t)'
  BY DEF Held, Merging

\* The pairs that are left.
LEMMA DoneHeld ==
    ASSUME NEW t \in Task,
           \A i, j : <<i, j>> \in t.pairs \ {<<t.target, t.byEmail>>} => PairHeld(i, j)'
    PROVE  Held(Done(t))'
<1> PICK rest : rest = t.pairs \ {<<t.target, t.byEmail>>}
  OBVIOUS
<1>1. CASE rest = {}
  <2>1. Done(t) = Idle /\ Idle.pc = "idle" /\ Idle.candidates = {} /\ Idle.pairs = {}
    BY <1>1 DEF Done, Idle
  <2> QED BY <2>1, NothingHeld
<1>2. CASE rest # {}
  <2> PICK u : u = [Idle EXCEPT !.pc = "pairs", !.attempt = 2, !.src = "MANUAL_API",
                                !.pairs = rest]
    OBVIOUS
  <2>1. u = Done(t) /\ u.pc = "pairs" /\ u.candidates = {} /\ u.pairs = rest
    BY <1>2 DEF Done, Idle
  <2>2. Held(u)'
    BY <2>1 DEF Held, Merging
  <2> QED BY <2>1, <2>2
<1> QED BY <1>1, <1>2

\* A request that ends or starts over keeps only pairs.
LEMMA FreshHeld ==
    ASSUME NEW t \in Task, NEW id,
           \A i, j : <<i, j>> \in t.pairs \ {<<t.target, t.byEmail>>} => PairHeld(i, j)'
    PROVE  Held(Idle)' /\ Held(Done(t))' /\ Held(Retry(t))' /\ Held(Return(t, id))'
<1>1. Held(Idle)'
  BY NothingHeld DEF Idle
<1>2. Held(Done(t))'
  BY DoneHeld
<1>3. Held(Retry(t))'
  <2>1. CASE t.attempt = 1
    <3> PICK u : u = [Idle EXCEPT !.pc = "email", !.in = t.in, !.person = t.person,
                                  !.src = t.src, !.item = t.item, !.attempt = 2]
      OBVIOUS
    <3>1. u = Retry(t) /\ u.pc = "email" /\ u.byEmail = None /\ u.candidates = {}
          /\ u.pairs = {}
      BY <2>1 DEF Retry, Idle
    <3> QED BY <3>1, NothingHeld
  <2>2. CASE t.attempt # 1
    BY <1>2, <2>2 DEF Retry
  <2> QED BY <2>1, <2>2
<1>4. Held(Return(t, id))'
  <2>1. CASE t.item = None
    BY <1>2, <2>1 DEF Return
  <2>2. CASE t.item # None
    <3> PICK u : u = [Idle EXCEPT !.pc = "item", !.item = t.item, !.target = id]
      OBVIOUS
    <3>1. u = Return(t, id) /\ u.pc = "item" /\ u.candidates = {} /\ u.pairs = {}
      BY <2>2 DEF Return, Idle
    <3> QED BY <3>1, NothingHeld
  <2> QED BY <2>1, <2>2
<1> QED BY <1>1, <1>2, <1>3, <1>4

\* The record resolveExisting settles on, as it is.
LEMMA SettleHeld ==
    ASSUME NEW t \in Task, t.candidates = {}, t.pairs = {}, NEW id, NEW row,
           id \in live => row = creators[id], UNCHANGED tables
    PROVE  Held(Settle(t, id, row))'
<1> PICK u : u = Settle(t, id, row)
  OBVIOUS
<1>1. /\ u.pc = ToFills(t.in, row) /\ u.seen = row /\ u.target = id
      /\ u.candidates = {} /\ u.pairs = {}
  BY DEF Settle, Task
<1>2. u.pc \in {"fillEmail", "fillHandle", "update"}
  BY <1>1 DEF ToFills, ToHandleFill
<1>3. Held(u)'
  BY <1>1, <1>2 DEF Held, Merging, tables
<1> QED BY <1>3

\* No value of a fillable field is lost between two records as they were read.
LEMMA AbsorbedKeeps ==
    ASSUME NEW t \in Task, t.seen = creators[t.target], NEW f \in Fillable,
           t.dupSeen[f] # None \/ creators[t.target][f] # None
    PROVE  Absorbed(t)[f] # None
<1>1. Merged(t)[f] # None
  BY DEF Merged, MergeFills, Take, Field, Fillable
<1>2. f \in MergedChanges(t) => t.in[f] # None
  BY DEF MergedChanges, Overwrites, Key
<1> QED BY <1>1, <1>2 DEF Absorbed, Take, Field, Fillable

LEMMA ReadHeld ==
    ASSUME OneWorker, IInv, FillGiven, AllHeld, NEW w \in Worker,
           \/ SettleByEmail(w) \/ LookPastEmail(w) \/ FoundSplit(w) \/ KeepEmailMatch(w)
           \/ FoundByHandle(w) \/ NoHandleMatch(w) \/ FindByName(w)
    PROVE  AllHeld'
<1> PICK t \in Task : t = task[w]
  BY Working
<1>1. Held(t) /\ Good(t) /\ UNCHANGED tables /\ live \subseteq CreatorId
  BY Working DEF AllHeld, IInv, TypeOK, SettleByEmail, LookPastEmail, FoundSplit,
     KeepEmailMatch, FoundByHandle, NoHandleMatch, FindByName
<1>2. t.candidates = {} /\ t.pairs = {}
  BY DEF FillGiven, Planned, Listed, Merging, SettleByEmail, LookPastEmail, FoundSplit,
     KeepEmailMatch, FoundByHandle, NoHandleMatch, FindByName
<1>3. CASE \E id, row : /\ id \in live => row = creators[id]
                        /\ task' = [task EXCEPT ![w] = Settle(t, id, row)]
  <2> PICK id, row, u : /\ id \in live => row = creators[id]
                        /\ u = Settle(t, id, row) /\ task' = [task EXCEPT ![w] = u]
    BY <1>3
  <2>1. Held(u)'
    BY <1>1, <1>2, SettleHeld
  <2> QED BY <2>1, HeldStep
<1>4. CASE SettleByEmail(w) \/ FoundByHandle(w)
  BY <1>3, <1>4 DEF SettleByEmail, FoundByHandle
<1>5. CASE KeepEmailMatch(w)
  <2>1. t.byEmail \in live => t.seen = creators[t.byEmail]
    BY <1>1, <1>5 DEF KeepEmailMatch, Held
  <2> QED BY <1>3, <1>5, <2>1 DEF KeepEmailMatch
<1>6. CASE LookPastEmail(w)
  <2>1. CASE task' = [task EXCEPT ![w].pc = "handle"]
    <3> PICK u : u = [t EXCEPT !.pc = "handle"]
      OBVIOUS
    <3>1. t.byEmail = None /\ u.pc = "handle" /\ u.byEmail = None
          /\ u.candidates = {} /\ u.pairs = {}
      BY <1>1, <1>2, <1>6 DEF LookPastEmail, Held, Task
    <3>2. Held(u)'
      BY <1>1, <3>1, NoneAssumption DEF Held, Merging, tables
    <3>3. task' = [task EXCEPT ![w] = u]
      BY <2>1
    <3> QED BY <3>2, <3>3, HeldStep
  <2>2. ASSUME NEW id, creators[id].handle = None,
               task' = [task EXCEPT ![w].pc = "handle", ![w].byEmail = id,
                                    ![w].seen = creators[id]]
        PROVE  AllHeld'
    <3> PICK u : u = [t EXCEPT !.pc = "handle", !.byEmail = id, !.seen = creators[id]]
      OBVIOUS
    <3>1. u.pc = "handle" /\ u.byEmail = id /\ u.seen = creators[id]
          /\ u.candidates = {} /\ u.pairs = {}
      BY <1>2 DEF Task
    <3>2. Held(u)'
      BY <1>1, <2>2, <3>1 DEF Held, Merging, tables
    <3>3. task' = [task EXCEPT ![w] = u]
      BY <2>2
    <3> QED BY <3>2, <3>3, HeldStep
  <2> QED BY <1>6, <2>1, <2>2 DEF LookPastEmail
<1>7. CASE FoundSplit(w)
  <2> PICK id : task' = [task EXCEPT ![w].pc = "mergeRead", ![w].target = id]
    BY <1>7 DEF FoundSplit
  <2> PICK u : u = [t EXCEPT !.pc = "mergeRead", !.target = id]
    OBVIOUS
  <2>1. u.pc = "mergeRead" /\ u.byEmail = t.byEmail /\ t.pc = "handle" /\ u.in = t.in
        /\ u.candidates = {} /\ u.pairs = {}
    BY <1>2, <1>7 DEF FoundSplit, Task
  <2>2. Held(u)'
    BY <1>1, <1>2, <2>1 DEF Held, Merging, tables, ByHand
  <2> QED BY <2>2, HeldStep
<1>8. CASE NoHandleMatch(w) \/ (FindByName(w) /\ task' = [task EXCEPT ![w].pc = "create"])
  <2> PICK pc \in {"name", "create"} : task' = [task EXCEPT ![w].pc = pc]
    BY <1>8 DEF NoHandleMatch
  <2> PICK u : u = [t EXCEPT !.pc = pc]
    OBVIOUS
  <2>1. u.pc = pc /\ u.candidates = {} /\ u.pairs = {}
    BY <1>2 DEF Task
  <2>2. Held(u)'
    BY <2>1, NothingHeld
  <2> QED BY <2>2, HeldStep
<1>9. CASE FindByName(w) /\ ~(task' = [task EXCEPT ![w].pc = "create"])
  BY <1>3, <1>9 DEF FindByName
<1> QED BY <1>4, <1>5, <1>6, <1>7, <1>8, <1>9

LEMMA FillHeld ==
    ASSUME OneWorker, IInv, FillGiven, AllHeld, NEW w \in Worker,
           FillEmail(w) \/ FillHandle(w)
    PROVE  AllHeld'
<1> PICK t \in Task : t = task[w]
  BY Working
<1>1. Held(t) /\ UNCHANGED tables /\ t.pc \in {"fillEmail", "fillHandle"}
  BY DEF AllHeld, FillEmail, FillHandle
<1>2. t.candidates = {} /\ t.pairs = {}
  BY <1>1 DEF FillGiven, Planned, Listed, Merging
<1>3. ASSUME NEW pc \in {"fillHandle", "update"}, NEW fill,
             task' = [task EXCEPT ![w] = [t EXCEPT !.pc = pc, !.fill = fill]]
      PROVE  AllHeld'
  <2> PICK u : u = [t EXCEPT !.pc = pc, !.fill = fill]
    OBVIOUS
  <2>1. u.pc = pc /\ u.target = t.target /\ u.seen = t.seen /\ u.candidates = {}
        /\ u.pairs = {}
    BY <1>2 DEF Task
  <2>2. Held(u)'
    BY <1>1, <2>1 DEF Held, Merging, tables
  <2> QED BY <1>3, <2>2, HeldStep
<1>4. CASE FillEmail(w)
  <2> PICK fill : fill = IF With("email", t.in.email) \subseteq {t.target}
                         THEN t.fill \cup {"email"} ELSE t.fill
    OBVIOUS
  <2> PICK pc : pc = ToHandleFill(t.in, t.seen)
    OBVIOUS
  <2>1. pc \in {"fillHandle", "update"}
    BY DEF ToHandleFill
  <2>2. task' = [task EXCEPT ![w] = [t EXCEPT !.pc = pc, !.fill = fill]]
    BY <1>4 DEF FillEmail
  <2> QED BY <1>3, <2>1, <2>2
<1>5. CASE FillHandle(w)
  <2> PICK fill : fill = IF With("handle", t.in.handle) \subseteq {t.target}
                         THEN t.fill \cup {"handle"} ELSE t.fill
    OBVIOUS
  <2>1. task' = [task EXCEPT ![w] = [t EXCEPT !.pc = "update", !.fill = fill]]
    BY <1>5 DEF FillHandle
  <2> QED BY <1>3, <2>1
<1> QED BY <1>4, <1>5

LEMMA MergeHeld ==
    ASSUME OneWorker, IInv, FillGiven, AllHeld, NEW w \in Worker,
           MergeRead(w) \/ MergeMove(w) \/ MergeDelete(w)
    PROVE  AllHeld'
<1> PICK t \in Task : t = task[w]
  BY Working
<1> DEFINE s == t.target
           d == t.byEmail
<1>1. /\ Held(t) /\ t.pc \in Merging
      /\ s \in CreatorId /\ d \in CreatorId /\ s # d
  BY Working DEF AllHeld, MergeRead, MergeMove, MergeDelete, Good, Found, Targeted, Merging,
     Task
<1>2. t.candidates = {} /\ (t.pairs # {} => <<s, d>> \in t.pairs)
  BY <1>1 DEF FillGiven, Planned, Listed, Merging
<1>3. \A i, j : <<i, j>> \in t.pairs => PairHeld(i, j)
  BY <1>1 DEF Held
<1>4. CASE MergeRead(w)
  <2> DEFINE moved == {c \in Campaign : <<d, c>> \in stats /\ <<s, c>> \notin stats}
  <2>1. CASE task' = [task EXCEPT ![w] = Done(t)]
    <3>1. \A i, j : <<i, j>> \in t.pairs \ {<<t.target, t.byEmail>>} => PairHeld(i, j)'
      BY <1>3, <1>4 DEF MergeRead, tables, PairHeld
    <3> PICK u : u = Done(t)
      OBVIOUS
    <3>2. Held(u)'
      BY <3>1, DoneHeld
    <3> QED BY <2>1, <3>2, HeldStep
  <2>2. CASE task' = [task EXCEPT ![w].pc = "mergeMove", ![w].seen = creators[s],
                                  ![w].dupSeen = creators[d], ![w].moved = moved]
    <3> PICK u : u = [t EXCEPT !.pc = "mergeMove", !.seen = creators[s],
                               !.dupSeen = creators[d], !.moved = moved]
      OBVIOUS
    <3>1. /\ u.pc = "mergeMove" /\ u.target = s /\ u.byEmail = d /\ u.in = t.in
          /\ u.seen = creators[s] /\ u.dupSeen = creators[d] /\ u.moved = moved
          /\ u.candidates = {} /\ u.pairs = t.pairs
      BY <1>2 DEF Task
    <3>2. UNCHANGED tables
      BY <1>4 DEF MergeRead
    <3>3. Held(u)'
      BY <1>1, <3>1, <3>2 DEF Held, Merging, tables, ByHand, PairHeld
    <3>4. task' = [task EXCEPT ![w] = u]
      BY <2>2
    <3> QED BY <3>3, <3>4, HeldStep
  <2> QED BY <1>4, <2>1, <2>2 DEF MergeRead
<1>5. CASE MergeMove(w)
  <2> DEFINE more == {r \in ContractRef : contracts[r] = d}
  <2> PICK u : u = [t EXCEPT !.pc = "mergeDelete", !.moved = @ \cup more]
    OBVIOUS
  <2>1. /\ u.pc = "mergeDelete" /\ u.target = s /\ u.byEmail = d /\ u.in = t.in
        /\ u.seen = t.seen /\ u.dupSeen = t.dupSeen /\ u.moved = t.moved \cup more
        /\ u.candidates = {} /\ u.pairs = t.pairs
    BY <1>2 DEF Task
  <2>2. UNCHANGED tables /\ t.pc = "mergeMove" /\ task' = [task EXCEPT ![w] = u]
    BY <1>5 DEF MergeMove
  <2>3. Held(u)'
    BY <1>1, <2>1, <2>2 DEF Held, Merging, tables, ByHand, PairHeld
  <2> QED BY <2>2, <2>3, HeldStep
<1>6. CASE MergeDelete(w)
  <2>1. /\ {s, d} \subseteq live /\ live' = live \ {d} /\ t.pc = "mergeDelete"
        /\ creators' = [creators EXCEPT ![s] = Absorbed(t), ![d] = Blank]
        /\ task' = [task EXCEPT ![w] = Return(t, s)]
    BY <1>6 DEF MergeDelete
  <2>2. \A k \in live' : creators'[k] = IF k = s THEN Absorbed(t) ELSE creators[k]
    BY <1>1, <2>1 DEF IInv, TypeOK
  <2>3. t.pairs # {} => creators[s].handle # None /\ Absorbed(t).handle # None
    <3>1. t.seen = creators[s]
      BY <1>1, <2>1 DEF Held
    <3>2. t.pairs # {} => creators[s].handle # None
      BY <1>2, <1>3, <2>1 DEF PairHeld
    <3> QED BY <3>1, <3>2, AbsorbedKeeps DEF Fillable, Field
  <2>4. ASSUME NEW i, NEW j, <<i, j>> \in t.pairs PROVE PairHeld(i, j)'
    <3>1. PairHeld(i, j) /\ t.pairs # {}
      BY <1>3, <2>4
    <3>2. i \in live' => creators'[i].handle # None
      BY <2>1, <2>2, <2>3, <3>1 DEF PairHeld
    <3>3. j \in live' => creators'[j].handle = None
      BY <2>1, <2>2, <2>3, <3>1 DEF PairHeld
    <3> QED BY <3>2, <3>3 DEF PairHeld
  <2> PICK u : u = Return(t, s)
    OBVIOUS
  <2>5. Held(u)'
    BY <2>4, FreshHeld
  <2> QED BY <2>1, <2>5, HeldStep
<1> QED BY <1>4, <1>5, <1>6

\* The rest of the statements end a request, start it over, or belong to mergeAll.
LEMMA StatementHeld ==
    ASSUME OneWorker, IInv, FillGiven, AllHeld, NEW w \in Worker, Statement(w)
    PROVE  AllHeld'
<1> PICK t \in Task : t = task[w]
  BY Working
<1>1. Held(t) /\ Good(t) /\ Planned(t)
  BY Working DEF AllHeld, FillGiven
<1>2. CASE \/ Create(w) \/ CreateClash(w) \/ Update(w) \/ UpdateRefused(w)
           \/ StoreContract(w) \/ StoreStats(w) \/ CommitEdit(w) \/ CommitRosterEdit(w)
  <2>1. t.pc \in {"create", "update", "item", "edit", "roster"}
    BY <1>2 DEF Create, CreateClash, Update, UpdateRefused, StoreContract, StoreStats,
       CommitEdit, CommitRosterEdit
  <2>2. t.pairs = {}
    BY <1>1, <2>1 DEF Planned, Listed, Merging
  <2>3. \A id : Held(Idle)' /\ Held(Retry(t))' /\ Held(Return(t, id))'
    BY <2>2, FreshHeld
  <2>4. PICK u : (u \in {Idle, Retry(t)} \/ \E id : u = Return(t, id))
                 /\ task' = [task EXCEPT ![w] = u]
    BY <1>2 DEF Create, CreateClash, Update, UpdateRefused, StoreContract, StoreStats,
       CommitEdit, CommitRosterEdit
  <2>5. Held(u)'
    BY <2>3, <2>4
  <2> QED BY <2>4, <2>5, HeldStep
<1>3. CASE MergeRefused(w)
  <2>1. \A i, j : <<i, j>> \in t.pairs \ {<<t.target, t.byEmail>>} => PairHeld(i, j)'
    BY <1>1, <1>3 DEF MergeRefused, Held, PairHeld, tables
  <2>2. Held(Done(t))' /\ Held(Retry(t))'
    BY <2>1, FreshHeld
  <2>3. PICK u : u \in {Done(t), Retry(t)} /\ task' = [task EXCEPT ![w] = u]
    BY <1>3 DEF MergeRefused
  <2>4. Held(u)'
    BY <2>2, <2>3
  <2> QED BY <2>3, <2>4, HeldStep
<1>4. CASE FindMasters(w)
  <2> DEFINE masters == {id \in live : creators[id].handle # None}
  <2> PICK pairs \in SUBSET (masters \X t.candidates) :
          task' = [task EXCEPT ![w] = Done([t EXCEPT !.pairs = pairs])]
    BY <1>4 DEF FindMasters
  <2> PICK u : u = [t EXCEPT !.pairs = pairs]
    OBVIOUS
  <2>1. pairs \in SUBSET (CreatorId \X CreatorId)
    BY DEF IInv, TypeOK, Task
  <2>2. u \in Task /\ u.pairs = pairs
    BY <2>1 DEF Task
  <2>3. UNCHANGED tables
    BY <1>4 DEF FindMasters
  <2>4. \A i, j : <<i, j>> \in u.pairs => PairHeld(i, j)'
    BY <1>1, <2>2, <2>3 DEF Held, PairHeld, tables
  <2> PICK v : v = Done(u)
    OBVIOUS
  <2>5. Held(v)'
    BY <2>2, <2>4, DoneHeld
  <2> QED BY <2>5, HeldStep
<1>5. CASE NextPair(w)
  <2> PICK p \in t.pairs : task' = [task EXCEPT ![w] = CallMerge(p[1], p[2], t.pairs)]
    BY <1>5 DEF NextPair
  <2>1. PICK a \in CreatorId, b \in CreatorId : p = <<a, b>>
    BY DEF Task
  <2> PICK u : u = CallMerge(a, b, t.pairs)
    OBVIOUS
  <2>2. u.pc = "mergeRead" /\ u.target = a /\ u.byEmail = b /\ u.pairs = t.pairs
        /\ u.candidates = {}
    BY DEF CallMerge, Idle
  <2>3. UNCHANGED tables
    BY <1>5 DEF NextPair
  <2>4. Held(u)'
    BY <1>1, <2>1, <2>2, <2>3 DEF Held, Merging, tables, PairHeld
  <2> QED BY <2>1, <2>4, HeldStep
<1> QED BY <1>2, <1>3, <1>4, <1>5, ReadHeld, FillHeld, MergeHeld DEF Statement

LEMMA RequestHeld ==
    ASSUME OneWorker, IInv, AllHeld, NEW w \in Worker, Request(w)
    PROVE  AllHeld'
<1>1. ASSUME NEW in, NEW src, NEW item, StartUpsert(w, in, src, item)
      PROVE  AllHeld'
  <2> PICK t : t = [Idle EXCEPT !.pc = "email", !.in = in.row, !.person = in.person,
                               !.src = src, !.item = item]
    OBVIOUS
  <2>1. Held(t)'
    BY NothingHeld DEF Idle
  <2> QED BY <1>1, <2>1, HeldStep DEF StartUpsert
<1>2. ASSUME NEW s, NEW d, StartMergePair(w, s, d) PROVE AllHeld'
  <2> PICK t : t = CallMerge(s, d, {})
    OBVIOUS
  <2>1. t.pc = "mergeRead" /\ t.in = Blank /\ t.pairs = {} /\ t.candidates = {}
    BY DEF CallMerge, Idle
  <2>2. Held(t)'
    BY <2>1 DEF Held, Merging, ByHand
  <2> QED BY <1>2, <2>2, HeldStep DEF StartMergePair
<1>3. ASSUME NEW id, NEW in, StartEdit(w, id, in) PROVE AllHeld'
  <2> PICK t : t = [Idle EXCEPT !.pc = "edit", !.in = in.row, !.person = in.person,
                               !.target = id, !.seen = creators[id]]
    OBVIOUS
  <2>1. Held(t)'
    BY NothingHeld DEF Idle
  <2> QED BY <1>3, <2>1, HeldStep DEF StartEdit
<1>4. ASSUME NEW id, NEW e, StartRosterEdit(w, id, e) PROVE AllHeld'
  <2> PICK t : t = [Idle EXCEPT !.pc = "roster", !.in = e.row, !.person = e.person,
                               !.target = id, !.fill = e.clear]
    OBVIOUS
  <2>1. Held(t)'
    BY NothingHeld DEF Idle
  <2> QED BY <1>4, <2>1, HeldStep DEF StartRosterEdit
<1>5. ASSUME StartMergeAll(w) PROVE AllHeld'
  <2> PICK t : t = [Idle EXCEPT !.pc = "find", !.attempt = 2, !.src = "MANUAL_API",
                        !.candidates = {id \in live : creators[id].handle = None}]
    OBVIOUS
  <2>1. /\ t.pc = "find" /\ t.pairs = {}
        /\ t.candidates = {id \in live : creators[id].handle = None}
    BY DEF Idle
  <2>2. UNCHANGED tables
    BY <1>5 DEF StartMergeAll
  <2>3. Held(t)'
    BY <2>1, <2>2 DEF Held, Merging, tables
  <2> QED BY <1>5, <2>3, HeldStep DEF StartMergeAll
<1> QED BY <1>1, <1>2, <1>3, <1>4, <1>5 DEF Request

LEMMA AbortHeld ==
    ASSUME OneWorker, IInv, AllHeld, NEW w \in Worker, Abort(w)
    PROVE  AllHeld'
<1> PICK t \in Task : t = task[w]
  BY Working
<1>1. \A i, j : <<i, j>> \in t.pairs \ {<<t.target, t.byEmail>>} => PairHeld(i, j)'
  BY DEF Abort, AllHeld, Held, PairHeld, tables
<1>2. Held(Done(t))' /\ Held(Idle)'
  BY <1>1, FreshHeld
<1>3. PICK u : u \in {Done(t), Idle} /\ task' = [task EXCEPT ![w] = u]
  BY DEF Abort
<1>4. Held(u)'
  BY <1>2, <1>3
<1> QED BY <1>3, <1>4, HeldStep

\* A deletion may take a row from under a merge, and changes no other.
LEMMA RemoveHeld ==
    ASSUME IInv, AllHeld, NEW id \in CreatorId, Remove(id)
    PROVE  AllHeld'
<1> SUFFICES ASSUME NEW w \in Worker PROVE Held(task[w])'
  BY DEF AllHeld
<1>1. /\ live' = live \ {id} /\ task' = task
      /\ \A i \in live' : creators'[i] = creators[i]
      /\ \A i \in live' : \A c \in Campaign : <<i, c>> \in stats' <=> <<i, c>> \in stats
      /\ \A r \in ContractRef : contracts'[r] \in {None, contracts[r]}
  BY DEF Remove, IInv, TypeOK
<1>2. Held(task[w]) /\ Good(task[w]) /\ task[w] \in Task
  BY Working DEF AllHeld
<1>3. task[w].pc = "mergeDelete" => task[w].byEmail # None
  BY <1>2 DEF Good, Found, Merging
<1> QED BY <1>1, <1>2, <1>3 DEF Held, PairHeld, ByHand

LEMMA HeldInductive == OneWorker => (Spec => [](IInv /\ FillGiven /\ AllHeld))
<1> SUFFICES ASSUME OneWorker PROVE Spec => [](IInv /\ FillGiven /\ AllHeld)
  OBVIOUS
<1>1. Init => AllHeld
  BY DEF Init, AllHeld, Held, Idle, Merging
<1>2. IInv /\ FillGiven /\ AllHeld /\ [Next]_vars => AllHeld'
  <2> SUFFICES ASSUME IInv, FillGiven, AllHeld, [Next]_vars PROVE AllHeld'
    OBVIOUS
  <2>1. CASE UNCHANGED vars
    BY <2>1 DEF vars, AllHeld, Held, PairHeld, ByHand
  <2>2. ASSUME NEW w \in Worker, Statement(w) PROVE AllHeld'
    BY <2>2, StatementHeld
  <2>3. ASSUME NEW w \in Worker, Request(w) PROVE AllHeld'
    BY <2>3, RequestHeld
  <2>4. ASSUME NEW w \in Worker, Abort(w) PROVE AllHeld'
    BY <2>4, AbortHeld
  <2>5. ASSUME NEW id \in CreatorId, Remove(id) PROVE AllHeld'
    BY <2>5, RemoveHeld
  <2> QED BY <2>1, <2>2, <2>3, <2>4, <2>5 DEF Next
<1> QED BY <1>1, <1>2, FillGivenInductive, PTL DEF Spec

\* The step that ends a merge, and deletes a record, is its commit.
LEMMA MergeCommit ==
    ASSUME OneWorker, IInv, AllHeld, Next, NEW w \in Worker, Steps(w, "mergeDelete")
    PROVE  \/ UNCHANGED tables
           \/ MergeDelete(w) /\ Held(task[w]) /\ task[w] \in Task
              /\ task[w].target \in CreatorId /\ task[w].byEmail \in CreatorId
              /\ task[w].target # task[w].byEmail
<1>1. task[w] \in Task /\ Good(task[w]) /\ Held(task[w]) /\ task[w].pc = "mergeDelete"
  BY Working DEF AllHeld, Steps
<1>2. /\ task[w].target \in CreatorId /\ task[w].byEmail \in CreatorId
      /\ task[w].target # task[w].byEmail
  BY <1>1 DEF Good, Found, Targeted, Merging, Task
<1>3. ASSUME NEW id \in CreatorId, Remove(id) PROVE FALSE
  BY <1>3 DEF Remove, Steps
<1>4. PICK v \in Worker : Request(v) \/ Statement(v) \/ Abort(v)
  BY <1>3 DEF Next
<1>5. v = w
  BY DEF OneWorker
<1>6. CASE Request(w) \/ Abort(w)
  BY <1>6 DEF Request, Abort, StartUpsert, StartMergePair, StartMergeAll, StartEdit, StartRosterEdit
<1>7. CASE Statement(w)
  BY <1>1, <1>2, <1>7
  DEF Statement, FindMasters, NextPair, SettleByEmail, LookPastEmail, FoundSplit, KeepEmailMatch, FoundByHandle,
      NoHandleMatch, FindByName, FillEmail, FillHandle, Create, CreateClash, Update,
      UpdateRefused, MergeRead, MergeMove, MergeRefused, StoreContract, StoreStats,
      CommitEdit, CommitRosterEdit
<1> QED BY <1>4, <1>5, <1>6, <1>7

\* The merges the code chooses, of an upsert and of merge-duplicates, never delete a
\* record that holds a handle: it had none when it was found, and with one request at a
\* time nobody has given it one since, not even an earlier pair of the same request.  An
\* administrator's merge-creators may delete one, and then the survivor has a handle.
\* (creators.service.ts resolveExisting, duplicate-creators.service.ts find and mergeAll,
\* creator-merge.service.ts doMerge)
THEOREM HandleHoldersKept == OneWorker => (Spec => HandleHolderKept)
<1> SUFFICES ASSUME OneWorker PROVE Spec => HandleHolderKept
  OBVIOUS
<1> DEFINE Kept == \A w \in Worker : Steps(w, "mergeDelete") =>
                       \A id \in live \ live' : creators[id].handle # None =>
                           ByHand(task[w]) /\ creators'[task[w].target].handle # None
<1>1. IInv /\ AllHeld /\ [Next]_vars => [Kept]_vars
  <2> SUFFICES ASSUME IInv, AllHeld, Next, NEW w \in Worker, Steps(w, "mergeDelete"),
                      NEW id \in live \ live', creators[id].handle # None
               PROVE  ByHand(task[w]) /\ creators'[task[w].target].handle # None
    OBVIOUS
  <2> PICK t \in Task : t = task[w]
    BY Working
  <2>1. /\ MergeDelete(w) /\ Held(t) /\ t.target \in CreatorId /\ t.byEmail \in CreatorId
        /\ t.target # t.byEmail
    BY MergeCommit DEF tables
  <2>2. /\ id = t.byEmail /\ t.pc = "mergeDelete" /\ {t.target, t.byEmail} \subseteq live
        /\ creators' = [creators EXCEPT ![t.target] = Absorbed(t), ![t.byEmail] = Blank]
    BY <2>1 DEF MergeDelete
  <2>3. ByHand(t)
    BY <2>1, <2>2 DEF Held, Merging
  <2>4. t.seen = creators[t.target] /\ t.dupSeen = creators[id]
    BY <2>1, <2>2 DEF Held
  <2>5. Absorbed(t).handle # None
    BY <2>4, AbsorbedKeeps DEF Fillable, Field
  <2>6. creators'[t.target] = Absorbed(t)
    BY <2>1, <2>2 DEF IInv, TypeOK
  <2> QED BY <2>3, <2>5, <2>6
<1>2. IInv /\ FillGiven /\ AllHeld => IInv /\ AllHeld
  OBVIOUS
<1> QED BY <1>1, <1>2, HeldInductive, PTL DEF Spec, HandleHolderKept

\* With one request at a time and whatever is deleted meanwhile, a merge loses no contract,
\* no stats campaign and no column of FILLABLE_FIELDS the duplicate had: its contracts
\* move, and the survivor has each of those columns and a stats row for each campaign.
\* (creator-merge.service.ts doMerge, FILLABLE_FIELDS)
THEOREM MergesKeepAll == OneWorker => (Spec => MergeKeepsAll)
<1> SUFFICES ASSUME OneWorker PROVE Spec => MergeKeepsAll
  OBVIOUS
<1> DEFINE All(w) ==
             LET s == task[w].target IN
             /\ \A r \in ContractRef : contracts[r] # None => contracts'[r] # None
             /\ \A d \in live \ live' :
                   /\ \A f \in Fillable : creators[d][f] # None => creators'[s][f] # None
                   /\ \A c \in Campaign : <<d, c>> \in stats => <<s, c>> \in stats'
           Keeps == \A w \in Worker : Steps(w, "mergeDelete") => All(w)
<1>1. IInv /\ AllHeld /\ [Next]_vars => [Keeps]_vars
  <2> SUFFICES ASSUME IInv, AllHeld, Next, NEW w \in Worker, Steps(w, "mergeDelete")
               PROVE  All(w)
    OBVIOUS
  <2>1. CASE UNCHANGED tables
    BY <2>1 DEF tables
  <2>2. CASE ~UNCHANGED tables
    <3> PICK t \in Task : t = task[w]
      BY Working
    <3> DEFINE s == t.target
               d == t.byEmail
    <3>1. /\ MergeDelete(w) /\ Held(t) /\ t.pc = "mergeDelete"
          /\ s \in CreatorId /\ d \in CreatorId /\ s # d
      BY <2>2, MergeCommit DEF MergeDelete
    <3>2. /\ {s, d} \subseteq live /\ live' = live \ {d}
          /\ creators' = [creators EXCEPT ![s] = Absorbed(t), ![d] = Blank]
          /\ contracts' = [r \in ContractRef |->
                 IF r \in t.moved THEN s
                 ELSE IF contracts[r] = d THEN None ELSE contracts[r]]
          /\ stats' = (stats \ ({d} \X Campaign)) \cup ({s} \X (t.moved \cap Campaign))
      BY <3>1 DEF MergeDelete
    <3>3. /\ t.seen = creators[s] /\ t.dupSeen = creators[d]
          /\ \A c \in Campaign : <<d, c>> \in stats => <<s, c>> \in stats \/ c \in t.moved
          /\ \A r \in ContractRef : contracts[r] = d => r \in t.moved
      BY <3>1, <3>2 DEF Held
    <3>4. \A r \in ContractRef : contracts[r] # None => contracts'[r] # None
      BY <3>1, <3>2, <3>3, NoneAssumption
    <3>5. creators'[s] = Absorbed(t)
      BY <3>1, <3>2 DEF IInv, TypeOK
    <3>6. ASSUME NEW f \in Fillable, creators[d][f] # None PROVE Absorbed(t)[f] # None
      BY <3>3, <3>6, AbsorbedKeeps
    <3>7. ASSUME NEW c \in Campaign, <<d, c>> \in stats PROVE <<s, c>> \in stats'
      BY <3>1, <3>2, <3>3, <3>7
    <3> QED BY <3>2, <3>4, <3>5, <3>6, <3>7
  <2> QED BY <2>1, <2>2
<1>2. IInv /\ FillGiven /\ AllHeld => IInv /\ AllHeld
  OBVIOUS
<1> QED BY <1>1, <1>2, HeldInductive, PTL DEF Spec, MergeKeepsAll

\* With one request at a time, and whatever keys the payloads bring, no upsert or merge
\* overwrites an email or a handle: only the manual forms replace or clear one.
\* (creators.service.ts applyIdentityFills; creator-merge.service.ts doMerge)
THEOREM KeysFilledOnlyWhenEmpty == OneWorker => (Spec => FillOnlyWhenEmpty)
<1> SUFFICES ASSUME OneWorker PROVE Spec => FillOnlyWhenEmpty
  OBVIOUS
<1> DEFINE Fills == \A id \in live \cap live', f \in Key :
                        creators[id][f] \in {None, creators'[id][f]}
                        \/ \E w \in Worker : Steps(w, "edit") \/ Steps(w, "roster")
<1>1. IInv /\ FillGiven /\ AllHeld /\ [Next]_vars => [Fills]_vars
  <2> SUFFICES ASSUME IInv, FillGiven, AllHeld, Next, NEW id \in live \cap live',
                      NEW f \in Key, creators[id][f] \notin {None, creators'[id][f]},
                      ~\E w \in Worker : Steps(w, "edit") \/ Steps(w, "roster")
               PROVE  FALSE
    OBVIOUS
  <2>1. PICK w \in Worker : /\ Update(w) \/ MergeDelete(w)
                            /\ task[w].target = id /\ task[w].seen[f] = None
    BY KeyRead
  <2>2. Held(task[w]) /\ task[w].pc \in {"update", "mergeDelete"}
    BY <2>1 DEF AllHeld, Update, MergeDelete
  <2>3. task[w].pc = "mergeDelete" => task[w].byEmail \in live
    BY <2>1 DEF Update, MergeDelete
  <2>4. task[w].seen = creators[id]
    BY <2>1, <2>2, <2>3 DEF Held
  <2> QED BY <2>1, <2>4
<1> QED BY <1>1, HeldInductive, PTL DEF Spec, FillOnlyWhenEmpty

-----------------------------------------------------------------------------
(* Creators implements IdentityRegistry: while the roster form is not used *)
(* and no person has two emails or two handles, every step of the table is *)
(* a claim, a release or an absorption of keys, or changes none.           *)

\* The unique indexes, as the registry needs them: no key has two records.
UniqueKeys ==
    \A i, j \in live : \A f \in Key :
        creators[i][f] = creators[j][f] /\ creators[i][f] # None => i = j

\* What a step does to the rows: nothing, one row written, deleted, or merged.
Unchanged == UNCHANGED <<creators, live>>
Written(id, row) ==
    /\ creators' = [creators EXCEPT ![id] = row]
    /\ live' = live \cup {id}
    /\ ~Clash(row, id, {})
Deleted(id) ==
    /\ creators' = [creators EXCEPT ![id] = Blank]
    /\ live' = live \ {id}
Folded(s, d, row) ==
    /\ s # d /\ s \in live /\ d \in live
    /\ creators' = [creators EXCEPT ![s] = row, ![d] = Blank]
    /\ live' = live \ {d}
    /\ ~Clash(row, s, {d})

LEMMA RowStep ==
    ASSUME IInv, Next
    PROVE  \/ Unchanged
           \/ \E id \in CreatorId, row \in Row : Written(id, row)
           \/ \E id \in CreatorId : Deleted(id)
           \/ \E s, d \in CreatorId, row \in Row : Folded(s, d, row)
<1>1. ASSUME NEW w \in Worker, Request(w) \/ Abort(w) PROVE Unchanged
  BY <1>1 DEF Request, Abort, StartUpsert, StartMergePair, StartMergeAll, StartEdit,
              StartRosterEdit, tables, Unchanged
<1>2. ASSUME NEW id \in CreatorId, Remove(id) PROVE Deleted(id)
  BY <1>2 DEF Remove, Deleted
<1>3. ASSUME NEW id \in CreatorId, NEW in \in Row, NEW fs, Write(id, in, fs)
      PROVE  \E row \in Row : Written(id, row)
  <2>1. Take(creators[id], in, fs) \in Row
    BY DEF IInv, TypeOK, Take, Row
  <2>2. live' = live \cup {id}
    BY <1>3 DEF Write
  <2> QED BY <1>3, <2>1, <2>2 DEF Write, Written
<1>4. ASSUME NEW w \in Worker, Statement(w)
      PROVE  \/ Unchanged
             \/ \E id \in CreatorId, row \in Row : Written(id, row)
             \/ \E s, d \in CreatorId, row \in Row : Folded(s, d, row)
  <2> PICK t \in Task : t = task[w]
    BY Working
  <2>1. /\ Good(t) /\ t.in \in Row
        /\ t.pc \in Targeted => t.target \in CreatorId
        /\ t.pc \in Merging => t.byEmail \in CreatorId
    BY Working DEF Good, Found, Task
  <2>2. CASE Create(w)
    BY <2>1, <2>2 DEF Create, Written
  <2>3. CASE Update(w) \/ CommitEdit(w)
    <3>1. t.target \in CreatorId
      BY <2>1, <2>3 DEF Update, CommitEdit, Targeted
    <3>2. Unchanged \/ \E fs : Write(t.target, t.in, fs)
      BY <2>3 DEF Update, CommitEdit, tables, Unchanged
    <3> QED BY <1>3, <2>1, <3>1, <3>2
  <2>4. CASE CommitRosterEdit(w)
    <3>1. t.target \in CreatorId
      BY <2>1, <2>4 DEF CommitRosterEdit, Targeted
    <3> DEFINE row == Take(creators[t.target], t.in,
                           {f \in Field : t.in[f] # None} \cup t.fill)
    <3>2. row \in Row
      BY <2>1, <3>1 DEF IInv, TypeOK, Take, Row
    <3> QED BY <2>4, <3>1, <3>2 DEF CommitRosterEdit, tables, Unchanged, Written
  <2>5. CASE MergeDelete(w)
    <3>1. /\ t.target \in CreatorId /\ t.byEmail \in CreatorId
          /\ t.target # t.byEmail
      BY <2>1, <2>5 DEF MergeDelete, Targeted, Merging, Good, Found
    <3>2. creators[t.target] \in Row /\ t.dupSeen \in Row
      BY <3>1 DEF IInv, TypeOK, Task
    <3>3. Absorbed(t) \in Row
      BY <2>1, <3>2 DEF Absorbed, Merged, Take, Row
    <3> QED BY <2>5, <3>1, <3>3 DEF MergeDelete, Folded
  <2>6. Unchanged \/ Create(w) \/ Update(w) \/ CommitEdit(w)
        \/ CommitRosterEdit(w) \/ MergeDelete(w)
    BY <1>4 DEF Statement, FindMasters, NextPair, SettleByEmail, LookPastEmail, FoundSplit, KeepEmailMatch,
       FoundByHandle, NoHandleMatch, FindByName, FillEmail, FillHandle, CreateClash,
       UpdateRefused, MergeRead, MergeMove, MergeRefused, StoreContract, StoreStats,
       tables, Unchanged
  <2> QED BY <2>2, <2>3, <2>4, <2>5, <2>6
<1> QED BY <1>1, <1>2, <1>4 DEF Next

\* What the unique indexes do not refuse keeps every key to one record.
LEMMA UniqueStep == ASSUME IInv, UniqueKeys, Next PROVE UniqueKeys'
<1>1. live \subseteq CreatorId /\ creators \in [CreatorId -> Row]
  BY DEF IInv, TypeOK
<1>2. CASE Unchanged
  BY <1>2 DEF Unchanged, UniqueKeys
<1>3. ASSUME NEW id \in CreatorId, NEW row \in Row, Written(id, row) PROVE UniqueKeys'
  BY <1>1, <1>3 DEF Written, UniqueKeys, Clash, With
<1>4. ASSUME NEW id \in CreatorId, Deleted(id) PROVE UniqueKeys'
  BY <1>1, <1>4 DEF Deleted, UniqueKeys
<1>5. ASSUME NEW s \in CreatorId, NEW d \in CreatorId, NEW row \in Row,
             Folded(s, d, row)
      PROVE  UniqueKeys'
  BY <1>1, <1>5 DEF Folded, UniqueKeys, Clash, With
<1> QED BY <1>2, <1>3, <1>4, <1>5, RowStep

-----------------------------------------------------------------------------
(* The refinement.                                                         *)

\* A column value is an email or a handle, and never NULL.
LEMMA ColumnValue == ASSUME NEW k \in Columns PROVE k[1] \in Key /\ k[2] # None
  BY NoneAssumption DEF Columns, Key, Value

\* A row has one value in each column.
LEMMA HoldersOnePerKind ==
    Registry!OnePerKind(holders) /\ Registry!OnePerKind(holders')
<1>1. Registry!OnePerKind(holders)
  <2> SUFFICES ASSUME NEW j \in Columns, NEW k \in Columns,
                      holders[j] \cap holders[k] # {}, j[1] = k[1]
               PROVE  j = k
    BY DEF Registry!OnePerKind
  <2>1. j[2] = k[2]
    BY DEF holders
  <2> QED BY <2>1 DEF Columns
<1>2. Registry!OnePerKind(holders')
  <2> SUFFICES ASSUME NEW j \in Columns, NEW k \in Columns,
                      holders'[j] \cap holders'[k] # {}, j[1] = k[1]
               PROVE  j = k
    BY DEF Registry!OnePerKind
  <2>1. j[2] = k[2]
    BY DEF holders
  <2> QED BY <2>1 DEF Columns
<1> QED BY <1>1, <1>2

LEMMA HoldersTyped ==
    ASSUME IInv'
    PROVE  holders' \in [Columns -> SUBSET CreatorId]
  BY DEF IInv, TypeOK, holders

\* Every step of the table is a step of the registry, or changes no key.
LEMMA RegistryStep ==
    ASSUME OneKeyEach, RosterEdit = {}, IInv, IInv', FillGiven, UniqueKeys, Next
    PROVE  Registry!Next \/ UNCHANGED holders
<1>1. live \subseteq CreatorId /\ creators \in [CreatorId -> Row]
  BY DEF IInv, TypeOK
<1>2. \A id \in live \cap live', f \in Key :
          creators[id][f] # None => creators'[id][f] = creators[id][f]
  <2>1. ~\E w \in Worker : Steps(w, "roster")
    BY DEF FillGiven, Planned, Intended, Steps
  <2> QED BY <2>1, KeyKept
<1>3. CASE Unchanged
  BY <1>3 DEF Unchanged, holders
<1>4. ASSUME NEW id \in CreatorId, NEW row \in Row, Written(id, row),
             holders' # holders
      PROVE  Registry!Claim(id)
  <2>1. ASSUME NEW k \in Columns, holders'[k] # holders[k]
        PROVE  holders[k] = {} /\ holders'[k] = {id}
    <3>1. \A i \in live \ {id} : i \in holders[k] <=> i \in holders'[k]
      BY <1>1, <1>4 DEF Written, holders
    <3>2. holders[k] \subseteq live /\ holders'[k] \subseteq live \cup {id}
      BY <1>4 DEF Written, holders
    <3>3. id \in holders[k] => id \in holders'[k]
      BY <1>1, <1>2, <1>4, ColumnValue DEF Written, holders
    <3>4. id \in holders'[k] /\ id \notin holders[k]
      BY <2>1, <3>1, <3>2, <3>3
    <3>5. row[k[1]] = k[2]
      BY <1>1, <1>4, <3>4 DEF Written, holders
    <3>6. With(k[1], k[2]) \subseteq {id}
      BY <1>4, <3>5, ColumnValue DEF Written, Clash
    <3>7. holders[k] = {}
      BY <1>1, <3>4, <3>6, ColumnValue DEF holders, With
    <3> QED BY <3>1, <3>2, <3>4, <3>7
  <2> QED BY <2>1, HoldersOnePerKind, HoldersTyped DEF Registry!Claim
<1>5. ASSUME NEW id \in CreatorId, Deleted(id) PROVE Registry!Release(id)
  BY <1>1, <1>5 DEF Deleted, holders, Registry!Release
<1>6. ASSUME NEW s \in CreatorId, NEW d \in CreatorId, NEW row \in Row,
             Folded(s, d, row)
      PROVE  Registry!Absorb(s, d)
  <2>1. ASSUME NEW k \in Columns
        PROVE  /\ \A i \in live \ {s, d} : i \in holders[k] <=> i \in holders'[k]
               /\ holders[k] \subseteq live /\ holders'[k] \subseteq live \ {d}
               /\ s \in holders[k] => s \in holders'[k]
    <3>1. /\ \A i \in live \ {s, d} : i \in holders[k] <=> i \in holders'[k]
          /\ holders[k] \subseteq live /\ holders'[k] \subseteq live \ {d}
      BY <1>1, <1>6 DEF Folded, holders
    <3>2. s \in holders[k] => s \in holders'[k]
      BY <1>1, <1>2, <1>6, ColumnValue DEF Folded, holders
    <3> QED BY <3>1, <3>2
  <2>2. ASSUME NEW k \in Columns, holders[k] \subseteq {d}
        PROVE  holders'[k] \in {{}, {s}}
    BY <1>6, <2>1, <2>2 DEF Folded
  <2>3. ASSUME NEW k \in Columns, ~(holders[k] \subseteq {d})
        PROVE  holders'[k] = holders[k]
    <3>1. PICK i \in live \ {d} : i \in holders[k]
      BY <2>1, <2>3
    <3>2. d \notin holders[k]
      BY <1>1, <1>6, <3>1, ColumnValue DEF Folded, holders, UniqueKeys
    <3>3. s \in holders'[k] => s \in holders[k]
      <4> SUFFICES ASSUME s \in holders'[k] PROVE s \in holders[k]
        OBVIOUS
      <4>1. row[k[1]] = k[2]
        BY <1>1, <1>6 DEF Folded, holders
      <4>2. With(k[1], k[2]) \subseteq {s, d}
        BY <1>6, <4>1, ColumnValue DEF Folded, Clash
      <4>3. i \in With(k[1], k[2])
        BY <3>1, ColumnValue DEF With, holders
      <4> QED BY <3>1, <4>2, <4>3
    <3>4. \A j : j \in holders'[k] <=> j \in holders[k]
      BY <2>1, <3>2, <3>3
    <3> QED BY <3>4
  <2>4. s # d
    BY <1>6 DEF Folded
  <2> QED BY <2>2, <2>3, <2>4, HoldersOnePerKind, HoldersTyped DEF Registry!Absorb
<1> QED BY <1>3, <1>4, <1>5, <1>6, RowStep DEF Registry!Next

\* The creator table is an identity registry: however upserts, merges, manual
\* edits and deletions interleave, an email or handle is claimed only when no
\* record holds it, kept until the record is deleted or merged, and never
\* taken from a living record or traded for another.
THEOREM TableIsRegistry ==
    OneKeyEach /\ RosterEdit = {} => (Spec => KeysOnlyClaimed)
<1> SUFFICES ASSUME OneKeyEach, RosterEdit = {} PROVE Spec => KeysOnlyClaimed
  OBVIOUS
<1>1. Init => Registry!Init /\ UniqueKeys
  BY DEF Init, Registry!Init, holders, UniqueKeys
<1>2. IInv /\ UniqueKeys /\ [Next]_vars => UniqueKeys'
  <2>1. CASE UNCHANGED vars
    BY <2>1 DEF vars, UniqueKeys
  <2> QED BY <2>1, UniqueStep
<1>3. IInv /\ IInv' /\ FillGiven /\ UniqueKeys /\ [Next]_vars
          => [Registry!Next]_holders
  <2>1. CASE UNCHANGED vars
    BY <2>1 DEF vars, holders
  <2> QED BY <2>1, RegistryStep
<1> QED BY <1>1, <1>2, <1>3, FillGivenInductive, PTL
        DEF Spec, KeysOnlyClaimed, Registry!Spec
-----------------------------------------------------------------------------
(* Keys, whatever a person's keys are and however they are edited.         *)

\* No two records ever have an email or a handle in common, whatever upserts, merges
\* and edits interleave: each write is checked against the rows as they stand.
\* (schema.prisma Creator @unique; creator-merge.service.ts doMerge, which deletes the
\* duplicate before it fills the survivor)
THEOREM KeysUnique == Spec => []UniqueKeys
<1>1. Init => UniqueKeys
  BY DEF Init, UniqueKeys
<1>2. IInv /\ UniqueKeys /\ [Next]_vars => UniqueKeys'
  <2>1. CASE UNCHANGED vars
    BY <2>1 DEF vars, UniqueKeys
  <2> QED BY <2>1, UniqueStep
<1> QED BY <1>1, <1>2, Inductive, PTL DEF Spec

\* A key changes hands only when the record that had it is gone.
NeverTaken ==
    [][\A k \in Columns : \A i \in holders[k], j \in holders'[k] : i # j => i \notin live']_vars

\* No upsert, edit or merge takes an email or a handle from a record that lives on,
\* whatever a person's keys are and however stale what the request has read: a key has
\* another record only once a merge has deleted the one that had it.
\* (creators.service.ts applyIdentityFills, updateManual; roster.service.ts updateDetails;
\* creator-merge.service.ts doMerge)
THEOREM KeysNeverTaken == Spec => NeverTaken
<1>1. ASSUME IInv, UniqueKeys, Next, NEW k \in Columns, NEW i \in holders[k],
             NEW j \in holders'[k], i \in live'
      PROVE  i = j
  <2>1. live \subseteq CreatorId /\ creators \in [CreatorId -> Row]
    BY <1>1 DEF IInv, TypeOK
  <2>2. k[1] \in Key /\ k[2] # None
    BY ColumnValue
  <2>3. i \in live /\ creators[i][k[1]] = k[2] /\ j \in live' /\ creators'[j][k[1]] = k[2]
    BY DEF holders
  <2>4. j \in live /\ creators[j][k[1]] = k[2] => i = j
    BY <1>1, <2>2, <2>3 DEF UniqueKeys
  <2>5. CASE Unchanged
    BY <2>3, <2>4, <2>5 DEF Unchanged
  <2>6. ASSUME NEW id \in CreatorId, NEW row \in Row, Written(id, row) PROVE i = j
    <3>1. CASE j = id
      <4>1. row[k[1]] = k[2]
        BY <2>1, <2>3, <2>6, <3>1 DEF Written
      <4>2. With(k[1], k[2]) \subseteq {id}
        BY <2>2, <2>6, <4>1 DEF Written, Clash
      <4> QED BY <2>2, <2>3, <3>1, <4>2 DEF With
    <3>2. CASE j # id
      BY <2>1, <2>3, <2>4, <2>6, <3>2 DEF Written
    <3> QED BY <3>1, <3>2
  <2>7. ASSUME NEW id \in CreatorId, Deleted(id) PROVE i = j
    BY <2>1, <2>3, <2>4, <2>7 DEF Deleted
  <2>8. ASSUME NEW s \in CreatorId, NEW d \in CreatorId, NEW row \in Row, Folded(s, d, row)
        PROVE  i = j
    <3>1. CASE j = s
      <4>1. row[k[1]] = k[2] /\ i # d
        BY <1>1, <2>1, <2>3, <2>8, <3>1 DEF Folded
      <4>2. With(k[1], k[2]) \subseteq {s, d}
        BY <2>2, <2>8, <4>1 DEF Folded, Clash
      <4> QED BY <2>2, <2>3, <3>1, <4>1, <4>2 DEF With
    <3>2. CASE j # s
      BY <2>1, <2>3, <2>4, <2>8, <3>2 DEF Folded
    <3> QED BY <3>1, <3>2
  <2> QED BY <1>1, <2>5, <2>6, <2>7, <2>8, RowStep
<1>2. IInv /\ UniqueKeys /\ [Next]_vars =>
        [\A k \in Columns : \A i \in holders[k], j \in holders'[k] : i # j => i \notin live']_vars
  BY <1>1
<1> QED BY <1>2, Inductive, KeysUnique, PTL DEF Spec, NeverTaken

-----------------------------------------------------------------------------
(* Every request ends.                                                     *)

\* The statements that are left after one that leads to this step, but for a
\* second attempt and the further pairs of a mergeAll.
Rank(pc) ==
    CASE pc = "idle" -> 0
      [] pc \in {"item", "edit", "roster"} -> 1
      [] pc \in {"update", "create", "mergeDelete"} -> 2
      [] pc \in {"fillHandle", "mergeMove"} -> 3
      [] pc \in {"fillEmail", "mergeRead"} -> 4
      [] pc \in {"name", "pairs"} -> 5
      [] pc \in {"handle", "find"} -> 6
      [] pc = "email" -> 7

\* The statements a request may still make, at most: an upsert is tried twice.
Left(t) ==
    Rank(t.pc) + IF t.attempt = 1 /\ t.pc \notin {"idle", "item", "edit", "roster"}
                 THEN 6 ELSE 0

\* Task u is nearer to the end of its request than t: fewer statements are left, or
\* fewer pairs, and no pair is added once the pairs have been found.
Nearer(u, t) ==
    /\ u.pc # "find"
    /\ u.pairs \subseteq t.pairs \/ t.pc = "find"
    /\ Left(u) < Left(t) \/ (u.pairs \subseteq t.pairs /\ u.pairs # t.pairs)

\* A request that has begun comes nearer to its end with whatever happens to it.
Shorten ==
    [][\A w \in Worker :
          /\ Left(task[w]) \in 0 .. 13
          /\ Left(task[w]) = 0 <=> task[w].pc = "idle"
          /\ task'[w] # task[w] /\ task[w].pc # "idle" => Nearer(task'[w], task[w])]_vars

\* The pieces of Left.
LEMMA LeftIs ==
    ASSUME NEW t \in Task
    PROVE  /\ Left(t) \in 0 .. 13
           /\ Left(t) = 0 <=> t.pc = "idle"
           /\ t.pc \in {"item", "edit", "roster"} => Left(t) = 1
           /\ t.pc \notin {"idle", "item", "edit", "roster"} =>
                 Left(t) = Rank(t.pc) + IF t.attempt = 1 THEN 6 ELSE 0
  BY DEF Left, Rank, Task, Step

\* What a request that ends, or goes on with the next pair, comes to.
LEMMA IdleNearer ==
    ASSUME NEW t \in Task, t.pc # "idle"
    PROVE  Nearer(Idle, t)
<1> PICK u : u = Idle
  OBVIOUS
<1>1. u \in Task /\ u.pc = "idle" /\ u.pairs = {}
  BY IdleGood DEF Idle
<1>2. Left(u) = 0 /\ Left(t) \in 0 .. 13 /\ Left(t) # 0
  BY <1>1, LeftIs
<1> QED BY <1>1, <1>2 DEF Nearer

LEMMA DoneNearer ==
    ASSUME NEW t \in Task, Listed(t), t.pc \notin {"idle", "pairs", "find"}
    PROVE  Nearer(Done(t), t)
<1> PICK rest : rest = t.pairs \ {<<t.target, t.byEmail>>}
  OBVIOUS
<1>1. CASE rest = {}
  BY <1>1, IdleNearer DEF Done
<1>2. CASE rest # {}
  <2> PICK u : u = Done(t)
    OBVIOUS
  <2>1. u.pc = "pairs" /\ u.pairs = rest
    BY <1>2 DEF Done, Idle
  <2>2. <<t.target, t.byEmail>> \in t.pairs
    BY <1>2 DEF Listed
  <2> QED BY <2>1, <2>2 DEF Nearer
<1> QED BY <1>1, <1>2

\* A second attempt has fewer statements left than the end of a first.
LEMMA RetryNearer ==
    ASSUME NEW t \in Task, Listed(t), t.pc \in {"update", "create", "mergeDelete"},
           Retry(t) \in Task
    PROVE  Nearer(Retry(t), t)
<1>1. CASE t.attempt # 1
  BY <1>1, DoneNearer DEF Retry
<1>2. CASE t.attempt = 1
  <2> PICK u \in Task : u = Retry(t)
    OBVIOUS
  <2>1. u.pc = "email" /\ u.attempt = 2 /\ u.pairs = {}
    BY <1>2 DEF Retry, Idle
  <2>2. Left(u) = 7 /\ Left(t) = 8
    BY <1>2, <2>1, LeftIs DEF Rank
  <2> QED BY <2>1, <2>2 DEF Nearer
<1> QED BY <1>1, <1>2

\* A statement that goes on to the next one of the same attempt.
LEMMA NextNearer ==
    ASSUME NEW t \in Task, NEW u \in Task, u.attempt = t.attempt, u.pairs = t.pairs,
           \/ t.pc = "email" /\ u.pc \in {"handle", "fillEmail", "fillHandle", "update"}
           \/ t.pc = "handle" /\ u.pc \in {"mergeRead", "name", "create", "fillEmail",
                                           "fillHandle", "update"}
           \/ t.pc = "name" /\ u.pc \in {"create", "fillEmail", "fillHandle", "update"}
           \/ t.pc = "fillEmail" /\ u.pc \in {"fillHandle", "update"}
           \/ t.pc = "fillHandle" /\ u.pc = "update"
           \/ t.pc = "mergeRead" /\ u.pc = "mergeMove"
           \/ t.pc = "mergeMove" /\ u.pc = "mergeDelete"
    PROVE  Nearer(u, t)
<1>1. Rank(u.pc) < Rank(t.pc) /\ Rank(u.pc) \in Nat /\ Rank(t.pc) \in Nat
  BY DEF Rank
<1>2. Left(u) < Left(t)
  BY <1>1, LeftIs
<1> QED BY <1>2 DEF Nearer

\* A statement brings its request nearer to its end.
LEMMA StatementShortens ==
    ASSUME IInv, IInv', FillGiven, NEW w \in Worker, Statement(w)
    PROVE  Nearer(task'[w], task[w])
<1>1. PICK t \in Task : t = task[w]
  BY Working
<1>2. PICK u \in Task : u = task'[w]
  BY DEF IInv, TypeOK
<1>3. task \in [Worker -> Task] /\ Listed(t)
  BY <1>1 DEF IInv, TypeOK, FillGiven, Planned
<1>4. u = task'[w] /\ t = task[w]
  BY <1>1, <1>2
<1>5. ASSUME NEW id, NEW row
      PROVE  /\ Settle(t, id, row).pc \in {"fillEmail", "fillHandle", "update"}
             /\ Settle(t, id, row).attempt = t.attempt
             /\ Settle(t, id, row).pairs = t.pairs
  BY DEF Settle, ToFills, ToHandleFill, Task
<1>6. ASSUME NEW id, t.pc \in {"update", "create", "mergeDelete"}, u = Return(t, id)
      PROVE  Nearer(u, t)
  <2>1. CASE t.item = None
    BY <1>3, <1>6, <2>1, DoneNearer DEF Return
  <2>2. CASE t.item # None
    <3>1. u.pc = "item" /\ u.pairs = {}
      BY <1>6, <2>2 DEF Return, Idle
    <3>2. Left(u) < Left(t)
      BY <1>6, <3>1, LeftIs DEF Rank
    <3> QED BY <3>1, <3>2 DEF Nearer
  <2> QED BY <2>1, <2>2
<1>7. CASE FindMasters(w)
  <2>1. t.pc = "find"
    BY <1>4, <1>7 DEF FindMasters
  <2> PICK pairs : u = Done([t EXCEPT !.pairs = pairs])
    BY <1>3, <1>4, <1>7 DEF FindMasters
  <2> PICK v : v = [t EXCEPT !.pairs = pairs]
    OBVIOUS
  <2>2. u = Done(v)
    OBVIOUS
  <2>3. CASE u = Idle
    BY <1>4, <2>1, <2>3, IdleNearer
  <2>4. CASE u # Idle
    <3>1. u.pc = "pairs" /\ u.attempt = 2
      BY <2>2, <2>4 DEF Done, Idle
    <3>2. Left(u) < Left(t)
      BY <2>1, <3>1, LeftIs DEF Rank
    <3> QED BY <1>4, <2>1, <3>1, <3>2 DEF Nearer
  <2> QED BY <2>3, <2>4
<1>8. CASE NextPair(w)
  <2>1. t.pc = "pairs"
    BY <1>4, <1>8 DEF NextPair
  <2> PICK p : u = CallMerge(p[1], p[2], t.pairs)
    BY <1>3, <1>4, <1>8 DEF NextPair
  <2>2. u.pc = "mergeRead" /\ u.attempt = 2 /\ u.pairs = t.pairs
    BY DEF CallMerge, Idle
  <2>3. Left(u) < Left(t)
    BY <2>1, <2>2, LeftIs DEF Rank
  <2> QED BY <1>4, <2>2, <2>3 DEF Nearer
<1>9. CASE \/ StoreContract(w) \/ StoreStats(w) \/ CommitEdit(w) \/ CommitRosterEdit(w)
  <2>1. u = Idle /\ t.pc # "idle"
    BY <1>3, <1>4, <1>9 DEF StoreContract, StoreStats, CommitEdit, CommitRosterEdit
  <2> QED BY <1>4, <2>1, IdleNearer
<1>10. CASE Create(w) \/ Update(w) \/ MergeDelete(w)
  <2>1. t.pc \in {"update", "create", "mergeDelete"} /\ \E id : u = Return(t, id)
    BY <1>3, <1>4, <1>10 DEF Create, Update, MergeDelete
  <2> QED BY <1>4, <1>6, <2>1
<1>11. CASE CreateClash(w) \/ UpdateRefused(w) \/ MergeRefused(w)
  <2>1. t.pc \in {"update", "create", "mergeDelete"} /\ u \in {Idle, Retry(t), Done(t)}
    BY <1>3, <1>4, <1>11 DEF CreateClash, UpdateRefused, MergeRefused
  <2> QED BY <1>3, <1>4, <2>1, IdleNearer, RetryNearer, DoneNearer
<1>12. CASE \/ SettleByEmail(w) \/ LookPastEmail(w) \/ KeepEmailMatch(w) \/ FoundByHandle(w)
            \/ FoundSplit(w) \/ NoHandleMatch(w) \/ FindByName(w)
  <2>0. t.pc \in {"email", "handle", "name"}
    BY <1>3, <1>4, <1>12 DEF SettleByEmail, LookPastEmail, KeepEmailMatch, FoundByHandle,
       FoundSplit, NoHandleMatch, FindByName
  <2>4. (\E id, row : u = Settle(t, id, row)) \/ (u.attempt = t.attempt /\ u.pairs = t.pairs /\
           \/ t.pc = "email" /\ u.pc = "handle"
           \/ t.pc = "handle" /\ u.pc \in {"mergeRead", "name", "create"}
           \/ t.pc = "name" /\ u.pc = "create")
    <3>1. CASE SettleByEmail(w)
      BY <1>3, <1>4, <3>1 DEF SettleByEmail
    <3>2. CASE LookPastEmail(w)
      <4>1. t.pc = "email" /\ \/ task' = [task EXCEPT ![w].pc = "handle"]
                              \/ \E id : task' = [task EXCEPT ![w].pc = "handle", ![w].byEmail = id,
                                                              ![w].seen = creators[id]]
        BY <1>4, <3>2 DEF LookPastEmail
      <4>2. CASE task' = [task EXCEPT ![w].pc = "handle"]
        BY <1>3, <1>4, <4>1, <4>2 DEF Task
      <4>3. ASSUME NEW id, task' = [task EXCEPT ![w].pc = "handle", ![w].byEmail = id,
                                               ![w].seen = creators[id]]
            PROVE  u.pc = "handle" /\ u.attempt = t.attempt /\ u.pairs = t.pairs
        <5>1. u = [t EXCEPT !.pc = "handle", !.byEmail = id, !.seen = creators[id]]
          BY <1>3, <1>4, <4>3
        <5> QED BY <5>1 DEF Task
      <4> QED BY <4>1, <4>2, <4>3
    <3>3. CASE KeepEmailMatch(w)
      BY <1>3, <1>4, <3>3 DEF KeepEmailMatch
    <3>4. CASE FoundByHandle(w)
      BY <1>3, <1>4, <3>4 DEF FoundByHandle
    <3>5. CASE FoundSplit(w)
      BY <1>3, <1>4, <3>5 DEF FoundSplit, Task
    <3>6. CASE NoHandleMatch(w)
      BY <1>3, <1>4, <3>6 DEF NoHandleMatch, Task
    <3>7. CASE FindByName(w)
      BY <1>3, <1>4, <3>7 DEF FindByName, Task
    <3> QED BY <1>12, <3>1, <3>2, <3>3, <3>4, <3>5, <3>6, <3>7
  <2>1. u.attempt = t.attempt /\ u.pairs = t.pairs
    BY <1>5, <2>4
  <2>2. \/ t.pc = "email" /\ u.pc \in {"handle", "fillEmail", "fillHandle", "update"}
        \/ t.pc = "handle" /\ u.pc \in {"mergeRead", "name", "create", "fillEmail",
                                        "fillHandle", "update"}
        \/ t.pc = "name" /\ u.pc \in {"create", "fillEmail", "fillHandle", "update"}
    BY <1>5, <2>0, <2>4
  <2> QED BY <1>4, <2>1, <2>2, NextNearer
<1>13. CASE FillEmail(w) \/ FillHandle(w) \/ MergeMove(w) \/ (MergeRead(w) /\ u # Done(t))
  <2>1. u.attempt = t.attempt /\ u.pairs = t.pairs
    BY <1>3, <1>4, <1>13 DEF FillEmail, FillHandle, MergeMove, MergeRead, Task
  <2>2. \/ t.pc = "fillEmail" /\ u.pc \in {"fillHandle", "update"}
        \/ t.pc = "fillHandle" /\ u.pc = "update"
        \/ t.pc = "mergeRead" /\ u.pc = "mergeMove"
        \/ t.pc = "mergeMove" /\ u.pc = "mergeDelete"
    BY <1>3, <1>4, <1>13 DEF FillEmail, FillHandle, ToHandleFill, MergeMove, MergeRead, Task
  <2> QED BY <1>4, <2>1, <2>2, NextNearer
<1>14. CASE MergeRead(w) /\ u = Done(t)
  <2>1. t.pc = "mergeRead"
    BY <1>4, <1>14 DEF MergeRead
  <2> QED BY <1>3, <1>4, <1>14, <2>1, DoneNearer
<1> QED BY <1>7, <1>8, <1>9, <1>10, <1>11, <1>12, <1>13, <1>14 DEF Statement

\* Every request and job ends after thirteen statements at most, whatever the others do
\* between them: nothing is looked up twice in one attempt, and a unique index that refuses
\* the second attempt, or a record that is gone, ends it. A mergeAll comes to the next of its
\* pairs that way, and a pair is merged, or refused, once.
\* (creators.service.ts upsertFromSource "Retries once", doUpsert, resolveExisting;
\* duplicate-creators.service.ts mergeAll)
THEOREM RequestsEnd == Spec => Shorten
<1>1. ASSUME IInv, IInv', FillGiven, Next, NEW w \in Worker
      PROVE  /\ Left(task[w]) \in 0 .. 13
             /\ Left(task[w]) = 0 <=> task[w].pc = "idle"
             /\ task'[w] # task[w] /\ task[w].pc # "idle" => Nearer(task'[w], task[w])
  <2>1. task \in [Worker -> Task] /\ task[w] \in Task
    BY <1>1 DEF IInv, TypeOK
  <2>2. Left(task[w]) \in 0 .. 13 /\ (Left(task[w]) = 0 <=> task[w].pc = "idle")
    BY <2>1, LeftIs
  <2>3. ASSUME NEW v \in Worker, Request(v) \/ Statement(v) \/ Abort(v), task'[w] # task[w]
        PROVE  v = w
    BY <2>1, <2>3 DEF Request, StartUpsert, StartMergePair, StartMergeAll, StartEdit, StartRosterEdit, Abort,
       Statement, FindMasters, NextPair, SettleByEmail, LookPastEmail, FoundSplit, KeepEmailMatch, FoundByHandle,
       NoHandleMatch, FindByName, FillEmail, FillHandle, Create, CreateClash, Update,
       UpdateRefused, MergeRead, MergeMove, MergeDelete, MergeRefused, StoreContract,
       StoreStats, CommitEdit, CommitRosterEdit
  <2>4. ASSUME task'[w] # task[w], task[w].pc # "idle"
        PROVE  Nearer(task'[w], task[w])
    <3>1. \A id : ~Remove(id)
      BY <2>4 DEF Remove
    <3>2. Request(w) \/ Statement(w) \/ Abort(w)
      BY <1>1, <2>3, <2>4, <3>1 DEF Next
    <3>3. ~Request(w)
      BY <2>4 DEF Request, StartUpsert, StartMergePair, StartMergeAll, StartEdit, StartRosterEdit
    <3>4. CASE Abort(w)
      <4>1. PICK t \in Task : t = task[w]
        BY <2>1
      <4>2. Listed(t)
        BY <1>1, <4>1 DEF FillGiven, Planned
      <4>3. task'[w] = Idle \/ (t.pc \in Merging /\ task'[w] = Done(t))
        BY <2>1, <3>4, <4>1 DEF Abort
      <4>4. t.pc # "idle"
        BY <2>4, <4>1
      <4>5. CASE task'[w] = Idle
        BY <4>1, <4>4, <4>5, IdleNearer
      <4>6. CASE t.pc \in Merging /\ task'[w] = Done(t)
        BY <4>1, <4>2, <4>6, DoneNearer DEF Merging
      <4> QED BY <4>3, <4>5, <4>6
    <3> QED BY <1>1, <3>2, <3>3, <3>4, StatementShortens
  <2> QED BY <2>2, <2>4
<1>2. IInv /\ IInv' /\ FillGiven /\ [Next]_vars =>
        [\A w \in Worker :
          /\ Left(task[w]) \in 0 .. 13
          /\ Left(task[w]) = 0 <=> task[w].pc = "idle"
          /\ task'[w] # task[w] /\ task[w].pc # "idle" => Nearer(task'[w], task[w])]_vars
  BY <1>1
<1> QED BY <1>2, FillGivenInductive, PTL DEF Spec, Shorten
=============================================================================
