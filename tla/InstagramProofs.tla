--------------------------- MODULE InstagramProofs ---------------------------
(***************************************************************************)
(* Proofs about InstagramDm, for any number of messages, scouts and        *)
(* handlers in flight: type correctness, with the unique keys and the      *)
(* poll guard; that a share only reaches the sheet of a scout entitled to  *)
(* its sender; and that re-filing never unfiles what was filed.  For one   *)
(* handler at a time: that halves meet, a share is filed once, the ledger  *)
(* tells where, and a handle decides what follows.  Every handler ends.    *)
(*                                                                         *)
(* The argument.  A handler that places a message holds a scout it once    *)
(* found by the sender's id or username, or was told by an admin, and a    *)
(* right, once given, stays: whatever the tables say by the time it files, *)
(* the scout was entitled.  A handler that re-files holds ids of ledger    *)
(* rows that were not filed when it read them; a row never changes and its *)
(* id is not reused, so the row it deletes is not a filed one.             *)
(*                                                                         *)
(* One handler at a time, what it read is still true when it acts on it:   *)
(* the half it looked for (PInv), that the message is not in the ledger    *)
(* (FInv), the handle and the ids of the scouts and the rows it is to file *)
(* again (HInv).                                                           *)
(***************************************************************************)
EXTENDS InstagramDm, FiniteSetTheorems, TLAPS

Following == {"handle", "claim", "waiting", "release", "link", "pending"}
Placing == {"cache", "half", "fill", "number", "create"}
Unplaced == {"drop", "seen", "cached", "lookup"}
Ingesting == Placing \cup Unplaced \cup Recording

\* Scout s may get the shares of sender i.
Ent(E, s, i) == \E why \in {"handle", "assigned"} : <<s, i, why>> \in E

\* The ledger's row n, if there is one, is not filed, and n has been given.
Unfiled(n, L, last) == n <= last /\ \A r \in L : r.id = n => r.status # "APPLIED"

\* What a handler carries from one message to the next.
Carry(t, E, L, last) ==
    /\ t.senders # {} => t.owner \in Scout
    /\ \A i \in t.senders : Ent(E, t.owner, i)
    /\ \A it \in t.todo : it.id # 0 => Unfiled(it.id, L, last)

\* The local variables a step needs.
Shape(t) ==
    /\ t.pc = "idle" => t = Idle
    /\ t.pc \in Following => t.owner \in Scout
    /\ t.pc = "waiting" => t.handle \in Handle
    /\ t.pc \in {"link", "pending"} => t.sender \in Sender
    /\ t.pc \in Ingesting => t.cur.message \in Message
    /\ t.pc \in Placing => t.cur.scout \in Scout
    /\ t.pc \in {"cache", "half", "fill", "number"} \cup Unplaced => t.cur.attempt <= 2
    /\ t.pc \in Unplaced => t.cur.username = None
    /\ t.pc = "unmatched" => t.cur.username \in {None, UsernameOf[SenderOf[t.cur.message]]}

\* What they say of the tables.
Rights(t, E, sh) ==
    /\ t.pc \in Placing => Ent(E, t.cur.scout, SenderOf[t.cur.message])
    /\ t.pc = "fill" => t.cur.row \in DOMAIN sh /\ sh[t.cur.row].scout = t.cur.scout
    /\ t.pc = "waiting" => \A i \in Sender : UsernameOf[i] = t.handle => Ent(E, t.owner, i)
    /\ t.pc = "link" => Ent(E, t.owner, t.sender)

Good(t, E, sh, L, last) ==
    /\ Shape(t)
    /\ Rights(t, E, sh)
    /\ Carry(t, E, L, last)
    /\ t.pc = "drop" => Unfiled(t.cur.id, L, last)

\* The tables: their types and keys, and whom they entitle.
UsersOK ==
    /\ users \in [Scout -> [handle : Handle \cup {None}, igId : Sender \cup {None},
                            own : BOOLEAN]]
    /\ \A s, z \in Scout : s # z =>
          /\ users[s].handle = users[z].handle => users[s].handle = None
          /\ users[s].igId = users[z].igId => users[s].igId = None
    /\ \A s \in Scout, i \in Sender :
          users[s].igId = i \/ users[s].handle = UsernameOf[i] => Ent(entitled, s, i)
LedgerOK ==
    /\ ledger \subseteq LedgerRow /\ serial \in Nat
    /\ \A q, r \in ledger : q.message = r.message \/ q.id = r.id => q = r
    /\ \A r \in ledger : r.id <= serial
    /\ \A r \in Waiting : r.username \in {None, UsernameOf[SenderOf[r.message]]}
SheetOK == sheet \in Seq(Entry) /\ OnEntitledSheet
RestOK ==
    /\ sent \subseteq Message /\ boot \in BOOLEAN
    /\ entitled \subseteq Scout \X Sender \X {"handle", "assigned"}
    /\ requests \in 0 .. MaxRequests /\ faults \in 0 .. MaxFaults
Stored == UsersOK /\ LedgerOK /\ SheetOK /\ RestOK

\* One poll at a time, and the guard is its.
OnePoll ==
    /\ running = (\E w \in Poller : task[w].pc # "idle")
    /\ \A v, w \in Poller : task[v].pc # "idle" /\ task[w].pc # "idle" => v = w

Tasks ==
    /\ task \in [Worker -> Task]
    /\ \A w \in Worker : Good(task[w], entitled, sheet, ledger, serial)
    /\ OnePoll

\* The inductive invariant.
IInv == Stored /\ Tasks

LEMMA InvTyped == IInv => TypeOK
  BY DEF IInv, Stored, UsersOK, LedgerOK, SheetOK, RestOK, Tasks, OnePoll, Good, Rights,
         TypeOK

-----------------------------------------------------------------------------
(* Handlers.                                                               *)

\* How the tables may change without taking anything from a handler.
Grows ==
    /\ entitled \subseteq entitled'
    /\ DOMAIN sheet \subseteq DOMAIN sheet'
    /\ \A n \in DOMAIN sheet : sheet'[n].scout = sheet[n].scout
    /\ serial' \in Nat /\ serial <= serial'
    /\ \A r \in ledger' : r \in ledger \/ r.id > serial

LEMMA KeepGood ==
    ASSUME Stored, Stored', Grows, NEW t \in Task, Good(t, entitled, sheet, ledger, serial)
    PROVE  Good(t, entitled', sheet', ledger', serial')
<1>1. \A s, i : Ent(entitled, s, i) => Ent(entitled', s, i)
  BY DEF Grows, Ent
<1>2. \A n \in Nat : Unfiled(n, ledger, serial) => Unfiled(n, ledger', serial')
  <2>1. serial \in Nat /\ serial' \in Nat /\ serial <= serial'
    BY DEF Grows, Stored, LedgerOK
  <2>2. \A r \in ledger' : r.id \in Nat
    BY DEF Stored, LedgerOK, LedgerRow
  <2> QED BY <2>1, <2>2 DEF Grows, Unfiled
<1>3. t.cur.id \in Nat /\ \A it \in t.todo : it.id \in Nat
  BY DEF Task, Cur, Item
<1>4. Rights(t, entitled', sheet')
  BY <1>1 DEF Good, Rights, Grows
<1>5. Carry(t, entitled', ledger', serial')
  BY <1>1, <1>2, <1>3 DEF Good, Carry
<1> QED BY <1>2, <1>3, <1>4, <1>5 DEF Good

\* A handler that moves on: it releases the guard when it ends, and the others
\* stay as they are.
LEMMA WorkerStep ==
    ASSUME IInv, Stored', Grows, NEW w \in Worker, NEW t \in Task,
           w \in Poller => task[w].pc # "idle",
           Good(t, entitled', sheet', ledger', serial'), Become(w, t)
    PROVE  IInv'
<1>1. /\ task \in [Worker -> Task] /\ task' \in [Worker -> Task] /\ task'[w] = t
      /\ \A v \in Worker \ {w} : task'[v] = task[v]
  BY DEF IInv, Tasks, Become
<1>2. \A v \in Worker : Good(task'[v], entitled', sheet', ledger', serial')
  <2> SUFFICES ASSUME NEW v \in Worker \ {w}
               PROVE  Good(task[v], entitled', sheet', ledger', serial')
    BY <1>1
  <2>1. task[v] \in Task /\ Good(task[v], entitled, sheet, ledger, serial)
    BY <1>1 DEF IInv, Tasks
  <2> QED BY <2>1, KeepGood DEF IInv
<1>3. t # Idle <=> t.pc # "idle"
  BY DEF Good, Shape, Idle
<1>4. OnePoll'
  <2>1. running' = (running /\ (w \in Poller => t # Idle))
    BY DEF Become
  <2>2. Poller \subseteq Worker
    BY DEF Worker
  <2>3. CASE w \in Poller
    BY <1>1, <1>3, <2>1, <2>2, <2>3 DEF IInv, Tasks, OnePoll
  <2>4. CASE w \notin Poller
    BY <1>1, <2>1, <2>2, <2>4 DEF IInv, Tasks, OnePoll
  <2> QED BY <2>3, <2>4
<1> QED BY <1>1, <1>2, <1>4 DEF IInv, Tasks

\* Nothing is in flight.
LEMMA IdleGood ==
    /\ Idle \in Task
    /\ \A E, sh, L, n : Good(Idle, E, sh, L, n) /\ Carry(Idle, E, L, n)
<1>1. NoItem \in Cur
  BY DEF NoItem, Cur
<1>2. Idle \in Task
  BY <1>1 DEF Idle, Task, Step
<1> QED BY <1>2 DEF Idle, Good, Shape, Rights, Carry, Following, Placing, Unplaced, Recording,
                  Ingesting

\* Where a loop goes next is a good place.
LEMMA AfterGood ==
    ASSUME NEW t \in Task, NEW E, NEW sh, NEW L, NEW n, Carry(t, E, L, n), NEW u \in After(t)
    PROVE  u \in Task /\ Good(u, E, sh, L, n)
<1>1. NoItem \in Cur /\ t.todo \subseteq Item
  BY DEF NoItem, Cur, Task
<1>2. CASE t.todo # {}
  <2>1. PICK it \in Oldest(t.todo) :
            u = [t EXCEPT !.pc = IF it.id = 0 THEN "seen" ELSE "drop",
                          !.todo = @ \ {it},
                          !.cur = [NoItem EXCEPT !.id = it.id, !.message = it.message]]
    BY <1>2 DEF After
  <2> DEFINE c == [NoItem EXCEPT !.id = it.id, !.message = it.message]
  <2>2. it \in t.todo /\ it.id \in Nat /\ it.message \in Message
    BY <1>1, <2>1 DEF Oldest, Item
  <2>3. c \in Cur /\ c.id = it.id /\ c.message = it.message /\ c.username = None /\ c.attempt = 0
    BY <1>1, <2>2 DEF Cur, NoItem
  <2> HIDE DEF c
  <2>4. /\ u \in Task /\ u.pc \in {"seen", "drop"} /\ (u.pc = "drop" => it.id # 0)
        /\ u.cur = c /\ u.todo \subseteq t.todo /\ u.senders = t.senders /\ u.owner = t.owner
    BY <2>1, <2>3 DEF Task, Step, c
  <2>5. Shape(u) /\ Rights(u, E, sh)
    BY <2>2, <2>3, <2>4 DEF Shape, Rights, Following, Placing, Unplaced, Recording, Ingesting
  <2>6. Carry(u, E, L, n) /\ (u.pc = "drop" => Unfiled(u.cur.id, L, n))
    BY <2>2, <2>3, <2>4 DEF Carry
  <2> QED BY <2>4, <2>5, <2>6 DEF Good
<1>3. CASE t.todo = {}
  <2>1. \/ u = [t EXCEPT !.pc = "fetch", !.cur = NoItem]
        \/ t.senders # {} /\ u = [t EXCEPT !.pc = "release", !.cur = NoItem]
        \/ u = Idle
    BY <1>3 DEF After
  <2>2. CASE u = Idle
    BY <2>2, IdleGood
  <2>3. CASE u # Idle
    <3>1. /\ u \in Task /\ u.pc \in {"fetch", "release"} /\ (u.pc = "release" => t.senders # {})
          /\ u.todo = t.todo /\ u.senders = t.senders /\ u.owner = t.owner
      BY <1>1, <2>1, <2>3 DEF Task, Step
    <3>2. Shape(u) /\ Rights(u, E, sh)
      BY <3>1 DEF Carry, Shape, Rights, Following, Placing, Unplaced, Recording, Ingesting
    <3> QED BY <3>1, <3>2 DEF Carry, Good
  <2> QED BY <2>2, <2>3
<1> QED BY <1>2, <1>3

LEMMA ResumeStep ==
    ASSUME IInv, Stored', Grows, NEW w \in Worker, NEW t \in Task,
           w \in Poller => task[w].pc # "idle",
           Carry(t, entitled', ledger', serial'), Resume(w, t)
    PROVE  IInv'
<1>1. PICK u \in After(t) : Become(w, u)
  BY DEF Resume
<1>2. u \in Task /\ Good(u, entitled', sheet', ledger', serial')
  BY AfterGood
<1> QED BY <1>1, <1>2, WorkerStep

\* A step that leaves the tables alone, but for a request or a fault counted.
Still ==
    /\ UNCHANGED <<tables, sent, entitled>> /\ boot' \in BOOLEAN
    /\ requests' \in 0 .. MaxRequests /\ faults' \in 0 .. MaxFaults

LEMMA StillStored == ASSUME IInv, Still PROVE Stored' /\ Grows
  BY DEF Still, tables, IInv, Stored, UsersOK, LedgerOK, Waiting, SheetOK, OnEntitledSheet,
         RestOK, Grows

LEMMA WorldStill ==
    ASSUME IInv, UNCHANGED <<tables, world>>
    PROVE  Still
  BY DEF Still, world, tables, IInv, Stored, RestOK

LEMMA RequestStill == ASSUME IInv, Request PROVE requests' \in 0 .. MaxRequests
  BY BoundAssumption DEF Request, IInv, Stored, RestOK

LEMMA FaultStill == ASSUME IInv, Fault PROVE faults' \in 0 .. MaxFaults
  BY BoundAssumption DEF Fault, IInv, Stored, RestOK

\* A step of one handler's local variables.
LEMMA LocalStep ==
    ASSUME IInv, Still, NEW w \in Worker, w \in Poller => task[w].pc # "idle",
           \/ \E t \in Task : Good(t, entitled, sheet, ledger, serial) /\ Become(w, t)
           \/ \E t \in Task : Carry(t, entitled, ledger, serial) /\ Resume(w, t)
    PROVE  IInv'
<1>1. Stored' /\ Grows /\ UNCHANGED <<users, ledger, serial, sheet, entitled>>
  BY StillStored DEF Still, tables
<1>2. CASE \E t \in Task : Good(t, entitled, sheet, ledger, serial) /\ Become(w, t)
  BY <1>1, <1>2, WorkerStep
<1>3. CASE \E t \in Task : Carry(t, entitled, ledger, serial) /\ Resume(w, t)
  BY <1>1, <1>3, ResumeStep
<1> QED BY <1>2, <1>3

\* An exception.
LEMMA ThrowStep ==
    ASSUME IInv, Still, NEW w \in Worker, task[w].pc # "idle", Throw(w)
    PROVE  IInv'
<1>1. task[w] \in Task /\ Carry(task[w], entitled, ledger, serial)
  BY DEF IInv, Tasks, Good
<1>2. Resume(w, task[w]) \/ Become(w, Idle)
  BY DEF Throw
<1> QED BY <1>1, <1>2, IdleGood, LocalStep

-----------------------------------------------------------------------------
(* The start, and everybody but the handlers.                              *)

LEMMA InitGood == Init => IInv
<1> SUFFICES ASSUME Init PROVE IInv
  OBVIOUS
<1>1. Cardinality(Dropped) \in Nat
  BY MessageAssumption, FS_CardinalityType
<1>2. Tasks
  BY IdleGood DEF Init, Tasks, OnePoll, Idle, Worker
<1>3. UsersOK
  BY NoneAssumption, MessageAssumption DEF Init, UsersOK
<1>4. PICK order \in [Dropped -> 1 .. Cardinality(Dropped)] :
          /\ \A m, n \in Dropped : order[m] = order[n] => m = n
          /\ ledger = {DroppedRow(m, order[m]) : m \in Dropped}
  BY DEF Init
<1>5. LedgerOK
  <2>1. \A m \in Dropped : m \in Message /\ order[m] \in Nat /\ order[m] <= Cardinality(Dropped)
    BY <1>1, <1>4, MessageAssumption
  <2>2. \A m \in Dropped : DroppedRow(m, order[m]) \in LedgerRow
    BY <2>1 DEF DroppedRow, LedgerRow, Status
  <2>3. \A r \in ledger : \E m \in Dropped :
            r = DroppedRow(m, order[m]) /\ r.message = m /\ r.id = order[m]
              /\ r.status = "NO_LINKS"
    BY <1>4 DEF DroppedRow
  <2>4. \A q, r \in ledger : q.message = r.message \/ q.id = r.id => q = r
    BY <1>4, <2>3
  <2>5. ledger \subseteq LedgerRow /\ serial = Cardinality(Dropped)
    BY <2>2, <2>3 DEF Init
  <2>6. \A r \in ledger : r.id <= serial /\ r.status = "NO_LINKS"
    BY <2>1, <2>3, <2>5
  <2> QED BY <1>1, <2>4, <2>5, <2>6 DEF LedgerOK, Waiting
<1>6. SheetOK
  BY DEF Init, SheetOK, OnEntitledSheet
<1>7. RestOK
  BY MessageAssumption, BoundAssumption DEF Init, RestOK
<1> QED BY <1>2, <1>3, <1>5, <1>6, <1>7 DEF IInv, Stored

\* A step that touches no handler.
LEMMA OutsideStep ==
    ASSUME IInv, Stored', Grows, UNCHANGED <<task, running>>
    PROVE  IInv'
<1>1. \A w \in Worker : Good(task[w], entitled', sheet', ledger', serial')
  <2> SUFFICES ASSUME NEW w \in Worker
               PROVE  Good(task[w], entitled', sheet', ledger', serial')
    OBVIOUS
  <2>1. task[w] \in Task /\ Good(task[w], entitled, sheet, ledger, serial)
    BY DEF IInv, Tasks
  <2> QED BY <2>1, KeepGood DEF IInv
<1> QED BY <1>1 DEF IInv, Tasks, OnePoll

LEMMA SendStep ==
    ASSUME IInv, NEW m \in Message, Send(m)
    PROVE  IInv'
<1>1. Stored' /\ Grows
  BY DEF Send, tables, IInv, Stored, UsersOK, LedgerOK, Waiting, SheetOK, OnEntitledSheet,
         RestOK, Grows
<1> QED BY <1>1, OutsideStep DEF Send

LEMMA ForgetStep ==
    ASSUME IInv, NEW i \in Sender, Forget(i)
    PROVE  IInv'
<1>1. UsersOK'
  BY NoneAssumption DEF Forget, IInv, Stored, UsersOK
<1>2. LedgerOK'
  BY DEF Forget, IInv, Stored, LedgerOK, Waiting
<1>3. Stored' /\ Grows
  BY <1>1, <1>2, RequestStill
  DEF Forget, IInv, Stored, SheetOK, OnEntitledSheet, RestOK, LedgerOK, Grows
<1> QED BY <1>3, OutsideStep DEF Forget

LEMMA AgeStep ==
    ASSUME IInv, NEW n \in DOMAIN sheet, Age(n)
    PROVE  IInv'
<1>1. sheet \in Seq(Entry) /\ OnEntitledSheet
  BY DEF IInv, Stored, SheetOK
<1>2. sheet' = [k \in DOMAIN sheet |-> IF k <= n THEN [sheet[k] EXCEPT !.fresh = FALSE]
                                                 ELSE sheet[k]]
  BY DEF Age
<1>3. \A k \in DOMAIN sheet :
          /\ sheet'[k] \in Entry /\ sheet'[k].scout = sheet[k].scout
          /\ \A kind \in Kind : sheet'[k][kind] = sheet[k][kind]
  <2> SUFFICES ASSUME NEW k \in DOMAIN sheet
               PROVE  /\ sheet'[k] \in Entry /\ sheet'[k].scout = sheet[k].scout
                      /\ \A kind \in Kind : sheet'[k][kind] = sheet[k][kind]
    OBVIOUS
  <2>1. sheet[k] \in Entry
    BY <1>1
  <2>2. sheet'[k] = [sheet[k] EXCEPT !.fresh = FALSE] \/ sheet'[k] = sheet[k]
    BY <1>2
  <2>3. sheet'[k] \in Entry /\ sheet'[k].scout = sheet[k].scout
    BY <2>1, <2>2 DEF Entry
  <2>4. sheet'[k].profile = sheet[k].profile /\ sheet'[k].reel = sheet[k].reel
    BY <2>1, <2>2 DEF Entry
  <2> QED BY <2>3, <2>4 DEF Kind
<1>4. sheet' \in Seq(Entry) /\ DOMAIN sheet' = DOMAIN sheet
  BY <1>1, <1>2, <1>3
<1>5. OnEntitledSheet'
  BY <1>1, <1>3, <1>4 DEF Age, world, OnEntitledSheet
<1>6. Stored' /\ Grows
  BY <1>3, <1>4, <1>5
  DEF Age, world, IInv, Stored, UsersOK, LedgerOK, Waiting, SheetOK, RestOK, Grows
<1> QED BY <1>6, OutsideStep DEF Age

LEMMA RestartStep ==
    ASSUME IInv, Restart
    PROVE  IInv'
<1>1. Stored'
  BY FaultStill
  DEF Restart, tables, IInv, Stored, UsersOK, LedgerOK, Waiting, SheetOK, OnEntitledSheet, RestOK
<1>2. Tasks'
  BY IdleGood DEF Restart, Tasks, OnePoll, Idle, Worker
<1> QED BY <1>1, <1>2 DEF IInv

LEMMA StutterStep ==
    ASSUME IInv, UNCHANGED vars
    PROVE  IInv'
<1>1. Stored' /\ Grows
  BY DEF vars, IInv, Stored, UsersOK, LedgerOK, Waiting, SheetOK, OnEntitledSheet, RestOK, Grows
<1> QED BY <1>1, OutsideStep DEF vars

-----------------------------------------------------------------------------
(* What starts a run.                                                      *)

\* Messages from Meta, and rows of the ledger that are not filed, may be taken.
LEMMA ItemsGood ==
    ASSUME IInv
    PROVE  /\ Inbox \subseteq Item /\ \A it \in Inbox : it.id = 0
           /\ \A rows \in SUBSET {r \in ledger : r.status # "APPLIED"} :
                 /\ Items(rows) \subseteq Item
                 /\ \A it \in Items(rows) : Unfiled(it.id, ledger, serial)
<1>1. Inbox \subseteq Item /\ \A it \in Inbox : it.id = 0
  BY DEF Inbox, Item, IInv, Stored, RestOK
<1>2. ASSUME NEW rows \in SUBSET {r \in ledger : r.status # "APPLIED"}
      PROVE  /\ Items(rows) \subseteq Item
             /\ \A it \in Items(rows) : Unfiled(it.id, ledger, serial)
  <2>1. \A r \in rows : r \in ledger /\ r.id \in Nat /\ r.message \in Message
                         /\ r.status # "APPLIED" /\ r.id <= serial
    BY <1>2 DEF IInv, Stored, LedgerOK, LedgerRow
  <2>2. \A r \in rows : Unfiled(r.id, ledger, serial)
    BY <2>1 DEF Unfiled, IInv, Stored, LedgerOK
  <2> QED BY <2>1, <2>2 DEF Items, Item
<1> QED BY <1>1, <1>2

\* A run that begins with a set of messages.
LEMMA BatchGood ==
    ASSUME IInv, NEW mode \in Mode, NEW batch \in SUBSET Item,
           \A it \in batch : it.id # 0 => Unfiled(it.id, ledger, serial)
    PROVE  LET t == [Idle EXCEPT !.mode = mode, !.todo = batch] IN
           t \in Task /\ Carry(t, entitled, ledger, serial)
<1> DEFINE t == [Idle EXCEPT !.mode = mode, !.todo = batch]
<1>1. t \in Task
  BY IdleGood DEF Task
<1>2. t.senders = {} /\ t.todo = batch
  BY DEF Idle
<1> QED BY <1>1, <1>2 DEF Carry

LEMMA HandlersNotPollers == \A w \in Handler : w \in Worker /\ w \notin Poller
  BY MessageAssumption DEF Worker

LEMMA DeliverStep ==
    ASSUME IInv, NEW w \in Worker, Deliver(w)
    PROVE  IInv'
<1>1. PICK batch \in SUBSET Inbox : Resume(w, [Idle EXCEPT !.mode = "hook", !.todo = batch])
  BY DEF Deliver
<1> DEFINE t == [Idle EXCEPT !.mode = "hook", !.todo = batch]
<1>2. t \in Task /\ Carry(t, entitled, ledger, serial)
  BY <1>1, ItemsGood, BatchGood DEF Mode
<1> HIDE DEF t
<1>3. Resume(w, t) /\ w \notin Poller /\ Still
  BY <1>1, HandlersNotPollers, WorldStill DEF Deliver, t
<1> QED BY <1>2, <1>3, LocalStep

LEMMA TickStep ==
    ASSUME IInv, NEW w \in Worker, Tick(w)
    PROVE  IInv'
<1> DEFINE t == [Idle EXCEPT !.mode = "poll", !.todo = Inbox]
<1>1. /\ w \in Poller /\ ~running /\ running' /\ sent # {}
      /\ UNCHANGED <<users, ledger, serial, sheet, entitled>>
  BY DEF Tick, tables, world
<1>2. PICK u \in After(t) : task' = [task EXCEPT ![w] = u]
  BY DEF Tick
<1>3. t \in Task /\ Carry(t, entitled, ledger, serial) /\ t.todo # {}
  <2>1. t \in Task /\ Carry(t, entitled, ledger, serial)
    BY ItemsGood, BatchGood DEF Mode
  <2>2. t.todo # {}
    BY <1>1 DEF Inbox, Idle
  <2> QED BY <2>1, <2>2
<1> HIDE DEF t
<1>4. u \in Task /\ Good(u, entitled, sheet, ledger, serial)
  BY <1>2, <1>3, AfterGood
<1>5. u.pc # "idle"
  BY <1>2, <1>3 DEF After, Task
<1>6. Stored'
  BY WorldStill, StillStored DEF Tick
<1>7. task' \in [Worker -> Task] /\ task'[w] = u /\ \A v \in Worker \ {w} : task'[v] = task[v]
  BY <1>2, <1>4 DEF IInv, Tasks
<1>8. \A v \in Worker : Good(task'[v], entitled', sheet', ledger', serial')
  BY <1>1, <1>4, <1>7 DEF IInv, Tasks
<1>9. OnePoll'
  <2>1. \A v \in Poller : task[v].pc = "idle"
    BY <1>1 DEF IInv, Tasks, OnePoll
  <2> QED BY <1>1, <1>5, <1>7, <2>1 DEF OnePoll, Worker
<1> QED BY <1>6, <1>7, <1>8, <1>9 DEF IInv, Tasks

LEMMA RefileStep ==
    ASSUME IInv, NEW w \in Worker, RefileAtBoot(w) \/ ManualSync(w)
    PROVE  IInv'
<1> DEFINE rows == {r \in ledger : r.status = "NO_LINKS" /\ Shares[r.message] # {}}
<1>1. PICK mode \in {"refile", "sync"} : Refile(w, mode)
  BY DEF RefileAtBoot, ManualSync
<1> DEFINE t == [Idle EXCEPT !.mode = mode, !.todo = Items(rows)]
<1>2. t \in Task /\ Carry(t, entitled, ledger, serial)
  <2>1. rows \in SUBSET {r \in ledger : r.status # "APPLIED"}
    OBVIOUS
  <2>2. Items(rows) \subseteq Item /\ \A it \in Items(rows) : Unfiled(it.id, ledger, serial)
    BY <2>1, ItemsGood
  <2> HIDE DEF rows
  <2> QED BY <2>2, BatchGood DEF Mode
<1>3. Resume(w, t) /\ w \notin Poller
  BY <1>1, HandlersNotPollers DEF Refile
<1> HIDE DEF t
<1>4. Still
  BY <1>1, RequestStill
  DEF Refile, RefileAtBoot, ManualSync, Request, Still, IInv, Stored, RestOK
<1> QED BY <1>2, <1>3, <1>4, LocalStep

LEMMA StartStep ==
    ASSUME IInv, NEW w \in Worker, NEW mode \in {"own", "admin"}, StartSetHandle(w, mode)
    PROVE  IInv'
<1>1. PICK s \in Scout, h \in Handle \cup {None} :
          Become(w, [Idle EXCEPT !.mode = mode, !.pc = "handle", !.owner = s,
                                 !.handle = h, !.had = users[s].handle])
  BY DEF StartSetHandle
<1> DEFINE t == [Idle EXCEPT !.mode = mode, !.pc = "handle", !.owner = s,
                             !.handle = h, !.had = users[s].handle]
<1>2. users[s].handle \in Handle \cup {None}
  BY DEF IInv, Stored, UsersOK
<1>3. t \in Task
  BY <1>2, IdleGood DEF Task, Step, Mode
<1>4. t.pc = "handle" /\ t.owner = s /\ t.senders = {} /\ t.todo = {}
  BY DEF Idle
<1>5. Good(t, entitled, sheet, ledger, serial)
  BY <1>4 DEF Good, Shape, Rights, Carry, Following, Placing, Unplaced, Recording, Ingesting
<1> HIDE DEF t
<1>6. Become(w, t) /\ w \notin Poller /\ Still
  BY <1>1, RequestStill, HandlersNotPollers
  DEF StartSetHandle, Request, Still, IInv, Stored, RestOK, t
<1> QED BY <1>3, <1>5, <1>6, LocalStep

LEMMA AssignStep ==
    ASSUME IInv, NEW w \in Worker, Assign(w)
    PROVE  IInv'
<1>1. PICK r \in ledger, s \in Scout :
          /\ Become(w, [Idle EXCEPT !.mode = "assign", !.pc = "release", !.owner = s,
                                    !.handle = r.username, !.senders = {SenderOf[r.message]}])
          /\ entitled' = entitled \cup {<<s, SenderOf[r.message], "assigned">>}
  BY DEF Assign
<1> DEFINE i == SenderOf[r.message]
           t == [Idle EXCEPT !.mode = "assign", !.pc = "release", !.owner = s,
                             !.handle = r.username, !.senders = {i}]
<1>2. i \in Sender /\ r.username \in Handle \cup {None}
  BY MessageAssumption DEF IInv, Stored, LedgerOK, LedgerRow
<1>3. t \in Task
  BY <1>2, IdleGood DEF Task, Step, Mode
<1>4. t.pc = "release" /\ t.owner = s /\ t.senders = {i} /\ t.todo = {}
  BY DEF Idle
<1>5. Ent(entitled', s, i)
  BY <1>1 DEF Ent
<1>6. Good(t, entitled', sheet', ledger', serial')
  BY <1>4, <1>5
  DEF Good, Shape, Rights, Carry, Following, Placing, Unplaced, Recording, Ingesting
<1> HIDE DEF t
<1>7. Stored' /\ Grows
  BY <1>1, <1>2, RequestStill
  DEF Assign, tables, IInv, Stored, UsersOK, LedgerOK, Waiting, SheetOK, OnEntitledSheet,
      RestOK, Grows, Ent
<1>8. Become(w, t) /\ w \notin Poller
  BY <1>1, HandlersNotPollers DEF Assign, t
<1> QED BY <1>3, <1>6, <1>7, <1>8, WorkerStep

-----------------------------------------------------------------------------
(* Linking a sender to a scout.                                            *)

LEMMA Own ==
    ASSUME IInv, NEW w \in Worker
    PROVE  /\ task[w] \in Task /\ Good(task[w], entitled, sheet, ledger, serial)
           /\ Carry(task[w], entitled, ledger, serial)
  BY DEF IInv, Tasks, Good

\* A step on the accounts, with whom it entitles.
LEMMA UserStep ==
    ASSUME IInv, UsersOK', UNCHANGED <<sent, ledger, serial, sheet, boot, requests, faults>>,
           entitled \subseteq entitled',
           entitled' \subseteq Scout \X Sender \X {"handle", "assigned"}
    PROVE  Stored' /\ Grows
  BY DEF IInv, Stored, LedgerOK, Waiting, SheetOK, OnEntitledSheet, RestOK, Grows

LEMMA EntitleGood ==
    ASSUME IInv, NEW s \in Scout, NEW h, Entitle(s, h)
    PROVE  /\ entitled \subseteq entitled'
           /\ entitled' \subseteq Scout \X Sender \X {"handle", "assigned"}
           /\ \A i \in Sender : UsernameOf[i] = h => Ent(entitled', s, i)
<1>1. \A i \in Sender : UsernameOf[i] = h => <<s, i, "handle">> \in entitled'
  BY DEF Entitle
<1> QED BY <1>1 DEF Entitle, Ent, IInv, Stored, RestOK

LEMMA PutHandleStep ==
    ASSUME IInv, NEW w \in Worker, PutHandle(w)
    PROVE  IInv'
<1> DEFINE t == task[w]
           s == t.owner
           v == [handle |-> t.handle, igId |-> IF t.handle = t.had THEN users[s].igId ELSE None,
                 own |-> t.mode = "own"]
           u == [t EXCEPT !.pc = "claim", !.handle = None, !.had = None]
<1>1. t \in Task /\ Good(t, entitled, sheet, ledger, serial) /\ t.pc = "handle"
  BY Own DEF PutHandle, At
<1>2. s \in Scout /\ t.handle \in Handle \cup {None}
  BY <1>1 DEF Good, Shape, Following, Task
<1>3. users' = [users EXCEPT ![s] = v]
  BY DEF PutHandle
<1>4. /\ users[s].igId \in Sender \cup {None}
      /\ v \in [handle : Handle \cup {None}, igId : Sender \cup {None}, own : BOOLEAN]
      /\ v.handle = t.handle /\ v.igId \in {users[s].igId, None}
  BY <1>2 DEF IInv, Stored, UsersOK
<1>5. \A z \in Scout : z # s => t.handle = None \/ users[z].handle # t.handle
  BY DEF PutHandle, Holding
<1>6. /\ entitled \subseteq entitled'
      /\ entitled' \subseteq Scout \X Sender \X {"handle", "assigned"}
      /\ \A i \in Sender : UsernameOf[i] = t.handle => Ent(entitled', s, i)
  BY <1>2, EntitleGood DEF PutHandle
<1> HIDE DEF v
<1>7. UsersOK'
  <2>1. users \in [Scout -> [handle : Handle \cup {None}, igId : Sender \cup {None}, own : BOOLEAN]]
    BY DEF IInv, Stored, UsersOK
  <2>2. users' \in [Scout -> [handle : Handle \cup {None}, igId : Sender \cup {None}, own : BOOLEAN]]
        /\ users'[s] = v /\ \A z \in Scout : z # s => users'[z] = users[z]
    BY <1>2, <1>3, <1>4, <2>1
  <2>3. \A z \in Scout, i \in Sender : Ent(entitled, z, i) => Ent(entitled', z, i)
    BY <1>6 DEF Ent
  <2>4. ASSUME NEW y \in Scout, NEW z \in Scout, y # z
        PROVE  /\ users'[y].handle = users'[z].handle => users'[y].handle = None
               /\ users'[y].igId = users'[z].igId => users'[y].igId = None
    BY <1>4, <1>5, <2>2, <2>4 DEF IInv, Stored, UsersOK
  <2>5. ASSUME NEW z \in Scout, NEW i \in Sender,
               users'[z].igId = i \/ users'[z].handle = UsernameOf[i]
        PROVE  Ent(entitled', z, i)
    <3>1. CASE z = s
      <4>1. users[s].igId = i \/ t.handle = UsernameOf[i]
        BY <1>4, <2>2, <2>5, <3>1, NoneAssumption
      <4> QED BY <1>2, <1>6, <2>3, <3>1, <4>1 DEF IInv, Stored, UsersOK
    <3>2. CASE z # s
      BY <2>2, <2>3, <2>5, <3>2 DEF IInv, Stored, UsersOK
    <3> QED BY <3>1, <3>2
  <2> QED BY <2>2, <2>4, <2>5 DEF UsersOK
<1>8. Stored' /\ Grows
  BY <1>6, <1>7, UserStep DEF PutHandle
<1>9. u \in Task /\ Good(u, entitled, sheet, ledger, serial)
  BY <1>1 DEF Task, Step, Good, Shape, Rights, Carry, Following, Placing, Unplaced, Recording,
              Ingesting
<1> HIDE DEF u
<1>10. Become(w, u) \/ Become(w, Idle)
  BY DEF PutHandle, u
<1>11. Good(u, entitled', sheet', ledger', serial')
  BY <1>8, <1>9, KeepGood DEF IInv
<1> QED BY <1>1, <1>8, <1>9, <1>10, <1>11, IdleGood, WorkerStep

LEMMA ClaimStep ==
    ASSUME IInv, NEW w \in Worker, HandleTaken(w) \/ ReadHandle(w) \/ LinkRefused(w)
    PROVE  IInv'
<1> DEFINE t == task[w]
           h == users[t.owner].handle
           u == [t EXCEPT !.pc = "waiting", !.handle = h]
<1>1. t \in Task /\ Good(t, entitled, sheet, ledger, serial) /\ Still /\ t.pc # "idle"
  BY Own, WorldStill DEF HandleTaken, ReadHandle, LinkRefused, At
<1>2. CASE ReadHandle(w) /\ h # None
  <2>1. t.pc = "claim" /\ t.owner \in Scout
    BY <1>1, <1>2 DEF ReadHandle, At, Good, Shape, Following
  <2>2. h \in Handle /\ \A i \in Sender : UsernameOf[i] = h => Ent(entitled, t.owner, i)
    BY <1>2, <2>1 DEF IInv, Stored, UsersOK
  <2>3. u \in Task /\ Good(u, entitled, sheet, ledger, serial)
    BY <1>1, <2>1, <2>2
    DEF Task, Step, Good, Shape, Rights, Carry, Following, Placing, Unplaced, Recording, Ingesting
  <2>4. Become(w, u)
    BY <1>2 DEF ReadHandle
  <2> HIDE DEF u
  <2> QED BY <1>1, <2>3, <2>4, LocalStep
<1>3. CASE Become(w, Idle)
  BY <1>1, <1>3, IdleGood, LocalStep
<1> QED BY <1>2, <1>3 DEF HandleTaken, ReadHandle, LinkRefused

LEMMA FindWaitingStep ==
    ASSUME IInv, NEW w \in Worker, FindWaiting(w)
    PROVE  IInv'
<1> DEFINE t == task[w]
           By(n) == {SenderOf[r.message] : r \in {q \in Waiting : q.username = n}}
           Resolved == {i \in By(None) : UsernameOf[i] = t.handle}
<1>1. /\ t \in Task /\ Good(t, entitled, sheet, ledger, serial)
      /\ t.pc = "waiting" /\ Still
  <2>1. t.pc = "waiting" /\ UNCHANGED <<tables, sent, boot, entitled, requests>>
        /\ (Fault \/ UNCHANGED faults)
    BY DEF FindWaiting, At
  <2>2. Still
    BY <2>1, FaultStill DEF Still, IInv, Stored, RestOK
  <2> QED BY <2>1, <2>2, Own
<1>2. PICK found \in SUBSET Resolved : Resume(w, [t EXCEPT !.senders = By(t.handle) \cup found])
  BY DEF FindWaiting
<1>3. t.owner \in Scout /\ t.handle \in Handle
      /\ \A i \in Sender : UsernameOf[i] = t.handle => Ent(entitled, t.owner, i)
  BY <1>1 DEF Good, Shape, Rights, Following
<1>4. By(t.handle) \cup Resolved \subseteq {i \in Sender : UsernameOf[i] = t.handle}
  <2>1. \A r \in Waiting : /\ SenderOf[r.message] \in Sender
                           /\ r.username \in {None, UsernameOf[SenderOf[r.message]]}
    BY MessageAssumption DEF Waiting, IInv, Stored, LedgerOK, LedgerRow
  <2> QED BY <1>3, <2>1, NoneAssumption
<1> DEFINE u == [t EXCEPT !.senders = By(t.handle) \cup found]
<1>5. By(t.handle) \cup found \subseteq {i \in Sender : UsernameOf[i] = t.handle}
  BY <1>2, <1>4
<1> HIDE DEF By, Resolved
<1>6. u \in Task /\ Carry(u, entitled, ledger, serial)
  BY <1>1, <1>3, <1>5 DEF Task, Good, Carry
<1>7. Resume(w, u)
  BY <1>2
<1> HIDE DEF u
<1> QED BY <1>1, <1>6, <1>7, LocalStep

LEMMA ReleaseStep ==
    ASSUME IInv, NEW w \in Worker, Release(w)
    PROVE  IInv'
<1> DEFINE t == task[w]
<1>1. t \in Task /\ Good(t, entitled, sheet, ledger, serial) /\ t.pc = "release"
      /\ t.owner \in Scout
  BY Own DEF Release, At, Good, Shape, Following
<1>2. PICK i \in t.senders :
          /\ Become(w, [t EXCEPT !.pc = "link", !.sender = i, !.senders = @ \ {i},
                                 !.had = users[t.owner].handle])
          /\ users' = [s \in Scout |-> IF users[s].igId = i /\ s # t.owner
                                       THEN [users[s] EXCEPT !.igId = None] ELSE users[s]]
  BY DEF Release
<1> DEFINE u == [t EXCEPT !.pc = "link", !.sender = i, !.senders = @ \ {i},
                          !.had = users[t.owner].handle]
<1>3. i \in Sender /\ Ent(entitled, t.owner, i) /\ users[t.owner].handle \in Handle \cup {None}
  BY <1>1, <1>2 DEF Good, Carry, Task, IInv, Stored, UsersOK
<1>4. UsersOK'
  BY <1>2, NoneAssumption DEF Release, world, IInv, Stored, UsersOK
<1>5. Stored' /\ Grows
  BY <1>4, UserStep DEF Release, world, IInv, Stored, RestOK
<1>6. u \in Task
  BY <1>1, <1>3 DEF Task, Step
<1>7. Good(u, entitled, sheet, ledger, serial)
  BY <1>1, <1>3 DEF Task, Good, Shape, Rights, Carry, Following, Placing, Unplaced, Recording,
                    Ingesting
<1>8. Become(w, u)
  BY <1>2
<1> HIDE DEF u
<1> QED BY <1>1, <1>5, <1>6, <1>7, <1>8, KeepGood, WorkerStep DEF IInv

LEMMA LinkStep ==
    ASSUME IInv, NEW w \in Worker, Link(w)
    PROVE  IInv'
<1> DEFINE t == task[w]
           s == t.owner
           h == Adopted(t)
           u == [t EXCEPT !.pc = "pending", !.had = None]
<1>1. t \in Task /\ Good(t, entitled, sheet, ledger, serial) /\ t.pc = "link"
  BY Own DEF Link, At
<1>2. s \in Scout /\ t.sender \in Sender /\ Ent(entitled, s, t.sender)
  BY <1>1 DEF Good, Shape, Rights, Following
<1>3. h \in Handle \cup {None}
  BY <1>1, <1>2 DEF Adopted, Task, IInv, Stored, UsersOK
<1>4. \A z \in Scout : z # s => /\ users[z].igId # t.sender
                                /\ h = None \/ users[z].handle # h
  BY DEF Link, LinkClash, Holding
<1>5. /\ entitled \subseteq entitled'
      /\ entitled' \subseteq Scout \X Sender \X {"handle", "assigned"}
      /\ \A i \in Sender : UsernameOf[i] = h => Ent(entitled', s, i)
  BY <1>2, EntitleGood DEF Link
<1> DEFINE v == [handle |-> h, igId |-> t.sender, own |-> users[s].own /\ h = users[s].handle]
<1>6. users' = [users EXCEPT ![s] = v]
  BY DEF Link
<1>7. v \in [handle : Handle \cup {None}, igId : Sender \cup {None}, own : BOOLEAN]
       /\ v.igId = t.sender /\ v.handle = h
  BY <1>2, <1>3
<1> HIDE DEF h, v
<1>8. UsersOK'
  <2>1. users \in [Scout -> [handle : Handle \cup {None}, igId : Sender \cup {None}, own : BOOLEAN]]
    BY DEF IInv, Stored, UsersOK
  <2>2. /\ users'[s] = v
        /\ \A z \in Scout : z # s => users'[z] = users[z]
        /\ users' \in [Scout -> [handle : Handle \cup {None}, igId : Sender \cup {None}, own : BOOLEAN]]
    BY <1>2, <1>6, <1>7, <2>1
  <2>3. users'[s].igId = t.sender /\ users'[s].handle = h
    BY <1>7, <2>2
  <2>4. ASSUME NEW y \in Scout, NEW z \in Scout, y # z
        PROVE  /\ users'[y].handle = users'[z].handle => users'[y].handle = None
               /\ users'[y].igId = users'[z].igId => users'[y].igId = None
    <3>1. \A x \in Scout : x # s => /\ users'[x].igId # users'[s].igId
                                    /\ users'[x].handle = users'[s].handle => users'[s].handle = None
      BY <1>4, <2>2, <2>3
    <3>2. CASE y # s /\ z # s
      BY <2>2, <2>4, <3>2 DEF IInv, Stored, UsersOK
    <3>3. CASE y = s \/ z = s
      BY <2>4, <3>1, <3>3
    <3> QED BY <3>2, <3>3
  <2>5. \A z \in Scout, i \in Sender : Ent(entitled, z, i) => Ent(entitled', z, i)
    BY <1>5 DEF Ent
  <2>6. ASSUME NEW z \in Scout, NEW i \in Sender,
               users'[z].igId = i \/ users'[z].handle = UsernameOf[i]
        PROVE  Ent(entitled', z, i)
    <3>1. CASE z = s
      BY <1>2, <1>5, <2>3, <2>5, <2>6, <3>1
    <3>2. CASE z # s
      BY <2>2, <2>5, <2>6, <3>2 DEF IInv, Stored, UsersOK
    <3> QED BY <3>1, <3>2
  <2> QED BY <2>2, <2>4, <2>6 DEF UsersOK
<1>9. Stored' /\ Grows
  BY <1>5, <1>8, UserStep DEF Link
<1>10. u \in Task /\ Good(u, entitled, sheet, ledger, serial)
  BY <1>1, <1>2 DEF Task, Step, Good, Shape, Rights, Carry, Following, Placing, Unplaced,
                    Recording, Ingesting
<1>11. Become(w, u)
  BY DEF Link
<1> HIDE DEF u
<1> QED BY <1>1, <1>9, <1>10, <1>11, KeepGood, WorkerStep DEF IInv

LEMMA PendingStep ==
    ASSUME IInv, NEW w \in Worker, ReadPending(w) \/ FetchInbox(w)
    PROVE  IInv'
<1> DEFINE t == task[w]
           rows == {r \in Waiting : SenderOf[r.message] = t.sender}
           p == [t EXCEPT !.todo = Items(rows), !.sender = None]
           f == [t EXCEPT !.mode = "inbox", !.todo = Inbox]
<1>1. t \in Task /\ Carry(t, entitled, ledger, serial) /\ t.pc # "idle" /\ Still
  BY Own, WorldStill DEF ReadPending, FetchInbox, At
<1>2. Items(rows) \subseteq Item /\ \A it \in Items(rows) : Unfiled(it.id, ledger, serial)
  <2>1. rows \in SUBSET {r \in ledger : r.status # "APPLIED"}
    BY DEF Waiting
  <2> HIDE DEF rows
  <2> QED BY <2>1, ItemsGood
<1>3. Inbox \subseteq Item /\ \A it \in Inbox : it.id = 0
  BY ItemsGood
<1>4. Resume(w, p) \/ Resume(w, f)
  BY DEF ReadPending, FetchInbox
<1> HIDE DEF rows
<1>5. p \in Task /\ Carry(p, entitled, ledger, serial)
  BY <1>1, <1>2 DEF Task, Carry
<1>6. f \in Task /\ Carry(f, entitled, ledger, serial)
  BY <1>1, <1>3 DEF Task, Mode, Carry
<1> HIDE DEF p, f
<1> QED BY <1>1, <1>4, <1>5, <1>6, LocalStep

LEMMA DropStep ==
    ASSUME IInv, NEW w \in Worker, Drop(w)
    PROVE  IInv'
<1> DEFINE t == task[w]
           u == [t EXCEPT !.pc = "seen", !.cur.id = 0]
<1>1. t \in Task /\ Good(t, entitled, sheet, ledger, serial) /\ t.pc = "drop"
  BY Own DEF Drop, At
<1>2. ledger' \subseteq ledger /\ UNCHANGED <<users, serial, sheet, world>> /\ Become(w, u)
  BY DEF Drop
<1>3. Stored' /\ Grows
  BY <1>2 DEF world, IInv, Stored, UsersOK, LedgerOK, Waiting, SheetOK, OnEntitledSheet,
              RestOK, Grows
<1>4. u \in Task /\ Good(u, entitled, sheet, ledger, serial)
  BY <1>1 DEF Task, Cur, Step, Good, Shape, Rights, Carry, Following, Placing, Unplaced,
              Recording, Ingesting
<1> HIDE DEF u
<1> QED BY <1>1, <1>2, <1>3, <1>4, KeepGood, WorkerStep DEF IInv

LEMMA DropMissingStep ==
    ASSUME IInv, NEW w \in Worker, DropMissing(w)
    PROVE  IInv'
  BY WorldStill, ThrowStep DEF DropMissing, At

-----------------------------------------------------------------------------
(* ingest.                                                                 *)

\* A message whose scout is settled.
LEMMA PlaceGood ==
    ASSUME NEW t \in Task, Good(t, entitled, sheet, ledger, serial),
           t.pc \in {"cached", "cache"}, NEW s \in Scout, NEW n \in Handle \cup {None},
           Ent(entitled, s, SenderOf[t.cur.message])
    PROVE  LET u == [t EXCEPT !.pc = IF Shares[t.cur.message] = {} THEN "nolinks" ELSE "half",
                              !.cur.scout = s, !.cur.username = n,
                              !.cur.kinds = Shares[t.cur.message]]
           IN  u \in Task /\ Good(u, entitled, sheet, ledger, serial)
<1> DEFINE k == Shares[t.cur.message]
           c == [t.cur EXCEPT !.scout = s, !.username = n, !.kinds = k]
           pc == IF k = {} THEN "nolinks" ELSE "half"
           u == [t EXCEPT !.pc = pc, !.cur = c]
<1>1. t.cur \in Cur /\ t.cur.message \in Message /\ t.cur.attempt <= 2
  BY DEF Task, Good, Shape, Unplaced, Placing, Ingesting
<1>2. k \in SUBSET Kind
  BY <1>1, MessageAssumption
<1>3. /\ c \in Cur /\ c.message = t.cur.message /\ c.scout = s /\ c.username = n
      /\ c.attempt = t.cur.attempt
  BY <1>1, <1>2 DEF Cur
<1>4. pc \in {"nolinks", "half"}
  OBVIOUS
<1> HIDE DEF k, c, pc
<1>5. u \in Task
  BY <1>3, <1>4 DEF Task, Step
<1>6. /\ u.pc = pc /\ u.cur = c /\ u.todo = t.todo /\ u.senders = t.senders
      /\ u.owner = t.owner
  BY DEF Task
<1>7. Good(u, entitled, sheet, ledger, serial)
  BY <1>1, <1>3, <1>4, <1>6
  DEF Good, Shape, Rights, Carry, Following, Placing, Unplaced, Recording, Ingesting
<1>8. u = [t EXCEPT !.pc = IF Shares[t.cur.message] = {} THEN "nolinks" ELSE "half",
                    !.cur.scout = s, !.cur.username = n, !.cur.kinds = Shares[t.cur.message]]
  BY DEF Task, u, c, pc, k
<1> QED BY <1>5, <1>7, <1>8

\* Is the message known, and whose is it?
LEMMA ResolveStep ==
    ASSUME IInv, NEW w \in Worker,
           \/ SkipSeen(w) \/ NotSeen(w) \/ FindCached(w) \/ NotCached(w)
           \/ MatchHandle(w) \/ LookupFails(w)
    PROVE  IInv'
<1> DEFINE t == task[w]
           i == SenderOf[t.cur.message]
<1>1. /\ t \in Task /\ Good(t, entitled, sheet, ledger, serial)
      /\ Carry(t, entitled, ledger, serial) /\ t.pc \in Unplaced /\ Still
  <2>1. t.pc \in Unplaced
    BY DEF SkipSeen, NotSeen, FindCached, NotCached, MatchHandle, LookupFails, At, Unplaced
  <2>2. Still
    BY WorldStill, FaultStill
    DEF SkipSeen, NotSeen, FindCached, NotCached, MatchHandle, LookupFails, Still, IInv,
        Stored, RestOK
  <2> QED BY <2>1, <2>2, Own
<1>2. /\ t.cur \in Cur /\ t.cur.message \in Message /\ t.cur.attempt <= 2
      /\ t.cur.username = None /\ i \in Sender
  BY <1>1, MessageAssumption DEF Task, Good, Shape, Unplaced, Ingesting
<1>3. t.pc # "idle"
  BY <1>1 DEF Unplaced
<1>4. CASE SkipSeen(w)
  BY <1>1, <1>3, <1>4, LocalStep DEF SkipSeen
<1>5. ASSUME NEW pc \in {"cached", "lookup", "unmatched"}, Goto(w, pc)
      PROVE  IInv'
  <2> DEFINE u == [t EXCEPT !.pc = pc]
  <2>1. u \in Task /\ Good(u, entitled, sheet, ledger, serial)
    BY <1>1, <1>2 DEF Task, Step, Good, Shape, Rights, Carry, Following, Placing, Unplaced,
                      Recording, Ingesting
  <2> HIDE DEF u
  <2>2. Become(w, u)
    BY <1>5 DEF Goto, u
  <2> QED BY <1>1, <1>3, <2>1, <2>2, LocalStep
<1>6. CASE NotSeen(w) \/ NotCached(w) \/ LookupFails(w)
  BY <1>5, <1>6 DEF NotSeen, NotCached, LookupFails
<1>7. CASE FindCached(w)
  <2>1. PICK s \in Holding("igId", i) : Place(w, s, users[s].handle)
    BY <1>7 DEF FindCached
  <2>2. /\ s \in Scout /\ users[s].igId = i /\ Ent(entitled, s, i)
        /\ users[s].handle \in Handle \cup {None} /\ t.pc = "cached"
    BY <1>2, <1>7, <2>1 DEF FindCached, At, Holding, IInv, Stored, UsersOK
  <2> QED BY <1>1, <1>3, <2>1, <2>2, PlaceGood, LocalStep DEF Place
<1>8. CASE MatchHandle(w)
  <2> DEFINE n == UsernameOf[i]
             d == [t.cur EXCEPT !.username = n]
             e(s) == [t.cur EXCEPT !.scout = s, !.username = n]
  <2>1. /\ t.pc = "lookup" /\ n \in Handle
        /\ \/ \E s \in Holding("handle", n) : Become(w, [t EXCEPT !.pc = "cache", !.cur = e(s)])
           \/ Become(w, [t EXCEPT !.pc = "unmatched", !.cur = d])
    BY <1>1, <1>2, <1>8, MessageAssumption DEF MatchHandle, At, Task
  <2>2. CASE Become(w, [t EXCEPT !.pc = "unmatched", !.cur = d])
    <3> DEFINE v == [t EXCEPT !.pc = "unmatched", !.cur = d]
    <3>1. d \in Cur /\ d.message = t.cur.message /\ d.username = n
      BY <1>2, <2>1 DEF Cur
    <3> HIDE DEF d
    <3>2. v \in Task /\ v.pc = "unmatched" /\ v.cur = d /\ v.todo = t.todo
          /\ v.senders = t.senders /\ v.owner = t.owner
      BY <1>1, <3>1 DEF Task, Step
    <3>3. Good(v, entitled, sheet, ledger, serial)
      BY <1>1, <1>2, <3>1, <3>2
      DEF Good, Shape, Rights, Carry, Following, Placing, Unplaced, Recording, Ingesting
    <3> HIDE DEF v
    <3>4. Become(w, v)
      BY <2>2 DEF v
    <3> QED BY <1>1, <1>3, <3>2, <3>3, <3>4, LocalStep
  <2>3. ASSUME NEW s \in Holding("handle", n), Become(w, [t EXCEPT !.pc = "cache", !.cur = e(s)])
        PROVE  IInv'
    <3> DEFINE f == e(s)
               v == [t EXCEPT !.pc = "cache", !.cur = f]
    <3>1. s \in Scout /\ Ent(entitled, s, i)
      BY <1>2, <2>3 DEF Holding, IInv, Stored, UsersOK
    <3>2. /\ f \in Cur /\ f.message = t.cur.message /\ f.scout = s
          /\ f.attempt = t.cur.attempt
      BY <1>2, <2>1, <3>1 DEF Cur
    <3> HIDE DEF f
    <3>3. v \in Task /\ v.pc = "cache" /\ v.cur = f /\ v.todo = t.todo
          /\ v.senders = t.senders /\ v.owner = t.owner
      BY <1>1, <3>2 DEF Task, Step
    <3>4. Good(v, entitled, sheet, ledger, serial)
      BY <1>1, <1>2, <3>1, <3>2, <3>3
      DEF Good, Shape, Rights, Carry, Following, Placing, Unplaced, Recording, Ingesting
    <3> HIDE DEF v
    <3>5. Become(w, v)
      BY <2>3 DEF v, f
    <3> QED BY <1>1, <1>3, <3>3, <3>4, <3>5, LocalStep
  <2> QED BY <2>1, <2>2, <2>3
<1> QED BY <1>4, <1>6, <1>7, <1>8

LEMMA CacheStep ==
    ASSUME IInv, NEW w \in Worker, CacheId(w)
    PROVE  IInv'
<1> DEFINE t == task[w]
           s == t.cur.scout
           i == SenderOf[t.cur.message]
<1>1. t \in Task /\ Good(t, entitled, sheet, ledger, serial) /\ t.pc = "cache"
  BY Own DEF CacheId, At
<1>2. /\ s \in Scout /\ i \in Sender /\ Ent(entitled, s, i)
      /\ t.cur.username \in Handle \cup {None}
  BY <1>1, MessageAssumption DEF Task, Cur, Good, Shape, Rights, Placing, Ingesting
<1>3. /\ users' = IF Holding("igId", i) \subseteq {s} THEN [users EXCEPT ![s].igId = i] ELSE users
      /\ Place(w, s, t.cur.username)
      /\ UNCHANGED <<ledger, serial, sheet, world>>
  BY DEF CacheId
<1>4. UsersOK'
  <2>1. CASE Holding("igId", i) \subseteq {s}
    <3>1. users \in [Scout -> [handle : Handle \cup {None}, igId : Sender \cup {None}, own : BOOLEAN]]
      BY DEF IInv, Stored, UsersOK
    <3>2. users' = [users EXCEPT ![s] = [users[s] EXCEPT !.igId = i]]
      BY <1>3, <2>1
    <3>3. /\ users' \in [Scout -> [handle : Handle \cup {None}, igId : Sender \cup {None}, own : BOOLEAN]]
          /\ users'[s].igId = i /\ users'[s].handle = users[s].handle
          /\ \A z \in Scout : z # s => users'[z] = users[z] /\ users[z].igId # i
      BY <1>2, <2>1, <3>1, <3>2 DEF Holding
    <3>4. ASSUME NEW y \in Scout, NEW z \in Scout, y # z
          PROVE  /\ users'[y].handle = users'[z].handle => users'[y].handle = None
                 /\ users'[y].igId = users'[z].igId => users'[y].igId = None
      BY <3>3, <3>4 DEF IInv, Stored, UsersOK
    <3>5. \A z \in Scout, j \in Sender :
              users'[z].igId = j \/ users'[z].handle = UsernameOf[j] => Ent(entitled, z, j)
      BY <1>2, <3>3 DEF IInv, Stored, UsersOK
    <3> QED BY <1>3, <3>3, <3>4, <3>5 DEF world, UsersOK
  <2>2. CASE ~ Holding("igId", i) \subseteq {s}
    BY <1>3, <2>2 DEF world, IInv, Stored, UsersOK
  <2> QED BY <2>1, <2>2
<1>5. Stored' /\ Grows
  BY <1>3, <1>4, UserStep DEF world, IInv, Stored, RestOK
<1> QED BY <1>1, <1>2, <1>3, <1>5, PlaceGood, KeepGood, WorkerStep DEF Place, IInv

LEMMA KindGood == \A kinds : NextKind(kinds) \in Kind
  BY DEF NextKind, Kind

LEMMA NumberGood == ASSUME IInv, NEW s PROVE LastRowNumber(s) \in Nat
<1>1. Len(sheet) \in Nat /\ DOMAIN sheet = 1 .. Len(sheet)
  BY DEF IInv, Stored, SheetOK
<1>2. IsFiniteSet(1 .. Len(sheet))
  BY <1>1, FS_Interval
<1>3. IsFiniteSet({n \in DOMAIN sheet : sheet[n].scout = s})
  BY <1>1, <1>2, FS_Subset
<1> QED BY <1>3, FS_CardinalityType DEF LastRowNumber

\* Finding a row, and the tries for a row number.
LEMMA RowStep ==
    ASSUME IInv, NEW w \in Worker, FindHalf(w) \/ ReadRowNumber(w) \/ RowClash(w)
    PROVE  IInv'
<1> DEFINE t == task[w]
           c == t.cur
<1>1. /\ t \in Task /\ Good(t, entitled, sheet, ledger, serial) /\ Still
      /\ t.pc \in {"half", "number", "create"}
  BY Own, WorldStill DEF FindHalf, ReadRowNumber, RowClash, At
<1>2. c \in Cur /\ (t.pc \in {"half", "number"} => c.attempt <= 2)
  BY <1>1 DEF Task, Good, Shape
<1>3. ASSUME NEW pc \in {"number", "failed"}, Goto(w, pc), pc = "number" => c.attempt <= 2
      PROVE  IInv'
  <2> DEFINE u == [t EXCEPT !.pc = pc]
  <2>1. u \in Task /\ Good(u, entitled, sheet, ledger, serial)
    BY <1>1, <1>3 DEF Task, Step, Good, Shape, Rights, Carry, Following, Placing, Unplaced,
                      Recording, Ingesting
  <2> HIDE DEF u
  <2>2. Become(w, u)
    BY <1>3 DEF Goto, u
  <2> QED BY <1>1, <2>1, <2>2, LocalStep
<1>4. CASE FindHalf(w)
  <2> DEFINE rows == Halves(c.scout, NextKind(c.kinds))
  <2>1. \/ Goto(w, "number")
        \/ \E n \in Newest(rows) : Become(w, [t EXCEPT !.pc = "fill", !.cur.row = n])
    BY <1>4 DEF FindHalf
  <2>2. CASE Goto(w, "number")
    BY <1>2, <1>3, <1>4, <2>2 DEF FindHalf, At
  <2>3. ASSUME NEW n \in Newest(rows), Become(w, [t EXCEPT !.pc = "fill", !.cur.row = n])
        PROVE  IInv'
    <3>1. n \in DOMAIN sheet /\ sheet[n].scout = c.scout /\ n \in Nat
      BY <2>3 DEF Newest, Halves, IInv, Stored, SheetOK
    <3> DEFINE d == [c EXCEPT !.row = n]
               u == [t EXCEPT !.pc = "fill", !.cur = d]
    <3>2. d \in Cur /\ d.row = n /\ d.scout = c.scout /\ d.message = c.message
          /\ d.attempt = c.attempt
      BY <1>2, <3>1 DEF Cur
    <3>3. Become(w, u)
      BY <2>3
    <3> HIDE DEF d
    <3>4. t.pc = "half" /\ u \in Task /\ u.pc = "fill" /\ u.cur = d /\ u.todo = t.todo
          /\ u.senders = t.senders /\ u.owner = t.owner
      BY <1>1, <1>4, <3>2 DEF FindHalf, At, Task, Step
    <3>5. Good(u, entitled, sheet, ledger, serial)
      BY <1>1, <3>1, <3>2, <3>4
      DEF Good, Shape, Rights, Carry, Following, Placing, Unplaced, Recording, Ingesting
    <3> HIDE DEF u
    <3> QED BY <1>1, <3>3, <3>4, <3>5, LocalStep
  <2> QED BY <2>1, <2>2, <2>3
<1>5. CASE ReadRowNumber(w)
  <2> DEFINE d == [c EXCEPT !.attempt = @ + 1, !.row = LastRowNumber(c.scout)]
             u == [t EXCEPT !.pc = "create", !.cur = d]
  <2>1. t.pc = "number" /\ Become(w, u)
    BY <1>1, <1>5 DEF ReadRowNumber, At, Task
  <2>2. d \in Cur /\ d.scout = c.scout /\ d.message = c.message
    <3> DEFINE n == LastRowNumber(c.scout)
    <3>1. n \in Nat /\ c.attempt + 1 \in 0 .. 3
      BY <1>2, <2>1, NumberGood DEF Cur
    <3> HIDE DEF n
    <3>2. d = [c EXCEPT !.attempt = c.attempt + 1, !.row = n]
      BY DEF n
    <3> HIDE DEF d
    <3> QED BY <1>2, <3>1, <3>2 DEF Cur
  <2> HIDE DEF d
  <2>3. u \in Task /\ u.pc = "create" /\ u.cur = d /\ u.todo = t.todo
        /\ u.senders = t.senders /\ u.owner = t.owner
    BY <1>1, <2>2 DEF Task, Step
  <2>4. Good(u, entitled, sheet, ledger, serial)
    BY <1>1, <2>1, <2>2, <2>3
    DEF Good, Shape, Rights, Carry, Following, Placing, Unplaced, Recording, Ingesting
  <2> HIDE DEF u
  <2> QED BY <1>1, <2>1, <2>3, <2>4, LocalStep
<1>6. CASE RowClash(w)
  <2>1. CASE c.attempt = 3
    BY <1>3, <1>6, <2>1 DEF RowClash
  <2>2. CASE c.attempt # 3
    BY <1>2, <1>3, <1>6, <2>2 DEF RowClash, Cur
  <2> QED BY <2>1, <2>2
<1> QED BY <1>4, <1>5, <1>6

\* What follows a share that was filed.
LEMMA FiledGood ==
    ASSUME NEW t \in Task, Good(t, entitled, sheet, ledger, serial), t.pc \in {"fill", "create"},
           NEW n \in Nat
    PROVE  LET rest == t.cur.kinds \ {NextKind(t.cur.kinds)}
               u == [t EXCEPT !.pc = IF rest = {} THEN "applied" ELSE "half",
                              !.cur.kinds = rest, !.cur.row = n, !.cur.attempt = 0]
           IN  u \in Task /\ Good(u, entitled, sheet, ledger, serial)
<1> DEFINE rest == t.cur.kinds \ {NextKind(t.cur.kinds)}
           pc == IF rest = {} THEN "applied" ELSE "half"
           d == [t.cur EXCEPT !.kinds = rest, !.row = n, !.attempt = 0]
           u == [t EXCEPT !.pc = pc, !.cur = d]
<1>1. t.cur \in Cur /\ rest \in SUBSET Kind /\ pc \in {"applied", "half"}
  BY DEF Task, Cur
<1> HIDE DEF rest, pc
<1>2. d \in Cur /\ d.scout = t.cur.scout /\ d.message = t.cur.message /\ d.attempt = 0
  <2>1. n \in Nat /\ 0 \in 0 .. 3
    OBVIOUS
  <2> QED BY <1>1, <2>1 DEF Cur
<1> HIDE DEF d
<1>3. u \in Task /\ u.pc = pc /\ u.cur = d /\ u.todo = t.todo /\ u.senders = t.senders
      /\ u.owner = t.owner
  BY <1>1, <1>2 DEF Task, Step
<1>4. Good(u, entitled, sheet, ledger, serial)
  BY <1>1, <1>2, <1>3
  DEF Good, Shape, Rights, Carry, Following, Placing, Unplaced, Recording, Ingesting
<1>5. u = [t EXCEPT !.pc = pc, !.cur.kinds = rest, !.cur.row = n, !.cur.attempt = 0]
  BY DEF Task, u, d
<1> QED BY <1>3, <1>4, <1>5 DEF rest, pc

\* A share is put on a row: into the half it lacks, or on a new one.
LEMMA FileStep ==
    ASSUME IInv, NEW w \in Worker, FillHalf(w) \/ CreateRow(w)
    PROVE  IInv'
<1> DEFINE t == task[w]
           c == t.cur
           k == NextKind(c.kinds)
           m == c.message
<1>1. /\ t \in Task /\ Good(t, entitled, sheet, ledger, serial) /\ t.pc \in {"fill", "create"}
      /\ sheet \in Seq(Entry) /\ OnEntitledSheet
  BY Own DEF FillHalf, CreateRow, At, IInv, Stored, SheetOK
<1>2. /\ c.scout \in Scout /\ m \in Message /\ Ent(entitled, c.scout, SenderOf[m])
      /\ k \in Kind
  BY <1>1, KindGood DEF Good, Shape, Rights, Placing, Ingesting
<1>3. UNCHANGED <<users, ledger, serial, world>>
  BY DEF FillHalf, CreateRow
<1>4. CASE FillHalf(w)
  <2> DEFINE row == c.row
             e == [sheet[row] EXCEPT ![k] = m]
  <2>1. row \in DOMAIN sheet /\ sheet[row].scout = c.scout /\ sheet[row] \in Entry /\ row \in Nat
    BY <1>1, <1>4 DEF FillHalf, At, Good, Rights
  <2>2. sheet' = [sheet EXCEPT ![row] = e] /\ Filed(w, row)
    BY <1>4 DEF FillHalf
  <2>3. /\ e \in Entry /\ e.scout = c.scout
        /\ \A j \in Kind : e[j] = m \/ e[j] = sheet[row][j]
    <3>1. k = "profile" \/ k = "reel"
      BY <1>2 DEF Kind
    <3>2. CASE k = "profile"
      BY <1>2, <2>1, <3>2 DEF Entry, Kind
    <3>3. CASE k = "reel"
      BY <1>2, <2>1, <3>3 DEF Entry, Kind
    <3> QED BY <3>1, <3>2, <3>3
  <2> HIDE DEF e
  <2>4. /\ sheet' \in Seq(Entry) /\ DOMAIN sheet' = DOMAIN sheet /\ sheet'[row] = e
        /\ \A n \in DOMAIN sheet : n # row => sheet'[n] = sheet[n]
    BY <1>1, <2>1, <2>2, <2>3
  <2>5. OnEntitledSheet'
    <3> SUFFICES ASSUME NEW n \in DOMAIN sheet, NEW j \in Kind, sheet'[n][j] # None
                 PROVE  Ent(entitled, sheet'[n].scout, SenderOf[sheet'[n][j]])
      BY <1>3, <2>4 DEF OnEntitledSheet, Ent, world
    <3>1. CASE n = row /\ e[j] = m
      BY <1>2, <2>3, <2>4, <3>1
    <3>2. CASE ~ (n = row /\ e[j] = m)
      BY <1>1, <2>1, <2>3, <2>4, <3>2 DEF OnEntitledSheet, Ent
    <3> QED BY <3>1, <3>2
  <2>6. Stored' /\ Grows
    BY <1>3, <2>1, <2>3, <2>4, <2>5
    DEF world, IInv, Stored, UsersOK, LedgerOK, Waiting, SheetOK, RestOK, Grows
  <2> QED BY <1>1, <2>1, <2>2, <2>6, FiledGood, KeepGood, WorkerStep DEF Filed, IInv
<1>5. CASE CreateRow(w)
  <2> DEFINE blank == [scout |-> c.scout, profile |-> None, reel |-> None, fresh |-> TRUE]
             e == [blank EXCEPT ![k] = m]
             last == Len(sheet) + 1
  <2>1. sheet' = Append(sheet, e) /\ Filed(w, last) /\ last \in Nat
    BY <1>1, <1>5 DEF CreateRow
  <2>2. /\ e \in Entry /\ e.scout = c.scout
        /\ \A j \in Kind : e[j] \in {m, None}
    <3>1. /\ blank \in Entry /\ blank.scout = c.scout
          /\ blank.profile = None /\ blank.reel = None
      BY <1>2 DEF Entry
    <3> HIDE DEF blank
    <3>2. k = "profile" \/ k = "reel"
      BY <1>2 DEF Kind
    <3>3. CASE k = "profile"
      BY <1>2, <3>1, <3>3 DEF Entry, Kind
    <3>4. CASE k = "reel"
      BY <1>2, <3>1, <3>4 DEF Entry, Kind
    <3> QED BY <3>2, <3>3, <3>4
  <2> HIDE DEF e
  <2>3. /\ sheet' \in Seq(Entry) /\ DOMAIN sheet' = DOMAIN sheet \cup {last}
        /\ sheet'[last] = e /\ \A n \in DOMAIN sheet : n # last /\ sheet'[n] = sheet[n]
    BY <1>1, <2>1, <2>2
  <2>4. OnEntitledSheet'
    <3> SUFFICES ASSUME NEW n \in DOMAIN sheet \cup {last}, NEW j \in Kind, sheet'[n][j] # None
                 PROVE  Ent(entitled, sheet'[n].scout, SenderOf[sheet'[n][j]])
      BY <1>3, <2>3 DEF OnEntitledSheet, Ent, world
    <3>1. CASE n = last
      BY <1>2, <2>2, <2>3, <3>1
    <3>2. CASE n \in DOMAIN sheet
      BY <1>1, <2>3, <3>2 DEF OnEntitledSheet, Ent
    <3> QED BY <3>1, <3>2
  <2>5. Stored' /\ Grows
    BY <1>3, <2>3, <2>4
    DEF world, IInv, Stored, UsersOK, LedgerOK, Waiting, SheetOK, RestOK, Grows
  <2> HIDE DEF last
  <2> QED BY <1>1, <2>1, <2>5, FiledGood, KeepGood, WorkerStep DEF Filed, IInv
<1> QED BY <1>4, <1>5

\* The message is recorded.
LEMMA RecordStep ==
    ASSUME IInv, NEW w \in Worker, Record(w)
    PROVE  IInv'
<1> DEFINE t == task[w]
           e == LedgerEntry(t)
<1>1. t \in Task /\ Good(t, entitled, sheet, ledger, serial) /\ t.pc \in Recording
  BY Own DEF Record
<1>2. /\ t.cur \in Cur /\ t.cur.message \in Message
      /\ t.pc = "unmatched" => t.cur.username \in {None, UsernameOf[SenderOf[t.cur.message]]}
  BY <1>1 DEF Task, Good, Shape, Ingesting
<1>3. /\ ~Known(t.cur.message) /\ ledger' = ledger \cup {e} /\ serial' = serial + 1
      /\ Resume(w, t) /\ UNCHANGED <<users, sheet, world>>
  BY DEF Record
<1>4. ledger \subseteq LedgerRow /\ serial \in Nat /\ \A r \in ledger : r.id <= serial
  BY DEF IInv, Stored, LedgerOK
<1>5. /\ e \in LedgerRow /\ e.id = serial + 1 /\ e.message = t.cur.message
      /\ e.status = "UNMATCHED_SENDER" =>
            e.username \in {None, UsernameOf[SenderOf[e.message]]}
  <2>1. Outcome(t.pc) \in Status /\ (Outcome(t.pc) = "UNMATCHED_SENDER" => t.pc = "unmatched")
    BY <1>1 DEF Recording, Outcome, Status
  <2>2. (IF t.pc = "applied" THEN t.cur.row ELSE 0) \in Nat /\ serial + 1 \in Nat
    BY <1>2, <1>4 DEF Cur
  <2> QED BY <1>2, <2>1, <2>2 DEF LedgerEntry, LedgerRow, Cur
<1> HIDE DEF e
<1>6. \A r \in ledger : r.message # e.message /\ r.id # e.id /\ r.id <= serial + 1
  BY <1>3, <1>4, <1>5 DEF Known, LedgerRow
<1>7. LedgerOK'
  <2>1. \A q, r \in ledger' : q.message = r.message \/ q.id = r.id => q = r
    BY <1>3, <1>6 DEF IInv, Stored, LedgerOK
  <2>2. ledger' \subseteq LedgerRow /\ serial' \in Nat /\ \A r \in ledger' : r.id <= serial'
    BY <1>3, <1>4, <1>5, <1>6
  <2>3. \A r \in Waiting' : r.username \in {None, UsernameOf[SenderOf[r.message]]}
    BY <1>3, <1>5 DEF IInv, Stored, LedgerOK, Waiting
  <2> QED BY <2>1, <2>2, <2>3 DEF LedgerOK
<1>8. Stored' /\ Grows
  BY <1>3, <1>4, <1>5, <1>7
  DEF world, IInv, Stored, UsersOK, SheetOK, OnEntitledSheet, RestOK, Grows
<1>9. Carry(t, entitled', ledger', serial') /\ t.pc # "idle"
  BY <1>1, <1>8, KeepGood DEF IInv, Good, Recording
<1> QED BY <1>1, <1>3, <1>8, <1>9, ResumeStep

LEMMA RecordClashStep ==
    ASSUME IInv, NEW w \in Worker, RecordClash(w)
    PROVE  IInv'
<1> DEFINE t == task[w]
           u == [t EXCEPT !.pc = "failed"]
<1>1. t \in Task /\ Good(t, entitled, sheet, ledger, serial) /\ t.pc # "idle" /\ Still
  BY Own, WorldStill DEF RecordClash, Recording
<1>2. CASE t.pc = "applied"
  <2>1. u \in Task /\ Good(u, entitled, sheet, ledger, serial)
    BY <1>1, <1>2 DEF Task, Step, Good, Shape, Rights, Carry, Following, Placing, Unplaced,
                      Recording, Ingesting
  <2> HIDE DEF u
  <2>2. Become(w, u)
    BY <1>2 DEF RecordClash, At, Goto, u
  <2> QED BY <1>1, <2>1, <2>2, LocalStep
<1>3. CASE t.pc # "applied"
  BY <1>1, <1>3, ThrowStep DEF RecordClash, At
<1> QED BY <1>2, <1>3

LEMMA CallFailsStep ==
    ASSUME IInv, NEW w \in Worker, CallFails(w)
    PROVE  IInv'
<1> DEFINE t == task[w]
           u == [t EXCEPT !.pc = "failed"]
<1>1. t \in Task /\ Good(t, entitled, sheet, ledger, serial) /\ t.pc # "idle" /\ Still
  <2>1. Still
    BY FaultStill DEF CallFails, Still, IInv, Stored, RestOK
  <2> QED BY <2>1, Own DEF CallFails
<1>2. CASE t.pc \in {"half", "fill", "number", "create", "applied"}
  <2>1. u \in Task /\ Good(u, entitled, sheet, ledger, serial)
    BY <1>1, <1>2 DEF Task, Step, Good, Shape, Rights, Carry, Following, Placing, Unplaced,
                      Recording, Ingesting
  <2> HIDE DEF u
  <2>2. Become(w, u)
    BY <1>2 DEF CallFails, Goto, u
  <2> QED BY <1>1, <2>1, <2>2, LocalStep
<1>3. CASE t.pc = "cache"
  <2>1. Place(w, t.cur.scout, t.cur.username)
    BY <1>3 DEF CallFails, At
  <2>2. /\ t.cur.scout \in Scout /\ Ent(entitled, t.cur.scout, SenderOf[t.cur.message])
        /\ t.cur.username \in Handle \cup {None}
    BY <1>1, <1>3 DEF Good, Shape, Rights, Placing, Task, Cur
  <2> QED BY <1>1, <1>3, <2>1, <2>2, PlaceGood, LocalStep DEF Place
<1>4. CASE Become(w, Idle)
  BY <1>1, <1>4, IdleGood, LocalStep
<1>5. CASE Throw(w)
  BY <1>1, <1>5, ThrowStep
<1> QED BY <1>2, <1>3, <1>4, <1>5 DEF CallFails, At

-----------------------------------------------------------------------------
(* The theorems.                                                           *)

LEMMA HandlerStep ==
    ASSUME IInv, NEW w \in Worker, Continue(w)
    PROVE  IInv'
<1>1. CASE Ingest(w)
  BY <1>1, ResolveStep, CacheStep, RowStep, FileStep, RecordStep, RecordClashStep DEF Ingest
<1>2. CASE ~Ingest(w)
  BY <1>2, PendingStep, DropStep, DropMissingStep, PutHandleStep, ClaimStep, FindWaitingStep,
     ReleaseStep, LinkStep, CallFailsStep DEF Continue
<1> QED BY <1>1, <1>2

LEMMA NextGood == IInv /\ [Next]_vars => IInv'
<1> SUFFICES ASSUME IInv, [Next]_vars PROVE IInv'
  OBVIOUS
<1>1. ASSUME NEW w \in Worker,
             \/ Deliver(w) \/ Tick(w) \/ RefileAtBoot(w) \/ ManualSync(w) \/ Assign(w)
             \/ \E mode \in {"own", "admin"} : StartSetHandle(w, mode)
             \/ Continue(w)
      PROVE  IInv'
  BY <1>1, DeliverStep, TickStep, RefileStep, AssignStep, StartStep, HandlerStep
<1> QED BY <1>1, SendStep, ForgetStep, AgeStep, RestartStep, StutterStep DEF Next

LEMMA AlwaysGood == SafeSpec => []IInv
<1> QED BY InitGood, NextGood, PTL DEF SafeSpec

\* The tables and the handlers in flight stay well typed, handles and cached ids
\* have one scout, a message one ledger row, and the guard is held while a poll
\* runs and by it alone.  (instagram-inbox.scheduler.ts tick, schema.prisma)
THEOREM TypeCorrect == SafeSpec => []TypeOK
<1> QED BY AlwaysGood, InvTyped, PTL

\* Whatever handlers overlap, fail or are lost, a share is only ever on the sheet
\* of a scout who had the sender's handle or was assigned the sender.
\* (instagram-dm.service.ts resolveScout, claimForScout, relinkAndReprocess)
THEOREM SharesEntitled == SafeSpec => []OnEntitledSheet
<1>1. IInv => OnEntitledSheet
  BY DEF IInv, Stored, SheetOK
<1> QED BY <1>1, AlwaysGood, PTL

\* Only the deletion of the row to be re-filed takes anything from the ledger, and
\* it takes a row that is not filed.
LEMMA FiledRowsStay ==
    ASSUME IInv, [Next]_vars, task' # task, NEW r \in ledger, r.status = "APPLIED"
    PROVE  r \in ledger'
<1>1. CASE \E w \in Worker : Drop(w)
  <2>1. PICK w \in Worker, q \in ledger : /\ At(w, "drop") /\ q.id = task[w].cur.id
                                          /\ ledger' = ledger \ {q}
    BY <1>1 DEF Drop
  <2>2. Unfiled(task[w].cur.id, ledger, serial)
    BY <2>1, Own DEF At, Good
  <2> QED BY <2>1, <2>2 DEF Unfiled
<1>2. CASE \E w \in Worker : Record(w)
  BY <1>2 DEF Record
<1>3. CASE ledger' = ledger
  BY <1>3
<1>4. ASSUME NEW w \in Worker, Continue(w)
      PROVE  Drop(w) \/ Record(w) \/ ledger' = ledger
  <2>1. CASE Ingest(w)
    BY <2>1 DEF Ingest, SkipSeen, NotSeen, FindCached, NotCached, MatchHandle, LookupFails,
                CacheId, FindHalf, FillHalf, ReadRowNumber, CreateRow, RowClash, RecordClash,
                tables
  <2>2. CASE ~Ingest(w)
    BY <1>4, <2>2
    DEF Continue, FetchInbox, DropMissing, PutHandle, HandleTaken, ReadHandle, FindWaiting,
        Release, Link, LinkRefused, ReadPending, CallFails, tables
  <2> QED BY <2>1, <2>2
<1>5. ASSUME NEW w \in Worker,
             \/ Deliver(w) \/ Tick(w) \/ RefileAtBoot(w) \/ ManualSync(w) \/ Assign(w)
             \/ \E mode \in {"own", "admin"} : StartSetHandle(w, mode)
      PROVE  ledger' = ledger
  BY <1>5 DEF Deliver, Tick, RefileAtBoot, ManualSync, Refile, Assign, StartSetHandle, tables
<1>6. (\E w \in Worker : Drop(w) \/ Record(w)) \/ ledger' = ledger
  <2>1. CASE Restart
    BY <2>1 DEF Restart, tables
  <2> QED BY <1>4, <1>5, <2>1 DEF Next, Send, Forget, Age, vars
<1> QED BY <1>1, <1>2, <1>3, <1>6

\* No handler takes or changes a ledger row that says a message was filed, however
\* long ago it read what it is to re-file.
\* (instagram-dm.service.ts refileDroppedShares, relinkAndReprocess)
THEOREM FiledStays == SafeSpec => AppliedKept
<1>1. IInv /\ [Next]_vars => [task' # task =>
          \A r \in ledger : r.status = "APPLIED" => r \in ledger']_vars
  BY FiledRowsStay
<1> QED BY <1>1, AlwaysGood, PTL DEF SafeSpec, AppliedKept

-----------------------------------------------------------------------------
(* One handler at a time: a profile and a reel meet.                       *)

OneHandler == \A v, w \in Worker : v = w

\* Between the look for a row and the write to one, nothing fills the row that was
\* found, and no row appears where none was found.
Waits(t) ==
    LET kind == NextKind(t.cur.kinds) IN
    /\ t.pc = "fill" => /\ sheet[t.cur.row][kind] = None
                        /\ \E j \in Kind : sheet[t.cur.row][j] # None
    /\ t.pc \in {"number", "create"} => Halves(t.cur.scout, kind) = {}

Met == \A s \in Scout : Halves(s, "profile") = {} \/ Halves(s, "reel") = {}
PInv == Met /\ \A w \in Worker : Waits(task[w])

\* A handler that does not file.
Calm == {"idle", "fetch", "seen", "drop"} \cup Following

CalmAction(w) ==
    \/ Deliver(w) \/ Tick(w) \/ RefileAtBoot(w) \/ ManualSync(w) \/ Assign(w)
    \/ \E mode \in {"own", "admin"} : StartSetHandle(w, mode)
    \/ FetchInbox(w) \/ DropMissing(w) \/ PutHandle(w) \/ HandleTaken(w) \/ ReadHandle(w)
    \/ FindWaiting(w) \/ Release(w) \/ Link(w) \/ LinkRefused(w) \/ ReadPending(w)
    \/ SkipSeen(w)

\* Where a loop goes when a message is done.
LEMMA AfterCalm ==
    ASSUME NEW t, "pc" \in DOMAIN t, NEW u \in After(t)
    PROVE  u.pc \in Calm
<1>1. CASE t.todo # {}
  <2>1. PICK it \in Oldest(t.todo) :
            u = [t EXCEPT !.pc = IF it.id = 0 THEN "seen" ELSE "drop",
                          !.todo = @ \ {it},
                          !.cur = [NoItem EXCEPT !.id = it.id, !.message = it.message]]
    BY <1>1 DEF After
  <2>2. u.pc \in {"seen", "drop"}
    BY <2>1
  <2> QED BY <2>2 DEF Calm
<1>2. CASE t.todo = {}
  <2>1. \/ u = [t EXCEPT !.pc = "fetch", !.cur = NoItem]
        \/ u = [t EXCEPT !.pc = "release", !.cur = NoItem]
        \/ u = Idle
    BY <1>2 DEF After
  <2>2. Idle.pc = "idle"
    BY DEF Idle
  <2>3. u.pc \in {"fetch", "release", "idle"}
    BY <2>1, <2>2
  <2> QED BY <2>3 DEF Calm, Following
<1> QED BY <1>1, <1>2

CalmTo(w) == \E u : task' = [task EXCEPT ![w] = u] /\ u.pc \in Calm

LEMMA ResumeCalm ==
    ASSUME NEW w \in Worker, NEW t, "pc" \in DOMAIN t, Resume(w, t)
    PROVE  CalmTo(w)
<1>1. PICK u \in After(t) : Become(w, u)
  BY DEF Resume
<1> QED BY <1>1, AfterCalm DEF Become, CalmTo

LEMMA BecomeCalm ==
    ASSUME NEW w \in Worker, NEW u, u.pc \in Calm, Become(w, u)
    PROVE  CalmTo(w)
  BY DEF Become, CalmTo

LEMMA IdleCalm ==
    ASSUME NEW w \in Worker, Become(w, Idle)
    PROVE  CalmTo(w)
<1>1. Idle.pc \in Calm
  BY DEF Idle, Calm
<1> QED BY <1>1 DEF Become, CalmTo

LEMMA StartCalm ==
    ASSUME IInv, NEW w \in Worker,
           \/ Deliver(w) \/ Tick(w) \/ RefileAtBoot(w) \/ ManualSync(w) \/ Assign(w)
           \/ \E mode \in {"own", "admin"} : StartSetHandle(w, mode)
    PROVE  CalmTo(w)
<1>0. \A mode, todo : "pc" \in DOMAIN [Idle EXCEPT !.mode = mode, !.todo = todo]
  BY DEF Idle
<1>1. CASE Deliver(w)
  <2>1. PICK batch \in SUBSET Inbox : Resume(w, [Idle EXCEPT !.mode = "hook", !.todo = batch])
    BY <1>1 DEF Deliver
  <2>2. PICK t : t = [Idle EXCEPT !.mode = "hook", !.todo = batch]
    OBVIOUS
  <2> QED BY <1>0, <2>1, <2>2, ResumeCalm
<1>2. CASE Tick(w)
  <2>1. PICK t : t = [Idle EXCEPT !.mode = "poll", !.todo = Inbox]
    OBVIOUS
  <2>2. PICK u \in After(t) : task' = [task EXCEPT ![w] = u]
    BY <1>2, <2>1 DEF Tick
  <2> QED BY <1>0, <2>1, <2>2, AfterCalm DEF CalmTo
<1>3. CASE RefileAtBoot(w) \/ ManualSync(w)
  <2>1. PICK mode : Refile(w, mode)
    BY <1>3 DEF RefileAtBoot, ManualSync
  <2>2. PICK todo : Resume(w, [Idle EXCEPT !.mode = mode, !.todo = todo])
    BY <2>1 DEF Refile
  <2>3. PICK t : t = [Idle EXCEPT !.mode = mode, !.todo = todo]
    OBVIOUS
  <2> QED BY <1>0, <2>2, <2>3, ResumeCalm
<1>4. CASE Assign(w)
  <2>1. PICK r \in ledger, s \in Scout :
            Become(w, [Idle EXCEPT !.mode = "assign", !.pc = "release", !.owner = s,
                                   !.handle = r.username, !.senders = {SenderOf[r.message]}])
    BY <1>4 DEF Assign
  <2>2. PICK u : u = [Idle EXCEPT !.mode = "assign", !.pc = "release", !.owner = s,
                                  !.handle = r.username, !.senders = {SenderOf[r.message]}]
    OBVIOUS
  <2>3. u.pc = "release"
    BY <2>2 DEF Idle
  <2> QED BY <2>1, <2>2, <2>3, BecomeCalm DEF Calm, Following
<1>5. ASSUME NEW mode \in {"own", "admin"}, StartSetHandle(w, mode)
      PROVE  CalmTo(w)
  <2>1. PICK s \in Scout, h \in Handle \cup {None} :
            Become(w, [Idle EXCEPT !.mode = mode, !.pc = "handle", !.owner = s,
                                   !.handle = h, !.had = users[s].handle])
    BY <1>5 DEF StartSetHandle
  <2>2. PICK u : u = [Idle EXCEPT !.mode = mode, !.pc = "handle", !.owner = s,
                                  !.handle = h, !.had = users[s].handle]
    OBVIOUS
  <2>3. u.pc = "handle"
    BY <2>2 DEF Idle
  <2> QED BY <2>1, <2>2, <2>3, BecomeCalm DEF Calm, Following
<1> QED BY <1>1, <1>2, <1>3, <1>4, <1>5

\* A task in the middle of a run that moves on, with the loop or without.
LEMMA ThrowCalm ==
    ASSUME IInv, NEW w \in Worker, Throw(w)
    PROVE  CalmTo(w)
<1>1. PICK t : t = task[w]
  OBVIOUS
<1>2. "pc" \in DOMAIN t
  BY <1>1, Own DEF Task
<1>3. Resume(w, t) \/ Become(w, Idle)
  BY <1>1 DEF Throw
<1> QED BY <1>2, <1>3, ResumeCalm, IdleCalm

LEMMA LinkCalm ==
    ASSUME IInv, NEW w \in Worker,
           \/ FetchInbox(w) \/ DropMissing(w) \/ PutHandle(w) \/ HandleTaken(w) \/ ReadHandle(w)
           \/ FindWaiting(w) \/ Release(w) \/ Link(w) \/ LinkRefused(w) \/ ReadPending(w)
           \/ SkipSeen(w)
    PROVE  CalmTo(w)
<1>1. PICK t : t = task[w]
  OBVIOUS
<1>2. t \in Task
  BY <1>1, Own
<1>3. CASE FetchInbox(w)
  <2>1. PICK u : u = [t EXCEPT !.mode = "inbox", !.todo = Inbox]
    OBVIOUS
  <2>2. "pc" \in DOMAIN u
    BY <1>2, <2>1 DEF Task
  <2> QED BY <1>1, <1>3, <2>1, <2>2, ResumeCalm DEF FetchInbox
<1>4. CASE FindWaiting(w)
  <2>1. PICK z : Resume(w, [t EXCEPT !.senders = z])
    BY <1>1, <1>4 DEF FindWaiting
  <2>2. PICK u : u = [t EXCEPT !.senders = z]
    OBVIOUS
  <2>3. "pc" \in DOMAIN u
    BY <1>2, <2>2 DEF Task
  <2> QED BY <2>1, <2>2, <2>3, ResumeCalm
<1>5. CASE ReadPending(w)
  <2>1. PICK z : Resume(w, [t EXCEPT !.todo = z, !.sender = None])
    BY <1>1, <1>5 DEF ReadPending
  <2>2. PICK u : u = [t EXCEPT !.todo = z, !.sender = None]
    OBVIOUS
  <2>3. "pc" \in DOMAIN u
    BY <1>2, <2>2 DEF Task
  <2> QED BY <2>1, <2>2, <2>3, ResumeCalm
<1>6. CASE SkipSeen(w)
  <2>1. "pc" \in DOMAIN t
    BY <1>2 DEF Task
  <2> QED BY <1>1, <1>6, <2>1, ResumeCalm DEF SkipSeen
<1>7. CASE DropMissing(w)
  BY <1>7, ThrowCalm DEF DropMissing
<1>8. CASE HandleTaken(w) \/ LinkRefused(w)
  BY <1>8, IdleCalm DEF HandleTaken, LinkRefused
<1>9. CASE PutHandle(w)
  <2>1. PICK u : u = [t EXCEPT !.pc = "claim", !.handle = None, !.had = None]
    OBVIOUS
  <2>2. u.pc = "claim"
    BY <1>2, <2>1 DEF Task
  <2>3. Become(w, u) \/ Become(w, Idle)
    BY <1>1, <1>9, <2>1 DEF PutHandle
  <2> QED BY <2>2, <2>3, IdleCalm, BecomeCalm DEF Calm, Following
<1>10. CASE ReadHandle(w)
  <2>1. PICK u : u = [t EXCEPT !.pc = "waiting", !.handle = users[t.owner].handle]
    OBVIOUS
  <2>2. u.pc = "waiting"
    BY <1>2, <2>1 DEF Task
  <2>3. Become(w, u) \/ Become(w, Idle)
    BY <1>1, <1>10, <2>1 DEF ReadHandle
  <2> QED BY <2>2, <2>3, IdleCalm, BecomeCalm DEF Calm, Following
<1>11. CASE Release(w)
  <2>1. PICK i : Become(w, [t EXCEPT !.pc = "link", !.sender = i, !.senders = @ \ {i},
                                     !.had = users[t.owner].handle])
    BY <1>1, <1>11 DEF Release
  <2>2. PICK u : u = [t EXCEPT !.pc = "link", !.sender = i, !.senders = @ \ {i},
                               !.had = users[t.owner].handle]
    OBVIOUS
  <2>3. u.pc = "link"
    BY <1>2, <2>2 DEF Task
  <2> QED BY <2>1, <2>2, <2>3, BecomeCalm DEF Calm, Following
<1>12. CASE Link(w)
  <2>1. PICK u : u = [t EXCEPT !.pc = "pending", !.had = None]
    OBVIOUS
  <2>2. u.pc = "pending"
    BY <1>2, <2>1 DEF Task
  <2>3. Become(w, u)
    BY <1>1, <1>12, <2>1 DEF Link
  <2> QED BY <2>2, <2>3, BecomeCalm DEF Calm, Following
<1> QED BY <1>3, <1>4, <1>5, <1>6, <1>7, <1>8, <1>9, <1>10, <1>11, <1>12

LEMMA CalmStep ==
    ASSUME IInv, NEW w \in Worker, CalmAction(w)
    PROVE  sheet' = sheet /\ ledger' = ledger /\ task[w].pc \in Calm /\ CalmTo(w)
<1>1. sheet' = sheet /\ ledger' = ledger
  BY DEF CalmAction, Deliver, Tick, RefileAtBoot, ManualSync, Refile, Assign, StartSetHandle,
         FetchInbox, DropMissing, PutHandle, HandleTaken, ReadHandle, FindWaiting, Release, Link,
         LinkRefused, ReadPending, SkipSeen, tables
<1>2. task[w].pc \in Calm
  BY DEF CalmAction, Deliver, Tick, RefileAtBoot, ManualSync, Refile, Assign, StartSetHandle,
         FetchInbox, DropMissing, PutHandle, HandleTaken, ReadHandle, FindWaiting, Release, Link,
         LinkRefused, ReadPending, SkipSeen, At, Calm, Following
<1> QED BY <1>1, <1>2, StartCalm, LinkCalm DEF CalmAction

\* A step of the one handler that leaves the sheet alone.
LEMMA WaitStep ==
    ASSUME OneHandler, IInv, PInv, sheet' = sheet, NEW w \in Worker, NEW u,
           task' = [task EXCEPT ![w] = u], Waits(u)
    PROVE  PInv'
<1>1. \A v \in Worker : task'[v] = u
  BY DEF IInv, Tasks, OneHandler
<1>2. Waits(u)' /\ Met'
  BY DEF PInv, Met, Waits, Halves
<1> QED BY <1>1, <1>2 DEF PInv

LEMMA PassStep ==
    ASSUME OneHandler, IInv, PInv, sheet' = sheet, NEW w \in Worker, NEW u,
           task' = [task EXCEPT ![w] = u], u.pc \notin {"fill", "number", "create"}
    PROVE  PInv'
  BY WaitStep DEF Waits

LEMMA CalmPass ==
    ASSUME OneHandler, IInv, PInv, sheet' = sheet, NEW w \in Worker, CalmTo(w)
    PROVE  PInv'
  BY PassStep DEF CalmTo, Calm, Following

LEMMA GotoPass ==
    ASSUME OneHandler, IInv, PInv, sheet' = sheet, NEW w \in Worker,
           NEW pc \in Step \ {"fill", "number", "create"}, Goto(w, pc)
    PROVE  PInv'
<1>1. PICK u : u = [task[w] EXCEPT !.pc = pc]
  OBVIOUS
<1>2. u.pc = pc
  BY <1>1, Own DEF Task
<1> QED BY <1>1, <1>2, PassStep DEF Goto, Become

LEMMA PlacePass ==
    ASSUME OneHandler, IInv, PInv, sheet' = sheet, NEW w \in Worker, NEW s, NEW n, Place(w, s, n)
    PROVE  PInv'
<1>1. PICK pc \in {"nolinks", "half"} : \E kinds :
          Become(w, [task[w] EXCEPT !.pc = pc, !.cur.scout = s, !.cur.username = n,
                                    !.cur.kinds = kinds])
  BY DEF Place
<1>2. PICK kinds :
          Become(w, [task[w] EXCEPT !.pc = pc, !.cur.scout = s, !.cur.username = n,
                                    !.cur.kinds = kinds])
  BY <1>1
<1>3. PICK u : u = [task[w] EXCEPT !.pc = pc, !.cur.scout = s, !.cur.username = n,
                                   !.cur.kinds = kinds]
  OBVIOUS
<1>4. u.pc = pc
  BY <1>3, Own DEF Task
<1> QED BY <1>2, <1>3, <1>4, PassStep DEF Become

\* Looking for the message and its scout, and the ledger.
LEMMA IngestPass ==
    ASSUME OneHandler, IInv, PInv, NEW w \in Worker,
           \/ NotSeen(w) \/ FindCached(w) \/ NotCached(w) \/ MatchHandle(w) \/ LookupFails(w)
           \/ CacheId(w) \/ Record(w) \/ RecordClash(w) \/ Drop(w) \/ CallFails(w)
    PROVE  PInv'
<1>0. sheet' = sheet
  BY DEF NotSeen, FindCached, NotCached, MatchHandle, LookupFails, CacheId, Record, RecordClash,
         Drop, CallFails, tables
<1>1. PICK t \in Task : t = task[w]
  BY Own
<1>2. CASE NotSeen(w) \/ NotCached(w) \/ LookupFails(w)
  BY <1>0, <1>2, GotoPass DEF NotSeen, NotCached, LookupFails, Step
<1>3. CASE FindCached(w) \/ CacheId(w)
  BY <1>0, <1>3, PlacePass DEF FindCached, CacheId
<1>4. CASE MatchHandle(w)
  <2>1. PICK pc \in {"cache", "unmatched"} : \E s, n :
            \/ Become(w, [t EXCEPT !.pc = pc, !.cur.scout = s, !.cur.username = n])
            \/ Become(w, [t EXCEPT !.pc = pc, !.cur.username = n])
    BY <1>1, <1>4 DEF MatchHandle
  <2>2. PICK s, n, u :
            /\ Become(w, u)
            /\ \/ u = [t EXCEPT !.pc = pc, !.cur.scout = s, !.cur.username = n]
               \/ u = [t EXCEPT !.pc = pc, !.cur.username = n]
    BY <2>1
  <2>3. u.pc = pc
    BY <2>2 DEF Task
  <2> QED BY <1>0, <2>2, <2>3, PassStep DEF Become
<1>5. CASE Record(w)
  <2>1. "pc" \in DOMAIN t /\ Resume(w, t)
    BY <1>1, <1>5 DEF Record, Task
  <2> QED BY <1>0, <2>1, ResumeCalm, CalmPass
<1>6. CASE RecordClash(w)
  BY <1>0, <1>6, GotoPass, ThrowCalm, CalmPass DEF RecordClash, Step
<1>7. CASE Drop(w)
  <2>1. PICK u : u = [t EXCEPT !.pc = "seen", !.cur.id = 0]
    OBVIOUS
  <2>2. u.pc = "seen"
    BY <2>1 DEF Task
  <2> QED BY <1>0, <1>1, <1>7, <2>1, <2>2, PassStep DEF Drop, Become
<1>8. CASE CallFails(w)
  <2>1. \/ Goto(w, "failed") \/ Become(w, Idle) \/ Throw(w)
        \/ Place(w, task[w].cur.scout, task[w].cur.username)
    BY <1>8 DEF CallFails
  <2> QED BY <1>0, <2>1, GotoPass, ThrowCalm, IdleCalm, CalmPass, PlacePass DEF Step
<1> QED BY <1>2, <1>3, <1>4, <1>5, <1>6, <1>7, <1>8

LEMMA RowPass ==
    ASSUME OneHandler, IInv, PInv, NEW w \in Worker,
           FindHalf(w) \/ ReadRowNumber(w) \/ RowClash(w)
    PROVE  PInv'
<1>0. sheet' = sheet
  BY DEF FindHalf, ReadRowNumber, RowClash, tables
<1>1. PICK t \in Task : t = task[w] /\ Waits(t)
  BY Own DEF PInv
<1>2. PICK c \in Cur : c = t.cur
  BY DEF Task
<1> DEFINE kind == NextKind(c.kinds)
<1>3. CASE FindHalf(w) /\ Halves(c.scout, kind) = {}
  <2>1. PICK u : u = [t EXCEPT !.pc = "number"]
    OBVIOUS
  <2>2. u.pc = "number" /\ u.cur = c
    BY <1>2, <2>1 DEF Task
  <2>3. Waits(u)
    BY <1>3, <2>2 DEF Waits
  <2> QED BY <1>0, <1>1, <1>2, <1>3, <2>1, <2>3, WaitStep DEF FindHalf, Goto, Become
<1>4. CASE FindHalf(w) /\ Halves(c.scout, kind) # {}
  <2>1. PICK n \in Halves(c.scout, kind) : Become(w, [t EXCEPT !.pc = "fill", !.cur.row = n])
    BY <1>1, <1>2, <1>4 DEF FindHalf, Newest
  <2>2. PICK u : u = [t EXCEPT !.pc = "fill", !.cur.row = n]
    OBVIOUS
  <2>3. u.pc = "fill" /\ u.cur.row = n /\ u.cur.kinds = c.kinds
    BY <1>2, <2>2 DEF Task, Cur
  <2>4. Waits(u)
    BY <2>1, <2>3 DEF Waits, Halves
  <2> QED BY <1>0, <2>1, <2>2, <2>4, WaitStep DEF Become
<1>5. CASE ReadRowNumber(w)
  <2>1. PICK u : u = [t EXCEPT !.pc = "create", !.cur.attempt = @ + 1,
                               !.cur.row = LastRowNumber(t.cur.scout)]
    OBVIOUS
  <2>2. u.pc = "create" /\ u.cur.scout = c.scout /\ u.cur.kinds = c.kinds
    BY <1>2, <2>1 DEF Task, Cur
  <2>3. Waits(u)
    BY <1>1, <1>2, <1>5, <2>2 DEF Waits, ReadRowNumber, At
  <2> QED BY <1>0, <1>1, <1>5, <2>1, <2>3, WaitStep DEF ReadRowNumber, Become
<1>6. CASE RowClash(w)
  <2>1. PICK pc \in {"failed", "number"} : Goto(w, pc) /\ t.pc = "create"
    BY <1>1, <1>6 DEF RowClash, At
  <2>2. PICK u : u = [t EXCEPT !.pc = pc]
    OBVIOUS
  <2>3. u.pc = pc /\ u.cur = c
    BY <1>2, <2>2 DEF Task
  <2>4. Waits(u)
    BY <1>1, <1>2, <2>1, <2>3 DEF Waits
  <2> QED BY <1>0, <1>1, <2>1, <2>2, <2>4, WaitStep DEF Goto, Become
<1> QED BY <1>3, <1>4, <1>5, <1>6

\* What filing does: share k of the handler's message is on a row of its scout, which
\* lacked it and had the other half, or is new because no such row was there.
Files(t, row) ==
    LET c == t.cur
        k == NextKind(c.kinds) IN
    /\ row \in Nat /\ DOMAIN sheet' = DOMAIN sheet \cup {row}
    /\ sheet'[row][k] = c.message /\ sheet'[row].scout = c.scout
    /\ row \in DOMAIN sheet =>
          /\ sheet[row][k] = None /\ sheet[row].scout = c.scout
          /\ \A j \in Kind : j # k => sheet'[row][j] = sheet[row][j] /\ sheet'[row][j] # None
    /\ row \notin DOMAIN sheet =>
          Halves(c.scout, k) = {} /\ \A j \in Kind : j # k => sheet'[row][j] = None
    /\ \A n \in DOMAIN sheet : n # row => sheet'[n] = sheet[n]

LEMMA SheetEffect ==
    ASSUME IInv, NEW w \in Worker, NEW t \in Task, t = task[w], Waits(t),
           FillHalf(w) \/ CreateRow(w)
    PROVE  \E row : Files(t, row) /\ Filed(w, row)
<1>1. PICK c \in Cur : c = t.cur
  BY DEF Task
<1>2. PICK k \in Kind : k = NextKind(c.kinds)
  BY KindGood
<1>3. /\ sheet \in Seq(Entry) /\ DOMAIN sheet \subseteq Nat
      /\ t.pc \in {"fill", "create"} /\ c.message \in Message /\ c.scout \in Scout
  BY <1>1, Own
  DEF FillHalf, CreateRow, At, IInv, Stored, SheetOK, Good, Shape, Placing, Ingesting
<1>4. k = "profile" \/ k = "reel"
  BY DEF Kind
<1>5. c.message # None
  BY <1>3, NoneAssumption
<1>6. CASE FillHalf(w)
  <2>1. PICK row : row = c.row
    OBVIOUS
  <2>2. t.pc = "fill" /\ sheet' = [sheet EXCEPT ![row][k] = c.message] /\ Filed(w, row)
    BY <1>1, <1>2, <1>6, <2>1 DEF FillHalf, At
  <2>3. /\ row \in DOMAIN sheet /\ sheet[row] \in Entry /\ sheet[row].scout = c.scout
        /\ sheet[row][k] = None /\ \E j \in Kind : sheet[row][j] # None
    BY <1>1, <1>2, <1>3, <2>1, <2>2, Own DEF Waits, Good, Rights
  <2>4. PICK e : e = [sheet[row] EXCEPT ![k] = c.message]
    OBVIOUS
  <2>5. /\ e.scout = c.scout /\ e[k] = c.message
        /\ \A j \in Kind : j # k => e[j] = sheet[row][j]
    <3>1. CASE k = "profile"
      BY <2>3, <2>4, <3>1 DEF Entry, Kind
    <3>2. CASE k = "reel"
      BY <2>3, <2>4, <3>2 DEF Entry, Kind
    <3> QED BY <1>4, <3>1, <3>2
  <2>6. /\ DOMAIN sheet' = DOMAIN sheet /\ sheet'[row] = e
        /\ \A n \in DOMAIN sheet : n # row => sheet'[n] = sheet[n]
    BY <1>3, <2>2, <2>3, <2>4
  <2>7. \A j \in Kind : j # k => sheet[row][j] # None
    BY <1>4, <2>3 DEF Kind
  <2>8. DOMAIN sheet' = DOMAIN sheet \cup {row} /\ row \in Nat
    BY <1>3, <2>3, <2>6
  <2>9. Files(t, row)
    BY <1>1, <1>2, <2>3, <2>5, <2>6, <2>7, <2>8 DEF Files
  <2> QED BY <2>2, <2>9
<1>7. CASE CreateRow(w)
  <2>1. PICK row : row = Len(sheet) + 1
    OBVIOUS
  <2>2. PICK blank : blank = [scout |-> c.scout, profile |-> None, reel |-> None, fresh |-> TRUE]
    OBVIOUS
  <2>3. PICK e : e = [blank EXCEPT ![k] = c.message]
    OBVIOUS
  <2>4. t.pc = "create" /\ sheet' = Append(sheet, e) /\ Filed(w, row)
    BY <1>1, <1>2, <1>7, <2>1, <2>2, <2>3 DEF CreateRow, At
  <2>5. /\ blank.scout = c.scout /\ blank.profile = None /\ blank.reel = None
        /\ blank \in Entry
    BY <1>3, <2>2 DEF Entry
  <2>6. /\ e.scout = c.scout /\ e[k] = c.message /\ e \in Entry
        /\ \A j \in Kind : j # k => e[j] = None
    <3>1. CASE k = "profile"
      BY <1>3, <2>3, <2>5, <3>1 DEF Entry, Kind
    <3>2. CASE k = "reel"
      BY <1>3, <2>3, <2>5, <3>2 DEF Entry, Kind
    <3> QED BY <1>4, <3>1, <3>2
  <2>7. /\ DOMAIN sheet' = DOMAIN sheet \cup {row} /\ sheet'[row] = e /\ row \in Nat
        /\ row \notin DOMAIN sheet /\ \A n \in DOMAIN sheet : sheet'[n] = sheet[n]
    BY <1>3, <2>1, <2>4, <2>6
  <2>8. Halves(c.scout, k) = {}
    BY <1>1, <1>2, <2>4 DEF Waits
  <2>9. Files(t, row)
    BY <1>1, <1>2, <2>6, <2>7, <2>8 DEF Files
  <2> QED BY <2>4, <2>9
<1> QED BY <1>6, <1>7

LEMMA FiledNext ==
    ASSUME NEW w \in Worker, NEW t \in Task, t = task[w], NEW n, Filed(w, n),
           NEW rest, rest = t.cur.kinds \ {NextKind(t.cur.kinds)}
    PROVE  \E u :
              /\ task' = [task EXCEPT ![w] = u]
              /\ u.pc \in {"applied", "half"} /\ (u.pc = "applied" <=> rest = {})
              /\ u.cur.kinds = rest /\ u.cur.row = n
              /\ u.cur.message = t.cur.message /\ u.cur.scout = t.cur.scout
<1>1. PICK pc : pc = IF rest = {} THEN "applied" ELSE "half"
  OBVIOUS
<1>2. PICK u : u = [t EXCEPT !.pc = pc, !.cur.kinds = rest, !.cur.row = n, !.cur.attempt = 0]
  OBVIOUS
<1>3. task' = [task EXCEPT ![w] = u]
  BY <1>1, <1>2 DEF Filed, Become
<1>4. t.cur \in Cur
  BY DEF Task
<1>5. /\ u.pc = pc /\ u.cur.kinds = rest /\ u.cur.row = n
      /\ u.cur.message = t.cur.message /\ u.cur.scout = t.cur.scout
  BY <1>2, <1>4 DEF Task, Cur
<1>6. pc \in {"applied", "half"} /\ (pc = "applied" <=> rest = {})
  BY <1>1
<1> QED BY <1>3, <1>5, <1>6

LEMMA FilePass ==
    ASSUME OneHandler, IInv, PInv, NEW w \in Worker, FillHalf(w) \/ CreateRow(w)
    PROVE  PInv'
<1>1. PICK t \in Task : t = task[w] /\ Waits(t)
  BY Own DEF PInv
<1>2. PICK row : Files(t, row) /\ Filed(w, row)
  BY <1>1, SheetEffect
<1>3. PICK u : task' = [task EXCEPT ![w] = u] /\ u.pc \in {"applied", "half"}
  <2>1. PICK rest : rest = t.cur.kinds \ {NextKind(t.cur.kinds)}
    OBVIOUS
  <2> QED BY <1>1, <1>2, <2>1, FiledNext
<1>4. \A v \in Worker : Waits(task[v])'
  <2>1. \A v \in Worker : task'[v] = u
    BY <1>3 DEF IInv, Tasks, OneHandler
  <2> QED BY <1>3, <2>1 DEF Waits
<1>5. PICK k \in Kind : k = NextKind(t.cur.kinds)
  BY KindGood
<1>6. PICK o \in Kind : o # k /\ {o, k} = {"profile", "reel"}
  BY <1>5 DEF Kind
<1>7. /\ sheet'[row][k] # None
      /\ row \in DOMAIN sheet => sheet'[row][o] # None
      /\ row \notin DOMAIN sheet => Halves(t.cur.scout, k) = {}
      /\ sheet'[row].scout = t.cur.scout
      /\ DOMAIN sheet' = DOMAIN sheet \cup {row}
      /\ \A n \in DOMAIN sheet : n # row => sheet'[n] = sheet[n]
  <2>1. t.cur.message # None
    BY <1>1, Own, NoneAssumption
    DEF FillHalf, CreateRow, At, Good, Shape, Placing, Ingesting
  <2> QED BY <1>2, <1>5, <1>6, <2>1 DEF Files
<1>8. ASSUME NEW s \in Scout
      PROVE  (Halves(s, "profile") = {})' \/ (Halves(s, "reel") = {})'
  <2>1. \A j \in Kind : \A n \in Halves(s, j)' : n # row => n \in Halves(s, j)
    BY <1>7 DEF Halves
  <2>2. \A n \in Halves(s, k)' : n \in Halves(s, k)
    BY <1>7, <2>1 DEF Halves
  <2>3. CASE row \in Halves(s, o)'
    <3>1. row \notin DOMAIN sheet /\ s = t.cur.scout
      BY <1>7, <2>3 DEF Halves
    <3>2. (Halves(s, k) = {})'
      BY <1>7, <2>2, <3>1
    <3> QED BY <1>6, <3>2
  <2>4. CASE row \notin Halves(s, o)'
    <3>1. \A n \in Halves(s, o)' : n \in Halves(s, o)
      BY <1>6, <2>1, <2>4
    <3>2. Halves(s, o) = {} \/ Halves(s, k) = {}
      BY <1>6 DEF PInv, Met
    <3>3. (Halves(s, o) = {})' \/ (Halves(s, k) = {})'
      BY <2>2, <3>1, <3>2
    <3> QED BY <1>6, <3>3
  <2> QED BY <2>3, <2>4
<1> QED BY <1>4, <1>8 DEF PInv, Met

\* Rows that grow old only wait less.
LEMMA AgeEffect ==
    ASSUME IInv, NEW n \in DOMAIN sheet, Age(n)
    PROVE  /\ DOMAIN sheet' = DOMAIN sheet
           /\ \A i \in DOMAIN sheet :
                 /\ sheet'[i].scout = sheet[i].scout /\ (sheet'[i].fresh => sheet[i].fresh)
                 /\ \A k \in Kind : sheet'[i][k] = sheet[i][k]
<1>1. sheet \in Seq(Entry)
  BY DEF IInv, Stored, SheetOK
<1>2. sheet' = [k \in DOMAIN sheet |-> IF k <= n THEN [sheet[k] EXCEPT !.fresh = FALSE]
                                                 ELSE sheet[k]]
  BY DEF Age
<1>3. ASSUME NEW i \in DOMAIN sheet
      PROVE  /\ sheet'[i].scout = sheet[i].scout /\ (sheet'[i].fresh => sheet[i].fresh)
             /\ sheet'[i].profile = sheet[i].profile /\ sheet'[i].reel = sheet[i].reel
  <2>1. sheet[i] \in Entry
    BY <1>1
  <2>2. sheet'[i] = [sheet[i] EXCEPT !.fresh = FALSE] \/ sheet'[i] = sheet[i]
    BY <1>2
  <2> QED BY <2>1, <2>2 DEF Entry
<1>4. \A i \in DOMAIN sheet, k \in Kind : sheet'[i][k] = sheet[i][k]
  BY <1>3 DEF Kind
<1> QED BY <1>2, <1>3, <1>4

LEMMA AgePass ==
    ASSUME IInv, PInv, NEW n \in DOMAIN sheet, Age(n)
    PROVE  PInv'
<1>1. task' = task
  BY DEF Age
<1>2. \A s, k : k \in Kind => Halves(s, k)' \subseteq Halves(s, k)
  BY AgeEffect DEF Halves
<1>3. Met'
  <2>1. {"profile", "reel"} \subseteq Kind
    BY DEF Kind
  <2> QED BY <1>2, <2>1 DEF PInv, Met
<1>4. ASSUME NEW w \in Worker PROVE Waits(task[w])'
  <2>1. PICK t \in Task : t = task[w] /\ Waits(t) /\ Good(t, entitled, sheet, ledger, serial)
    BY Own DEF PInv
  <2>2. t.pc = "fill" => t.cur.row \in DOMAIN sheet
    BY <2>1 DEF Good, Rights
  <2>3. \A kinds : NextKind(kinds) \in Kind
    BY KindGood
  <2>4. Waits(t)'
    BY <1>2, <2>1, <2>2, <2>3, AgeEffect DEF Waits
  <2> QED BY <1>1, <2>1, <2>4
<1> QED BY <1>1, <1>3, <1>4 DEF PInv

LEMMA InitMet == Init => PInv
  BY DEF Init, PInv, Met, Halves, Waits, Idle

LEMMA NextMet == OneHandler /\ IInv /\ PInv /\ [Next]_vars => PInv'
<1> SUFFICES ASSUME OneHandler, IInv, PInv, [Next]_vars PROVE PInv'
  OBVIOUS
<1>1. ASSUME NEW w \in Worker, CalmAction(w) PROVE PInv'
  BY <1>1, CalmStep, CalmPass
<1>2. ASSUME NEW w \in Worker, Continue(w) PROVE PInv'
  BY <1>1, <1>2, IngestPass, RowPass, FilePass DEF Continue, Ingest, CalmAction
<1>3. ASSUME NEW w \in Worker,
             \/ Deliver(w) \/ Tick(w) \/ RefileAtBoot(w) \/ ManualSync(w) \/ Assign(w)
             \/ \E mode \in {"own", "admin"} : StartSetHandle(w, mode)
      PROVE  PInv'
  BY <1>1, <1>3 DEF CalmAction
<1>4. CASE UNCHANGED <<sheet, task>>
  BY <1>4 DEF PInv, Met, Waits, Halves
<1>5. CASE Restart
  <2>1. sheet' = sheet /\ \A w \in Worker : task'[w] = Idle
    BY <1>5 DEF Restart, tables
  <2>2. Waits(Idle)' /\ Met'
    BY <2>1 DEF Waits, Idle, PInv, Met, Halves
  <2> QED BY <2>1, <2>2 DEF PInv
<1>6. CASE \E n \in DOMAIN sheet : Age(n)
  BY <1>6, AgePass
<1>7. CASE UNCHANGED vars \/ (\E m \in Message : Send(m)) \/ (\E i \in Sender : Forget(i))
  <2>1. UNCHANGED <<sheet, task>>
    BY <1>7 DEF vars, Send, Forget, tables
  <2> QED BY <1>4, <2>1
<1> QED BY <1>2, <1>3, <1>5, <1>6, <1>7 DEF Next

\* With one handler at a time, whatever fails, is restarted or erased, a profile and a
\* reel within the window never wait side by side on the sheet of a scout.
\* (instagram-dm.service.ts applyProfile, applyReel)
THEOREM HalvesMeet == OneHandler => (SafeSpec => []HalvesPaired)
<1> SUFFICES ASSUME OneHandler PROVE SafeSpec => []HalvesPaired
  OBVIOUS
<1>1. OneHandler /\ IInv /\ PInv /\ [Next]_vars => PInv'
  BY NextMet
<1>2. PInv => HalvesPaired
  BY DEF PInv, Met, HalvesPaired
<1> QED BY <1>1, <1>2, InitMet, AlwaysGood, PTL DEF SafeSpec

-----------------------------------------------------------------------------
(* One handler at a time, without faults or erasures: a share is filed     *)
(* once, and the ledger tells where.                                       *)

OneAtATime == OneHandler /\ MaxFaults = 0 /\ Forgettable = {}

Filing == {"half", "fill", "number", "create"}

\* The shares a handler has filed of the message it is at.
Done(t) == IF t.pc \in Filing \cup {"applied"} THEN Shares[t.cur.message] \ t.cur.kinds ELSE {}

\* A share of message m is on the sheet of scout s; m is on row n.
OnSheetOf(m, k, s) == \E n \in Cells(m, k) : sheet[n].scout = s
InRow(m, n) == n \in DOMAIN sheet /\ m \in {sheet[n][j] : j \in Kind}

Applied(m, k) == \E r \in ledger : r.message = m /\ r.status = "APPLIED" /\ k \in Shares[m]
InWork(m, k) == \E w \in Worker : task[w].cur.message = m /\ k \in Done(task[w])

\* A share is in one cell at most, and only if its message was filed, or is being.
CellsGood ==
    \A m \in Message, k \in Kind :
        /\ \A n, o \in Cells(m, k) : n = o
        /\ Cells(m, k) # {} => Applied(m, k) \/ InWork(m, k)

RowsTrue ==
    \A r \in ledger : r.status = "APPLIED" /\ Shares[r.message] # {} =>
        /\ \A k \in Shares[r.message] : OnSheetOf(r.message, k, r.scout)
        /\ InRow(r.message, r.entry)

\* Between the look for the message and the ledger, nobody else records it, what was
\* filed of it is there, and no call of its filing fails.
Steady(t) ==
    LET m == t.cur.message IN
    /\ t.pc \in {"cached", "lookup", "cache"} \cup Filing \cup Recording => ~Known(m)
    /\ t.pc # "failed"
    /\ t.pc \in Filing => t.cur.kinds # {} /\ t.cur.kinds \subseteq Shares[m]
    /\ \A k \in Done(t) : OnSheetOf(m, k, t.cur.scout)
    /\ t.pc = "create" => LastRowNumber(t.cur.scout) = t.cur.row
    /\ t.pc = "applied" => t.cur.kinds = {} /\ InRow(m, t.cur.row)

FInv == CellsGood /\ RowsTrue /\ \A w \in Worker : Steady(task[w])

LEMMA NoFault == OneAtATime /\ IInv => ~Fault
  BY DEF OneAtATime, IInv, Stored, RestOK, Fault

\* A step of the one handler that changes neither the sheet nor the ledger.
LEMMA SteadyStep ==
    ASSUME OneAtATime, IInv, FInv, UNCHANGED <<sheet, ledger>>, NEW w \in Worker, NEW u,
           task' = [task EXCEPT ![w] = u], Steady(u),
           \A k \in Done(task[w]) : u.cur.message = task[w].cur.message /\ k \in Done(u)
    PROVE  FInv'
<1>1. \A v \in Worker : task'[v] = u /\ v = w
  BY DEF IInv, Tasks, OneAtATime, OneHandler
<1>2. Steady(u)' /\ RowsTrue'
  BY DEF Steady, FInv, RowsTrue, Done, OnSheetOf, InRow, Cells, Known, LastRowNumber
<1>3. \A m, k : Cells(m, k)' = Cells(m, k) /\ Applied(m, k)' = Applied(m, k)
  BY DEF Cells, Applied
<1>4. \A m, k : InWork(m, k) => InWork(m, k)'
  <2> SUFFICES ASSUME NEW m, NEW k, InWork(m, k) PROVE InWork(m, k)'
    OBVIOUS
  <2>1. task[w].cur.message = m /\ k \in Done(task[w])
    BY <1>1 DEF InWork
  <2>2. task'[w] = u /\ u.cur.message = m /\ k \in Done(u)
    BY <1>1, <2>1
  <2>3. Done(task[w])' = Done(u)
    BY <2>2 DEF Done
  <2> QED BY <2>2, <2>3 DEF InWork
<1>5. CellsGood'
  BY <1>3, <1>4 DEF FInv, CellsGood
<1> QED BY <1>1, <1>2, <1>5 DEF FInv

LEMMA CalmSteady ==
    ASSUME NEW t, t.pc \in Calm
    PROVE  Done(t) = {} /\ Steady(t)
<1>1. Done(t) = {}
  BY DEF Done, Calm, Following, Filing
<1> QED BY <1>1 DEF Steady, Calm, Following, Filing, Recording

LEMMA CalmFiled ==
    ASSUME OneAtATime, IInv, FInv, NEW w \in Worker, CalmAction(w)
    PROVE  FInv'
<1>1. UNCHANGED <<sheet, ledger>> /\ task[w].pc \in Calm /\ CalmTo(w)
  BY CalmStep
<1>2. PICK u : task' = [task EXCEPT ![w] = u] /\ u.pc \in Calm
  BY <1>1 DEF CalmTo
<1>3. Steady(u)
  BY <1>2, CalmSteady
<1>4. Done(task[w]) = {}
  BY <1>1 DEF Done, Calm, Following, Filing
<1> QED BY <1>1, <1>2, <1>3, <1>4, SteadyStep

LEMMA SoughtFiled ==
    ASSUME OneAtATime, IInv, FInv, NEW w \in Worker,
           NotSeen(w) \/ NotCached(w) \/ MatchHandle(w) \/ FindCached(w) \/ CacheId(w)
    PROVE  FInv'
<1>0. UNCHANGED <<sheet, ledger>>
  BY DEF NotSeen, NotCached, MatchHandle, FindCached, CacheId, tables
<1>1. PICK t \in Task : t = task[w] /\ Steady(t)
  BY Own DEF FInv
<1>2. PICK c \in Cur : c = t.cur
  BY DEF Task
<1>3. t.pc \in {"seen", "cached", "lookup", "cache"} /\ ~Known(c.message)
  BY <1>1, <1>2 DEF NotSeen, NotCached, MatchHandle, FindCached, CacheId, At, Steady
<1>4. Done(task[w]) = {}
  BY <1>1, <1>3 DEF Done, Filing
<1>5. CASE NotSeen(w) \/ NotCached(w)
  <2>1. PICK pc \in {"cached", "lookup"} : Goto(w, pc)
    BY <1>5 DEF NotSeen, NotCached
  <2>2. PICK u : u = [t EXCEPT !.pc = pc]
    OBVIOUS
  <2>3. u.pc \in {"cached", "lookup"} /\ u.cur = c
    BY <1>2, <2>2 DEF Task
  <2>4. Steady(u)
    BY <1>3, <2>3 DEF Steady, Done, Filing, Recording
  <2> QED BY <1>0, <1>1, <1>4, <2>1, <2>2, <2>4, SteadyStep DEF Goto, Become
<1>6. CASE MatchHandle(w)
  <2>0. PICK pc \in {"cache", "unmatched"} : \E s, n, u :
            /\ Become(w, u)
            /\ \/ u = [t EXCEPT !.pc = pc, !.cur.scout = s, !.cur.username = n]
               \/ u = [t EXCEPT !.pc = pc, !.cur.username = n]
    BY <1>1, <1>6 DEF MatchHandle
  <2>1. PICK s, n, u :
            /\ Become(w, u)
            /\ \/ u = [t EXCEPT !.pc = pc, !.cur.scout = s, !.cur.username = n]
               \/ u = [t EXCEPT !.pc = pc, !.cur.username = n]
    BY <2>0
  <2>2. u.pc \in {"cache", "unmatched"} /\ u.cur.message = c.message
    <3>1. CASE u = [t EXCEPT !.pc = pc, !.cur.scout = s, !.cur.username = n]
      BY <1>2, <3>1 DEF Task, Cur
    <3>2. CASE u = [t EXCEPT !.pc = pc, !.cur.username = n]
      BY <1>2, <3>2 DEF Task, Cur
    <3> QED BY <2>1, <3>1, <3>2
  <2>3. Steady(u)
    BY <1>3, <2>2 DEF Steady, Done, Filing, Recording
  <2> QED BY <1>0, <1>4, <2>1, <2>3, SteadyStep DEF Become
<1>7. CASE FindCached(w) \/ CacheId(w)
  <2>1. PICK s, n : Place(w, s, n)
    BY <1>7 DEF FindCached, CacheId
  <2>2. PICK kinds : kinds = Shares[c.message]
    OBVIOUS
  <2>3. PICK pc : pc = IF kinds = {} THEN "nolinks" ELSE "half"
    OBVIOUS
  <2>4. PICK u : u = [t EXCEPT !.pc = pc, !.cur.scout = s, !.cur.username = n,
                               !.cur.kinds = kinds]
    OBVIOUS
  <2>5. Become(w, u)
    BY <1>1, <1>2, <2>1, <2>2, <2>3, <2>4 DEF Place
  <2>6. u.pc = pc /\ u.cur.message = c.message /\ u.cur.kinds = kinds
    BY <1>2, <2>4 DEF Task, Cur
  <2>7. Done(u) = {}
    BY <2>2, <2>6 DEF Done
  <2>8. pc \in {"nolinks", "half"} /\ (pc = "half" => kinds # {})
    BY <2>3
  <2>9. Steady(u)
    BY <1>3, <2>2, <2>6, <2>7, <2>8 DEF Steady, Filing, Recording
  <2> QED BY <1>0, <1>4, <2>5, <2>9, SteadyStep DEF Become
<1> QED BY <1>5, <1>6, <1>7

LEMMA RowFiled ==
    ASSUME OneAtATime, IInv, FInv, NEW w \in Worker,
           FindHalf(w) \/ ReadRowNumber(w) \/ RowClash(w)
    PROVE  FInv'
<1>0. UNCHANGED <<sheet, ledger>>
  BY DEF FindHalf, ReadRowNumber, RowClash, tables
<1>1. PICK t \in Task : t = task[w] /\ Steady(t)
  BY Own DEF FInv
<1>2. PICK c \in Cur : c = t.cur
  BY DEF Task
<1>3. ~RowClash(w)
  BY <1>1 DEF RowClash, At, Steady
<1>4. t.pc \in {"half", "number"}
  BY <1>1, <1>3 DEF FindHalf, ReadRowNumber, At
<1>5. \E u : /\ Become(w, u) /\ u.pc \in {"number", "fill", "create"}
             /\ u.cur.message = c.message /\ u.cur.kinds = c.kinds /\ u.cur.scout = c.scout
             /\ u.pc = "create" => u.cur.row = LastRowNumber(c.scout)
  <2>1. CASE FindHalf(w)
    <3>1. \/ Become(w, [t EXCEPT !.pc = "number"])
          \/ \E n : Become(w, [t EXCEPT !.pc = "fill", !.cur.row = n])
      BY <1>1, <2>1 DEF FindHalf, Goto
    <3>2. PICK u : /\ Become(w, u)
                   /\ \/ u = [t EXCEPT !.pc = "number"]
                      \/ \E n : u = [t EXCEPT !.pc = "fill", !.cur.row = n]
      BY <3>1
    <3>3. /\ u.pc \in {"number", "fill"} /\ u.cur.message = c.message
          /\ u.cur.kinds = c.kinds /\ u.cur.scout = c.scout
      <4>1. ASSUME NEW n, u = [t EXCEPT !.pc = "fill", !.cur.row = n]
            PROVE  /\ u.pc = "fill" /\ u.cur.message = c.message
                   /\ u.cur.kinds = c.kinds /\ u.cur.scout = c.scout
        BY <1>2, <4>1 DEF Task, Cur
      <4>2. u.cur = c => /\ u.cur.message = c.message
                         /\ u.cur.kinds = c.kinds /\ u.cur.scout = c.scout
        OBVIOUS
      <4>3. u = [t EXCEPT !.pc = "number"] => u.pc = "number" /\ u.cur = c
        BY <1>2 DEF Task
      <4> QED BY <3>2, <4>1, <4>2, <4>3
    <3> QED BY <3>2, <3>3
  <2>2. CASE ReadRowNumber(w)
    <3>1. PICK u : u = [t EXCEPT !.pc = "create", !.cur.attempt = @ + 1,
                                 !.cur.row = LastRowNumber(c.scout)]
      OBVIOUS
    <3>2. /\ u.pc = "create" /\ u.cur.message = c.message /\ u.cur.kinds = c.kinds
          /\ u.cur.scout = c.scout /\ u.cur.row = LastRowNumber(c.scout)
      BY <1>2, <3>1 DEF Task, Cur
    <3>3. Become(w, u)
      BY <1>1, <1>2, <2>2, <3>1 DEF ReadRowNumber
    <3> QED BY <3>2, <3>3
  <2> QED BY <1>3, <2>1, <2>2
<1>6. PICK u : /\ Become(w, u) /\ u.pc \in {"number", "fill", "create"}
               /\ u.cur.message = c.message /\ u.cur.kinds = c.kinds /\ u.cur.scout = c.scout
               /\ u.pc = "create" => u.cur.row = LastRowNumber(c.scout)
  BY <1>5
<1>7. Done(u) = Done(t)
  BY <1>2, <1>4, <1>6 DEF Done, Filing
<1>8. Steady(u)
  BY <1>1, <1>2, <1>4, <1>6, <1>7 DEF Steady, Filing, Recording
<1> QED BY <1>0, <1>1, <1>2, <1>6, <1>7, <1>8, SteadyStep DEF Become

\* What a share that is filed changes of where the shares are.
LEMMA FileCells ==
    ASSUME OneAtATime, IInv, PInv, FInv, NEW w \in Worker, NEW t \in Task, t = task[w],
           t.pc \in {"fill", "create"}, NEW row, Files(t, row),
           NEW k \in Kind, k = NextKind(t.cur.kinds)
    PROVE  /\ Cells(t.cur.message, k)' = {row}
           /\ \A m \in Message, j \in Kind :
                 m # t.cur.message \/ j # k => Cells(m, j)' = Cells(m, j)
           /\ \A n \in DOMAIN sheet : sheet'[n].scout = sheet[n].scout
<1>1. PICK c \in Cur : c = t.cur
  BY DEF Task
<1>2. /\ c.message \in Message /\ Steady(t) /\ k \in c.kinds /\ k \in Shares[c.message]
      /\ ~Known(c.message)
  <2>1. c.message \in Message /\ Steady(t)
    BY <1>1, Own DEF Good, Shape, Placing, Ingesting, FInv
  <2>2. c.kinds # {} /\ c.kinds \subseteq Shares[c.message] /\ ~Known(c.message)
    BY <1>1, <2>1 DEF Steady, Filing
  <2>3. c.kinds \subseteq Kind
    BY DEF Cur
  <2> QED BY <1>1, <2>1, <2>2, <2>3 DEF NextKind, Kind
<1>3. Cells(c.message, k) = {}
  <2>1. ~Applied(c.message, k)
    BY <1>2 DEF Applied, Known
  <2>2. ~InWork(c.message, k)
    <3> SUFFICES ASSUME NEW v \in Worker, task[v].cur.message = c.message, k \in Done(task[v])
                 PROVE  FALSE
      BY DEF InWork
    <3>1. task[v] = t
      BY DEF OneAtATime, OneHandler
    <3> QED BY <1>1, <1>2, <3>1 DEF Done
  <2> QED BY <1>2, <2>1, <2>2 DEF FInv, CellsGood
<1>4. /\ DOMAIN sheet' = DOMAIN sheet \cup {row}
      /\ sheet'[row][k] = c.message /\ sheet'[row].scout = c.scout
      /\ row \in DOMAIN sheet => /\ sheet[row][k] = None /\ sheet[row].scout = c.scout
                                 /\ \A j \in Kind : j # k => sheet'[row][j] = sheet[row][j]
      /\ row \notin DOMAIN sheet => \A j \in Kind : j # k => sheet'[row][j] = None
      /\ \A n \in DOMAIN sheet : n # row => sheet'[n] = sheet[n]
  BY <1>1 DEF Files
<1>5. Cells(c.message, k)' = {row}
  BY <1>3, <1>4 DEF Cells
<1>6. ASSUME NEW m \in Message, NEW j \in Kind, m # c.message \/ j # k
      PROVE  Cells(m, j)' = Cells(m, j)
  <2>1. m # None
    BY NoneAssumption
  <2>2. \A n \in DOMAIN sheet' : sheet'[n][j] = m <=> n \in DOMAIN sheet /\ sheet[n][j] = m
    <3>1. \A n \in DOMAIN sheet : n # row => sheet'[n][j] = sheet[n][j]
      BY <1>4
    <3>2. sheet'[row][j] = m <=> row \in DOMAIN sheet /\ sheet[row][j] = m
      BY <1>4, <1>6, <2>1
    <3> QED BY <1>4, <3>1, <3>2
  <2> QED BY <1>4, <2>2 DEF Cells
<1>7. \A n \in DOMAIN sheet : sheet'[n].scout = sheet[n].scout
  BY <1>4
<1> QED BY <1>1, <1>5, <1>6, <1>7

LEMMA FileFiled ==
    ASSUME OneAtATime, IInv, PInv, FInv, NEW w \in Worker, FillHalf(w) \/ CreateRow(w)
    PROVE  FInv'
<1>1. PICK t \in Task : t = task[w] /\ Waits(t) /\ Steady(t)
  BY Own DEF PInv, FInv
<1>2. PICK c \in Cur : c = t.cur
  BY DEF Task
<1>3. PICK k \in Kind : k = NextKind(c.kinds)
  BY KindGood
<1>4. PICK row : Files(t, row) /\ Filed(w, row)
  BY <1>1, SheetEffect
<1>5. PICK rest : rest = c.kinds \ {k}
  OBVIOUS
<1>6. PICK u : /\ task' = [task EXCEPT ![w] = u]
               /\ u.pc \in {"applied", "half"} /\ (u.pc = "applied" <=> rest = {})
               /\ u.cur.kinds = rest /\ u.cur.row = row
               /\ u.cur.message = c.message /\ u.cur.scout = c.scout
  <2>1. rest = t.cur.kinds \ {NextKind(t.cur.kinds)}
    BY <1>2, <1>3, <1>5
  <2> QED BY <1>1, <1>2, <1>4, <2>1, FiledNext
<1>7. u.cur.message = c.message /\ u.cur.scout = c.scout /\ u.cur.kinds = rest /\ u.cur.row = row
  BY <1>6
<1>8. /\ t.pc \in {"fill", "create"} /\ ledger' = ledger /\ c.message \in Message
      /\ c.kinds \subseteq Shares[c.message] /\ ~Known(c.message) /\ c.kinds \subseteq Kind
      /\ k \in c.kinds
  <2>1. t.pc \in {"fill", "create"} /\ ledger' = ledger
    BY <1>1 DEF FillHalf, CreateRow, At
  <2>2. c.message \in Message
    BY <1>1, <1>2, <2>1, Own DEF Good, Shape, Placing, Ingesting
  <2>3. c.kinds \subseteq Shares[c.message] /\ ~Known(c.message) /\ c.kinds # {}
    BY <1>1, <1>2, <2>1 DEF Steady, Filing
  <2>4. c.kinds \subseteq Kind
    BY DEF Cur
  <2> QED BY <1>3, <2>1, <2>2, <2>3, <2>4 DEF NextKind, Kind
<1>9. /\ Cells(c.message, k)' = {row}
      /\ \A m \in Message, j \in Kind : m # c.message \/ j # k => Cells(m, j)' = Cells(m, j)
      /\ \A n \in DOMAIN sheet : sheet'[n].scout = sheet[n].scout
  <2>1. /\ t.cur.message = c.message /\ k = NextKind(t.cur.kinds) /\ t = task[w]
        /\ Files(t, row) /\ t.pc \in {"fill", "create"}
    BY <1>1, <1>2, <1>3, <1>4, <1>8
  <2>2. /\ Cells(t.cur.message, k)' = {row}
        /\ \A m \in Message, j \in Kind : m # t.cur.message \/ j # k => Cells(m, j)' = Cells(m, j)
        /\ \A n \in DOMAIN sheet : sheet'[n].scout = sheet[n].scout
    BY <2>1, FileCells
  <2> QED BY <2>1, <2>2
<1>10. sheet'[row].scout = c.scout /\ row \in DOMAIN sheet' /\ sheet'[row][k] = c.message
  BY <1>2, <1>3, <1>4 DEF Files
<1>11. \A v \in Worker : task'[v] = u /\ v = w
  BY <1>6 DEF IInv, Tasks, OneAtATime, OneHandler
<1>12. Done(t) = Shares[c.message] \ c.kinds /\ Done(u) = Done(t) \cup {k}
  <2>1. Done(t) = Shares[c.message] \ c.kinds
    BY <1>2, <1>8 DEF Done, Filing
  <2>2. Done(u) = Shares[c.message] \ rest
    BY <1>6, <1>7 DEF Done, Filing
  <2> QED BY <1>5, <1>8, <2>1, <2>2
<1>13. \A m \in Message, j \in Kind : \A s :
           OnSheetOf(m, j, s) /\ (m # c.message \/ j # k) => OnSheetOf(m, j, s)'
  <2> SUFFICES ASSUME NEW m \in Message, NEW j \in Kind, NEW s, m # c.message \/ j # k,
                      NEW n \in Cells(m, j), sheet[n].scout = s
               PROVE  n \in Cells(m, j)' /\ sheet'[n].scout = s
    BY DEF OnSheetOf
  <2>1. n \in DOMAIN sheet
    BY DEF Cells
  <2> QED BY <1>9, <2>1
<1>14. Steady(u)'
  <2>1. \A j \in Done(u) : OnSheetOf(c.message, j, c.scout)'
    <3>1. OnSheetOf(c.message, k, c.scout)'
      BY <1>9, <1>10 DEF OnSheetOf
    <3>2. ASSUME NEW j \in Done(t), j # k PROVE OnSheetOf(c.message, j, c.scout)'
      <4>1. j \in Kind
        BY <1>8, <1>12, <3>2, MessageAssumption
      <4>2. OnSheetOf(c.message, j, c.scout)
        BY <1>1, <1>2, <3>2 DEF Steady
      <4> QED BY <1>8, <1>13, <3>2, <4>1, <4>2
    <3> QED BY <1>12, <3>1, <3>2
  <2>2. InRow(c.message, row)'
    BY <1>10 DEF InRow
  <2>3. ~Known(c.message)'
    BY <1>8 DEF Known
  <2>4. u.pc \in {"applied", "half"} /\ (u.pc = "applied" <=> rest = {})
    BY <1>6
  <2>5. rest \subseteq Shares[c.message]
    BY <1>5, <1>8
  <2>6. Done(u)' = Done(u)
    BY DEF Done
  <2> QED BY <1>7, <2>1, <2>2, <2>3, <2>4, <2>5, <2>6 DEF Steady, Filing, Recording
<1>15. RowsTrue'
  <2> SUFFICES ASSUME NEW r \in ledger, r.status = "APPLIED", Shares[r.message] # {}
               PROVE  /\ \A j \in Shares[r.message] : OnSheetOf(r.message, j, r.scout)'
                      /\ InRow(r.message, r.entry)'
    BY <1>8 DEF RowsTrue
  <2>1. r.message \in Message /\ r.message # c.message
    BY <1>8 DEF Known, IInv, Stored, LedgerOK, LedgerRow
  <2>2. Shares[r.message] \subseteq Kind
    BY <2>1, MessageAssumption
  <2>3. \A j \in Shares[r.message] : OnSheetOf(r.message, j, r.scout)'
    BY <1>13, <2>1, <2>2 DEF FInv, RowsTrue
  <2>4. PICK j \in Kind : r.entry \in Cells(r.message, j)
    BY DEF FInv, RowsTrue, InRow, Cells
  <2>5. r.entry \in Cells(r.message, j)'
    BY <1>9, <2>1, <2>4
  <2>6. InRow(r.message, r.entry)'
    BY <2>5 DEF InRow, Cells
  <2> QED BY <2>3, <2>6
<1>16. CellsGood'
  <2> SUFFICES ASSUME NEW m \in Message, NEW j \in Kind
               PROVE  /\ \A n, o \in Cells(m, j)' : n = o
                      /\ Cells(m, j)' # {} => Applied(m, j)' \/ InWork(m, j)'
    BY DEF CellsGood
  <2>1. Applied(m, j)' = Applied(m, j)
    BY <1>8 DEF Applied
  <2>2. m = c.message /\ j \in Done(u) => InWork(m, j)'
    <3>1. Done(task[w])' = Done(u)
      BY <1>11 DEF Done
    <3> QED BY <1>7, <1>11, <3>1 DEF InWork
  <2>3. InWork(m, j) => m = c.message /\ j \in Done(t)
    BY <1>1, <1>2, <1>11 DEF InWork
  <2>4. CASE m = c.message /\ j = k
    BY <1>9, <1>12, <2>2, <2>4
  <2>5. CASE m # c.message \/ j # k
    <3>1. Cells(m, j)' = Cells(m, j)
      BY <1>9, <2>5
    <3> QED BY <1>12, <2>1, <2>2, <2>3, <3>1 DEF FInv, CellsGood
  <2> QED BY <2>4, <2>5
<1> QED BY <1>11, <1>14, <1>15, <1>16 DEF FInv

\* The message is recorded, or its row cleared to be filed again.
LEMMA LedgerFiled ==
    ASSUME OneAtATime, IInv, FInv, NEW w \in Worker, Record(w) \/ Drop(w)
    PROVE  FInv'
<1>1. PICK t \in Task : t = task[w] /\ Steady(t) /\ Good(t, entitled, sheet, ledger, serial)
  BY Own DEF FInv
<1>2. PICK c \in Cur : c = t.cur
  BY DEF Task
<1>3. sheet' = sheet /\ \A m, k : Cells(m, k)' = Cells(m, k)
  BY DEF Record, Drop, Cells
<1>4. PICK u : task' = [task EXCEPT ![w] = u] /\ u.pc \in Calm
  <2>1. CASE Record(w)
    <3>1. "pc" \in DOMAIN t /\ Resume(w, t)
      BY <1>1, <2>1 DEF Record, Task
    <3> QED BY <3>1, ResumeCalm DEF CalmTo
  <2>2. CASE Drop(w)
    <3>1. PICK u : u = [t EXCEPT !.pc = "seen", !.cur.id = 0]
      OBVIOUS
    <3>2. u.pc = "seen"
      BY <3>1 DEF Task
    <3> QED BY <1>1, <2>2, <3>1, <3>2 DEF Drop, Become, Calm
  <2> QED BY <2>1, <2>2
<1>5. \A v \in Worker : task'[v] = u /\ v = w
  BY <1>4 DEF IInv, Tasks, OneAtATime, OneHandler
<1>6. Steady(u)'
  BY <1>4 DEF Steady, Done, Calm, Following, Filing, Recording
<1>7. CASE Drop(w)
  <2>1. PICK r \in ledger : r.id = c.id /\ ledger' = ledger \ {r} /\ t.pc = "drop"
    BY <1>1, <1>2, <1>7 DEF Drop, At
  <2>2. r.status # "APPLIED"
    BY <1>1, <1>2, <2>1 DEF Good, Unfiled
  <2>3. RowsTrue'
    BY <1>3, <2>1 DEF FInv, RowsTrue, OnSheetOf, InRow
  <2>4. \A m, k : InWork(m, k) => FALSE
    BY <1>1, <1>5, <2>1 DEF InWork, Done, Filing
  <2>5. \A m, k : Applied(m, k) => Applied(m, k)'
    BY <2>1, <2>2 DEF Applied
  <2>6. CellsGood'
    BY <1>3, <2>4, <2>5 DEF FInv, CellsGood
  <2> QED BY <1>5, <1>6, <2>3, <2>6 DEF FInv
<1>8. CASE Record(w)
  <2>1. PICK e : e = LedgerEntry(t)
    OBVIOUS
  <2>2. ledger' = ledger \cup {e} /\ t.pc \in Recording /\ t.pc # "failed"
    BY <1>1, <1>8, <2>1 DEF Record, Steady
  <2>3. /\ e.message = c.message /\ e.scout = c.scout
        /\ e.status = "APPLIED" <=> t.pc = "applied"
        /\ t.pc = "applied" => e.entry = c.row
    <3>1. Outcome(t.pc) = "APPLIED" <=> t.pc = "applied"
      BY <2>2 DEF Recording, Outcome
    <3> QED BY <1>2, <2>1, <3>1 DEF LedgerEntry
  <2>4. RowsTrue'
    <3>1. e.status = "APPLIED" => /\ \A k \in Shares[e.message] : OnSheetOf(e.message, k, e.scout)
                                  /\ InRow(e.message, e.entry)
      <4> SUFFICES ASSUME t.pc = "applied"
                   PROVE  /\ \A k \in Shares[c.message] : OnSheetOf(c.message, k, c.scout)
                          /\ InRow(c.message, c.row)
        BY <2>3
      <4>1. Done(t) = Shares[c.message]
        BY <1>1, <1>2 DEF Steady, Done
      <4> QED BY <1>1, <1>2, <4>1 DEF Steady
    <3> QED BY <1>3, <2>2, <3>1 DEF FInv, RowsTrue, OnSheetOf, InRow
  <2>5. \A m, k : InWork(m, k) => Applied(m, k)'
    <3> SUFFICES ASSUME NEW m, NEW k, InWork(m, k) PROVE Applied(m, k)'
      OBVIOUS
    <3>1. c.message = m /\ k \in Done(t) /\ t.pc = "applied"
      BY <1>1, <1>2, <1>5, <2>2 DEF InWork, Done, Recording, Filing
    <3>2. k \in Shares[m]
      BY <1>2, <3>1 DEF Done
    <3> QED BY <2>2, <2>3, <3>1, <3>2 DEF Applied
  <2>6. \A m, k : Applied(m, k) => Applied(m, k)'
    BY <2>2 DEF Applied
  <2>7. CellsGood'
    BY <1>3, <2>5, <2>6 DEF FInv, CellsGood
  <2> QED BY <1>5, <1>6, <2>4, <2>7 DEF FInv
<1> QED BY <1>7, <1>8

LEMMA AgeFiled ==
    ASSUME IInv, FInv, NEW n \in DOMAIN sheet, Age(n)
    PROVE  FInv'
<1>1. task' = task /\ ledger' = ledger
  BY DEF Age
<1>2. /\ DOMAIN sheet' = DOMAIN sheet
      /\ \A i \in DOMAIN sheet : sheet'[i].scout = sheet[i].scout
      /\ \A i \in DOMAIN sheet, k \in Kind : sheet'[i][k] = sheet[i][k]
  BY AgeEffect
<1>3. \A m, k : k \in Kind => Cells(m, k)' = Cells(m, k)
  BY <1>2 DEF Cells
<1>4. \A m, k, s : k \in Kind /\ OnSheetOf(m, k, s) => OnSheetOf(m, k, s)'
  BY <1>2, <1>3 DEF OnSheetOf, Cells
<1>5. \A m, i : InRow(m, i) => InRow(m, i)'
  BY <1>2 DEF InRow
<1>6. \A s : LastRowNumber(s)' = LastRowNumber(s)
  <2>1. \A s : {i \in DOMAIN sheet : sheet'[i].scout = s} = {i \in DOMAIN sheet : sheet[i].scout = s}
    BY <1>2
  <2> QED BY <1>2, <2>1 DEF LastRowNumber
<1>7. CellsGood'
  BY <1>1, <1>3 DEF FInv, CellsGood, Applied, InWork, Done
<1>8. \A r \in ledger : r.message \in Message /\ Shares[r.message] \subseteq Kind
  BY MessageAssumption DEF IInv, Stored, LedgerOK, LedgerRow
<1>9. RowsTrue'
  BY <1>1, <1>4, <1>5, <1>8 DEF FInv, RowsTrue
<1>10. ASSUME NEW w \in Worker PROVE Steady(task[w])'
  <2>1. PICK t \in Task : t = task[w] /\ Steady(t) /\ Good(t, entitled, sheet, ledger, serial)
    BY Own DEF FInv
  <2>2. Done(t)' = Done(t) /\ Done(t) \subseteq Kind
    <3>1. t.pc \in Filing \cup {"applied"} => t.cur.message \in Message
      BY <2>1 DEF Good, Shape, Filing, Ingesting, Placing, Recording
    <3> QED BY <3>1, MessageAssumption DEF Done
  <2>3. Steady(t)'
    BY <1>1, <1>4, <1>5, <1>6, <2>1, <2>2 DEF Steady, Known
  <2> QED BY <1>1, <2>1, <2>3
<1> QED BY <1>1, <1>7, <1>9, <1>10 DEF FInv

LEMMA InitFiled == Init => FInv
<1> SUFFICES ASSUME Init PROVE FInv
  OBVIOUS
<1>1. \A w \in Worker : task[w].pc \in Calm
  BY DEF Init, Idle, Calm
<1>2. \A w \in Worker : Steady(task[w])
  BY <1>1, CalmSteady
<1>3. \A r \in ledger : r.status = "NO_LINKS"
  BY DEF Init, DroppedRow
<1>4. \A m, k : Cells(m, k) = {}
  BY DEF Init, Cells
<1> QED BY <1>2, <1>3, <1>4 DEF FInv, CellsGood, RowsTrue

LEMMA NextFiled == OneAtATime /\ IInv /\ PInv /\ FInv /\ [Next]_vars => FInv'
<1> SUFFICES ASSUME OneAtATime, IInv, PInv, FInv, [Next]_vars PROVE FInv'
  OBVIOUS
<1>1. ASSUME NEW w \in Worker, CalmAction(w) PROVE FInv'
  BY <1>1, CalmFiled
<1>2. ~Fault
  BY NoFault
<1>3. ASSUME NEW w \in Worker, Continue(w) PROVE FInv'
  <2>1. ~CallFails(w) /\ ~LookupFails(w)
    BY <1>2 DEF CallFails, LookupFails
  <2>2. ~RecordClash(w)
    BY DEF RecordClash, FInv, Steady
  <2> QED BY <1>1, <1>3, <2>1, <2>2, SoughtFiled, RowFiled, FileFiled, LedgerFiled
          DEF Continue, Ingest, CalmAction
<1>4. ASSUME NEW w \in Worker,
             \/ Deliver(w) \/ Tick(w) \/ RefileAtBoot(w) \/ ManualSync(w) \/ Assign(w)
             \/ \E mode \in {"own", "admin"} : StartSetHandle(w, mode)
      PROVE  FInv'
  BY <1>1, <1>4 DEF CalmAction
<1>5. CASE UNCHANGED vars \/ \E m \in Message : Send(m)
  <2>1. UNCHANGED <<sheet, task, ledger>>
    BY <1>5 DEF vars, Send, tables
  <2> QED BY <2>1 DEF FInv, CellsGood, RowsTrue, Steady, Cells, Applied, InWork, Done, OnSheetOf,
                       InRow, Known, LastRowNumber
<1>6. ~Restart /\ \A i \in Sender : ~Forget(i)
  BY <1>2 DEF Restart, Forget, OneAtATime
<1> QED BY <1>3, <1>4, <1>5, <1>6, AgeFiled DEF Next

LEMMA FiledImply == IInv /\ FInv => FiledOnce /\ AppliedOnSheet
<1> SUFFICES ASSUME IInv, FInv PROVE FiledOnce /\ AppliedOnSheet
  OBVIOUS
<1>1. ASSUME NEW m \in Message, NEW k \in Kind PROVE Cardinality(Cells(m, k)) <= 1
  <2>1. CASE Cells(m, k) = {}
    BY <2>1, FS_EmptySet
  <2>2. CASE Cells(m, k) # {}
    <3>1. PICK n : Cells(m, k) = {n}
      BY <2>2 DEF FInv, CellsGood
    <3> QED BY <3>1, FS_Singleton
  <2> QED BY <2>1, <2>2
<1>2. ASSUME Quiet, NEW r \in ledger, NEW k \in Kind
      PROVE  IF r.status = "APPLIED" /\ k \in Shares[r.message]
             THEN /\ Cells(r.message, k) # {}
                  /\ \A n \in Cells(r.message, k) : sheet[n].scout = r.scout
                  /\ r.message \in {sheet[r.entry][j] : j \in Kind}
             ELSE Cells(r.message, k) = {}
  <2>1. r.message \in Message
    BY DEF IInv, Stored, LedgerOK, LedgerRow
  <2>2. CASE r.status = "APPLIED" /\ k \in Shares[r.message]
    <3>1. OnSheetOf(r.message, k, r.scout) /\ InRow(r.message, r.entry)
      BY <2>2 DEF FInv, RowsTrue
    <3>2. \A n, o \in Cells(r.message, k) : n = o
      BY <2>1 DEF FInv, CellsGood
    <3> QED BY <2>2, <3>1, <3>2 DEF OnSheetOf, InRow
  <2>3. CASE ~ (r.status = "APPLIED" /\ k \in Shares[r.message])
    <3>1. ~InWork(r.message, k)
      BY <1>2 DEF Quiet, InWork, Done, Filing
    <3>2. ~Applied(r.message, k)
      BY <2>3 DEF Applied, IInv, Stored, LedgerOK
    <3>3. Cells(r.message, k) = {}
      BY <2>1, <3>1, <3>2 DEF FInv, CellsGood
    <3> QED BY <2>3, <3>3
  <2> QED BY <2>2, <2>3
<1>3. AppliedOnSheet
  BY <1>2 DEF AppliedOnSheet
<1> QED BY <1>1, <1>3 DEF FiledOnce

LEMMA AlwaysFiled == OneAtATime => (SafeSpec => [](IInv /\ PInv /\ FInv))
<1> SUFFICES ASSUME OneAtATime PROVE SafeSpec => [](IInv /\ PInv /\ FInv)
  OBVIOUS
<1>1. OneHandler
  BY DEF OneAtATime
<1>2. IInv /\ PInv /\ FInv /\ [Next]_vars => (IInv /\ PInv /\ FInv)'
  BY <1>1, NextGood, NextMet, NextFiled
<1>3. Init => IInv /\ PInv /\ FInv
  BY InitGood, InitMet, InitFiled
<1> QED BY <1>2, <1>3, PTL DEF SafeSpec

\* With one handler at a time that no call fails and nothing is erased, no share of a
\* message is in two cells, whichever routes bring it and however often.
\* (instagram-dm.service.ts ingest, recordMessage)
THEOREM SharesFiledOnce == OneAtATime => (SafeSpec => []FiledOnce)
<1> SUFFICES ASSUME OneAtATime PROVE SafeSpec => []FiledOnce
  OBVIOUS
<1> QED BY AlwaysFiled, FiledImply, PTL

\* Under the same conditions the ledger tells the truth: the shares of a message it
\* has as filed are on its scout's sheet, on the row it names, and no others are.
\* (instagram-dm.service.ts ingest, recordMessage)
THEOREM LedgerTrue == OneAtATime => (SafeSpec => []AppliedOnSheet)
<1> SUFFICES ASSUME OneAtATime PROVE SafeSpec => []AppliedOnSheet
  OBVIOUS
<1> QED BY AlwaysFiled, FiledImply, PTL

-----------------------------------------------------------------------------
(* One handler at a time, without faults or erasures: a handle decides     *)
(* what follows.                                                           *)

\* The id of sender i may be cached on s.
Linkable(s, i) == UsernameOf[i] = users[s].handle \/ <<s, i, "assigned">> \in entitled

\* The ledger row of an item is there.
Listed(it) == it.id # 0 => \E r \in ledger : r.id = it.id /\ r.message = it.message

\* What a run carries from one message and sender to the next: rows that are there,
\* each once, senders of the scout's, and the handle a scout set, which is theirs.
Loops(t) ==
    /\ \A i \in t.senders : Linkable(t.owner, i)
    /\ \A it \in t.todo : Listed(it) /\ \A o \in t.todo : it.id = o.id /\ it.id # 0 => it = o
    /\ t.mode = "own" =>
          t.owner \in Scout /\ t.handle # None /\ users[t.owner].handle = t.handle

\* Nobody changes an account or the ledger under a handler.
Linking(t) ==
    LET username == UsernameOf[SenderOf[t.cur.message]] IN
    /\ t.pc \in Following => t.todo = {}
    /\ t.pc \notin {"idle", "handle", "claim"} => Loops(t)
    /\ t.pc \in {"handle", "claim"} => t.senders = {}
    /\ t.pc = "handle" => t.had = users[t.owner].handle
    /\ t.pc \in {"claim", "waiting"} => t.mode = "own"
    /\ t.pc = "fetch" => t.mode = "sync"
    /\ t.pc = "link" => /\ Linkable(t.owner, t.sender)
                        /\ t.had = users[t.owner].handle
                        /\ Holding("igId", t.sender) \subseteq {t.owner}
    /\ t.pc = "cache" => users[t.cur.scout].handle = username
    /\ t.pc = "unmatched" => Holding("handle", username) = {}
    /\ t.pc = "drop" => /\ t.cur.id # 0 /\ Listed(t.cur)
                        /\ \A it \in t.todo : it.id # t.cur.id

\* Row r comes later in the run; row r waits for nothing but this handler, which
\* follows from the handle that scout s set.
Later(t, r) == SenderOf[r.message] \in t.senders \/ [id |-> r.id, message |-> r.message] \in t.todo
Claimed(t, r, s) ==
    /\ t.mode = "own" /\ t.owner = s
    /\ \/ t.pc \in {"claim", "waiting"}
       \/ t.pc \in {"link", "pending"} /\ t.sender = SenderOf[r.message]
       \/ t.pc = "drop" /\ t.cur.id = r.id
       \/ Later(t, r)

IdsRight == \A s \in Scout, i \in Sender : users[s].igId = i => Linkable(s, i)
Matches(s, r) == users[s].own /\ users[s].handle = UsernameOf[SenderOf[r.message]]
Served ==
    \A s \in Scout, r \in Waiting :
        Matches(s, r) => \E w \in Worker : Claimed(task[w], r, s)

HInv ==
    /\ IdsRight /\ Served
    /\ \A r \in ledger : r.id # 0
    /\ \A w \in Worker : Linking(task[w])

\* A right stays, while the handles do.
LEMMA LinkableStays ==
    ASSUME NEW s, NEW i, Linkable(s, i), entitled \subseteq entitled',
           users'[s].handle = users[s].handle
    PROVE  Linkable(s, i)'
  BY DEF Linkable

\* What one step of the one handler must show.
LEMMA LinkedStep ==
    ASSUME OneAtATime, IInv, HInv, UNCHANGED ledger, NEW w \in Worker, NEW u,
           task' = [task EXCEPT ![w] = u], Linking(u)', IdsRight',
           \A s \in Scout, r \in Waiting :
              Matches(s, r)' => Claimed(u, r, s) \/ (Matches(s, r) /\ ~Claimed(task[w], r, s))
    PROVE  HInv'
<1>1. \A v \in Worker : task'[v] = u /\ v = w
  BY DEF IInv, Tasks, OneAtATime, OneHandler
<1>2. \A v \in Worker : Linking(task[v])'
  BY <1>1 DEF Linking, Loops
<1>3. ASSUME NEW s \in Scout, NEW r \in Waiting', Matches(s, r)'
      PROVE  \E v \in Worker : Claimed(task[v], r, s)'
  <2>1. r \in Waiting
    BY <1>3 DEF Waiting
  <2>2. Claimed(u, r, s) \/ (Matches(s, r) /\ ~Claimed(task[w], r, s))
    BY <1>3, <2>1
  <2>3. Matches(s, r) => Claimed(task[w], r, s)
    BY <1>1, <2>1 DEF HInv, Served
  <2>4. Claimed(u, r, s)
    BY <2>2, <2>3
  <2>5. Claimed(task'[w], r, s)
    BY <1>1, <2>4
  <2>6. Claimed(task[w], r, s)'
    BY <2>5 DEF Claimed, Later
  <2> QED BY <2>6
<1>4. Served'
  BY <1>3 DEF Served
<1> QED BY <1>2, <1>4 DEF HInv

\* One that leaves the accounts alone.
LEMMA LocalLinked ==
    ASSUME OneAtATime, IInv, HInv, UNCHANGED <<users, ledger>>, entitled \subseteq entitled',
           NEW w \in Worker, NEW u, task' = [task EXCEPT ![w] = u], Linking(u)',
           \A s \in Scout, r \in Waiting :
              Matches(s, r) /\ Claimed(task[w], r, s) => Claimed(u, r, s)
    PROVE  HInv'
<1>1. IdsRight'
  BY LinkableStays DEF HInv, IdsRight
<1>2. \A s, r : Matches(s, r)' = Matches(s, r)
  BY DEF Matches
<1> QED BY <1>1, <1>2, LinkedStep

\* What a step of the handler knows of its local variables.
LEMMA OwnLinked ==
    ASSUME IInv, HInv, NEW w \in Worker
    PROVE  /\ task[w] \in Task /\ Shape(task[w]) /\ Linking(task[w])
           /\ task[w].pc \notin {"idle", "handle", "claim"} => Loops(task[w])
  BY Own DEF HInv, Good, Linking

\* Where a loop goes next: what it carries stays, and nothing is left out.
LEMMA AfterLinked ==
    ASSUME NEW t \in Task, Loops(t), NEW u \in After(t),
           t.senders # {} => t.owner \in Scout
    PROVE  /\ Linking(u)
           /\ \A s, r : t.mode = "own" /\ t.owner = s /\ r.id # 0 /\ Later(t, r) => Claimed(u, r, s)
<1>1. CASE t.todo # {}
  <2>1. PICK it \in Oldest(t.todo) :
            u = [t EXCEPT !.pc = IF it.id = 0 THEN "seen" ELSE "drop",
                          !.todo = @ \ {it},
                          !.cur = [NoItem EXCEPT !.id = it.id, !.message = it.message]]
    BY <1>1 DEF After
  <2>2. PICK c : c = [NoItem EXCEPT !.id = it.id, !.message = it.message]
    OBVIOUS
  <2>3. c.id = it.id /\ c.message = it.message /\ it \in t.todo
    BY <2>1, <2>2 DEF NoItem, Oldest
  <2>4. /\ u.pc \in {"seen", "drop"} /\ (u.pc = "drop" <=> it.id # 0)
        /\ u.todo = t.todo \ {it} /\ u.cur = c /\ u.mode = t.mode /\ u.owner = t.owner
        /\ u.handle = t.handle /\ u.senders = t.senders
    BY <2>1, <2>2 DEF Task
  <2>5. Loops(u)
    BY <2>4 DEF Loops
  <2>6. u.pc = "drop" => /\ u.cur.id # 0 /\ Listed(u.cur)
                         /\ \A o \in u.todo : o.id # u.cur.id
    BY <2>3, <2>4 DEF Loops, Listed
  <2>7. Linking(u)
    BY <2>4, <2>5, <2>6 DEF Linking, Following
  <2>8. ASSUME NEW s, NEW r, t.mode = "own", t.owner = s, r.id # 0, Later(t, r)
        PROVE  Claimed(u, r, s)
    <3>1. PICK o : o = [id |-> r.id, message |-> r.message]
      OBVIOUS
    <3>2. o.id = r.id
      BY <3>1
    <3>3. SenderOf[r.message] \in t.senders \/ o \in t.todo
      BY <2>8, <3>1 DEF Later
    <3>4. CASE o = it
      BY <2>3, <2>4, <2>8, <3>2, <3>4 DEF Claimed
    <3>5. CASE o # it
      BY <2>4, <2>8, <3>1, <3>3, <3>5 DEF Claimed, Later
    <3> QED BY <3>4, <3>5
  <2> QED BY <2>7, <2>8
<1>2. CASE t.todo = {}
  <2>1. \/ t.mode = "sync" /\ u = [t EXCEPT !.pc = "fetch", !.cur = NoItem]
        \/ t.senders # {} /\ u = [t EXCEPT !.pc = "release", !.cur = NoItem]
        \/ t.senders = {} /\ u = Idle
    BY <1>2 DEF After
  <2>2. Idle.pc = "idle" /\ Idle.mode = None /\ Idle.senders = {} /\ Idle.todo = {}
    BY DEF Idle
  <2>3. CASE u = Idle
    <3>1. Linking(u)
      BY <2>2, <2>3 DEF Linking, Loops, Following
    <3>2. t.mode = "own" => t.senders = {}
      BY <2>1, <2>2, <2>3 DEF Task
    <3> QED BY <1>2, <2>1, <3>1, <3>2 DEF Later
  <2>4. CASE u # Idle
    <3>1. /\ u.pc \in {"fetch", "release"} /\ u.todo = {} /\ u.mode = t.mode /\ u.owner = t.owner
          /\ u.handle = t.handle /\ u.senders = t.senders
      BY <1>2, <2>1, <2>4 DEF Task
    <3>2. Loops(u)
      BY <3>1 DEF Loops
    <3>3. Linking(u)
      <4>1. u.pc = "fetch" => t.mode = "sync"
        BY <2>1, <2>4 DEF Task
      <4> QED BY <3>1, <3>2, <4>1 DEF Linking, Following
    <3> QED BY <1>2, <3>1, <3>3 DEF Claimed, Later
  <2> QED BY <2>3, <2>4
<1> QED BY <1>1, <1>2

LEMMA SameLinking ==
    ASSUME UNCHANGED <<users, ledger, entitled>>, NEW u, Linking(u)
    PROVE  Linking(u)'
  BY DEF Linking, Loops, Linkable, Listed, Holding

LEMMA ResumeLinked ==
    ASSUME OneAtATime, IInv, HInv, UNCHANGED <<users, ledger, entitled>>, NEW w \in Worker,
           NEW t \in Task, Loops(t), t.senders # {} => t.owner \in Scout,
           \A s \in Scout, r \in Waiting :
              Matches(s, r) /\ Claimed(task[w], r, s) => t.mode = "own" /\ t.owner = s /\ Later(t, r),
           NEW u \in After(t), task' = [task EXCEPT ![w] = u]
    PROVE  HInv'
<1>1. Linking(u)'
  BY AfterLinked, SameLinking
<1>2. \A r \in Waiting : r.id # 0
  BY DEF HInv, Waiting
<1>3. \A s \in Scout, r \in Waiting : Matches(s, r) /\ Claimed(task[w], r, s) => Claimed(u, r, s)
  BY <1>2, AfterLinked
<1> QED BY <1>1, <1>3, LocalLinked

LEMMA IdleLinked ==
    /\ \A s, r : ~Claimed(Idle, r, s)
    /\ Linking(Idle) /\ Linking(Idle)'
<1>1. Idle.pc = "idle" /\ Idle.senders = {} /\ Idle.todo = {}
  BY DEF Idle
<1> QED BY <1>1 DEF Claimed, Later, Linking, Following

\* A step that ends a run which claimed nothing.
LEMMA EndLinked ==
    ASSUME OneAtATime, IInv, HInv, UNCHANGED <<users, ledger, entitled>>, NEW w \in Worker,
           Become(w, Idle),
           \A s \in Scout, r \in Waiting : ~(Matches(s, r) /\ Claimed(task[w], r, s))
    PROVE  HInv'
  BY IdleLinked, LocalLinked DEF Become

LEMMA ItemsListed ==
    ASSUME IInv, NEW rows, rows \subseteq ledger
    PROVE  \A it \in Items(rows) : Listed(it) /\ \A o \in Items(rows) : it.id = o.id => it = o
<1> SUFFICES ASSUME NEW it \in Items(rows)
             PROVE  Listed(it) /\ \A o \in Items(rows) : it.id = o.id => it = o
  OBVIOUS
<1>1. PICK r \in rows : it = [id |-> r.id, message |-> r.message]
  BY DEF Items
<1>2. Listed(it)
  BY <1>1 DEF Listed
<1>3. ASSUME NEW o \in Items(rows), it.id = o.id PROVE it = o
  <2>1. PICK q \in rows : o = [id |-> q.id, message |-> q.message]
    BY DEF Items
  <2>2. q.id = r.id
    BY <1>1, <1>3, <2>1
  <2> QED BY <1>1, <2>1, <2>2 DEF IInv, Stored, LedgerOK
<1> QED BY <1>2, <1>3

\* A run that begins with messages of the inbox, or with rows of the ledger.
LEMMA BatchLinked ==
    ASSUME OneAtATime, IInv, HInv, UNCHANGED <<users, ledger, entitled>>, NEW w \in Worker,
           At(w, "idle"), NEW mode \in {"hook", "poll", "refile", "sync"}, NEW todo \in SUBSET Item,
           \A it \in todo : Listed(it) /\ \A o \in todo : it.id = o.id /\ it.id # 0 => it = o,
           NEW t, t = [Idle EXCEPT !.mode = mode, !.todo = todo],
           NEW u \in After(t), task' = [task EXCEPT ![w] = u]
    PROVE  HInv'
<1>1. t \in Task
  BY IdleGood DEF Task, Mode
<1>2. t.senders = {} /\ t.todo = todo /\ t.mode = mode
  BY DEF Idle
<1>3. Loops(t)
  BY <1>2 DEF Loops
<1>4. task[w] = Idle
  BY OwnLinked DEF At, Shape
<1> QED BY <1>1, <1>2, <1>3, <1>4, IdleLinked, ResumeLinked

LEMMA StartLinked ==
    ASSUME OneAtATime, IInv, HInv, NEW w \in Worker,
           Deliver(w) \/ Tick(w) \/ RefileAtBoot(w) \/ ManualSync(w)
    PROVE  HInv'
<1>1. UNCHANGED <<users, ledger, entitled>> /\ At(w, "idle")
  BY DEF Deliver, Tick, RefileAtBoot, ManualSync, Refile, tables, world
<1>2. Inbox \subseteq Item /\ \A it \in Inbox : it.id = 0
  BY ItemsGood
<1>3. CASE Deliver(w)
  <2>1. PICK batch \in SUBSET Inbox : Resume(w, [Idle EXCEPT !.mode = "hook", !.todo = batch])
    BY <1>3 DEF Deliver
  <2>2. PICK t : t = [Idle EXCEPT !.mode = "hook", !.todo = batch]
    OBVIOUS
  <2>3. PICK u \in After(t) : task' = [task EXCEPT ![w] = u]
    BY <2>1, <2>2 DEF Resume, Become
  <2> QED BY <1>1, <1>2, <2>2, <2>3, BatchLinked DEF Listed
<1>4. CASE Tick(w)
  <2>1. PICK t : t = [Idle EXCEPT !.mode = "poll", !.todo = Inbox]
    OBVIOUS
  <2>2. PICK u \in After(t) : task' = [task EXCEPT ![w] = u]
    BY <1>4, <2>1 DEF Tick
  <2> QED BY <1>1, <1>2, <2>1, <2>2, BatchLinked DEF Listed
<1>5. CASE RefileAtBoot(w) \/ ManualSync(w)
  <2>1. PICK mode \in {"refile", "sync"} : Refile(w, mode)
    BY <1>5 DEF RefileAtBoot, ManualSync
  <2>2. PICK rows : /\ rows = {r \in ledger : r.status = "NO_LINKS" /\ Shares[r.message] # {}}
                    /\ Resume(w, [Idle EXCEPT !.mode = mode, !.todo = Items(rows)])
    BY <2>1 DEF Refile
  <2>3. PICK t : t = [Idle EXCEPT !.mode = mode, !.todo = Items(rows)]
    OBVIOUS
  <2>4. PICK u \in After(t) : task' = [task EXCEPT ![w] = u]
    BY <2>2, <2>3 DEF Resume, Become
  <2>5. Items(rows) \subseteq Item
    <3>1. rows \in SUBSET {r \in ledger : r.status # "APPLIED"}
      BY <2>2
    <3> QED BY <3>1, ItemsGood
  <2> QED BY <1>1, <2>2, <2>3, <2>4, <2>5, ItemsListed, BatchLinked
<1> QED BY <1>3, <1>4, <1>5

LEMMA RequestLinked ==
    ASSUME OneAtATime, IInv, HInv, NEW w \in Worker,
           Assign(w) \/ \E mode \in {"own", "admin"} : StartSetHandle(w, mode)
    PROVE  HInv'
<1>1. UNCHANGED <<users, ledger>> /\ At(w, "idle")
  BY DEF Assign, StartSetHandle, tables
<1>2. \A s, r : ~Claimed(task[w], r, s)
  BY <1>1, OwnLinked, IdleLinked DEF At, Shape
<1>3. CASE Assign(w)
  <2>1. PICK r, s, i :
            /\ r \in ledger /\ s \in Scout /\ i = SenderOf[r.message]
            /\ Become(w, [Idle EXCEPT !.mode = "assign", !.pc = "release", !.owner = s,
                                      !.handle = r.username, !.senders = {i}])
            /\ entitled' = entitled \cup {<<s, i, "assigned">>}
    BY <1>3 DEF Assign
  <2>2. PICK u : u = [Idle EXCEPT !.mode = "assign", !.pc = "release", !.owner = s,
                                  !.handle = r.username, !.senders = {i}]
    OBVIOUS
  <2>3. u.pc = "release" /\ u.mode = "assign" /\ u.owner = s /\ u.senders = {i} /\ u.todo = {}
    BY <2>2 DEF Idle
  <2>4. Linkable(s, i)'
    BY <2>1 DEF Linkable
  <2>5. Linking(u)'
    BY <2>3, <2>4 DEF Linking, Loops
  <2> QED BY <1>1, <1>2, <2>1, <2>2, <2>5, LocalLinked DEF Become
<1>4. ASSUME NEW mode \in {"own", "admin"}, StartSetHandle(w, mode) PROVE HInv'
  <2>1. PICK s \in Scout, h \in Handle \cup {None} :
            Become(w, [Idle EXCEPT !.mode = mode, !.pc = "handle", !.owner = s,
                                   !.handle = h, !.had = users[s].handle])
    BY <1>4 DEF StartSetHandle
  <2>2. PICK u : u = [Idle EXCEPT !.mode = mode, !.pc = "handle", !.owner = s,
                                  !.handle = h, !.had = users[s].handle]
    OBVIOUS
  <2>3. u.pc = "handle" /\ u.owner = s /\ u.had = users[s].handle /\ u.senders = {} /\ u.todo = {}
    BY <2>2 DEF Idle
  <2>4. Linking(u)
    BY <2>3 DEF Linking
  <2>5. Linking(u)' /\ entitled' = entitled
    BY <1>1, <1>4, <2>4, SameLinking DEF StartSetHandle
  <2> QED BY <1>1, <1>2, <2>1, <2>2, <2>5, LocalLinked DEF Become
<1> QED BY <1>3, <1>4

\* Reading what a handle may claim, and what is next.
LEMMA ReadLinked ==
    ASSUME OneAtATime, IInv, HInv, NEW w \in Worker,
           ReadHandle(w) \/ FindWaiting(w) \/ ReadPending(w) \/ FetchInbox(w) \/ SkipSeen(w)
    PROVE  HInv'
<1>1. UNCHANGED <<users, ledger, entitled>>
  BY DEF ReadHandle, FindWaiting, ReadPending, FetchInbox, SkipSeen, tables, world
<1>2. PICK t \in Task : t = task[w] /\ Shape(t) /\ Linking(t)
                        /\ (t.pc \notin {"idle", "handle", "claim"} => Loops(t))
  BY OwnLinked
<1>3. t.senders # {} => t.owner \in Scout
  BY <1>2, Own DEF Carry
<1>4. CASE ReadHandle(w)
  <2>1. t.pc = "claim" /\ t.mode = "own" /\ t.owner \in Scout /\ t.senders = {} /\ t.todo = {}
    BY <1>2, <1>4 DEF ReadHandle, At, Shape, Linking, Following
  <2>2. PICK h : h = users[t.owner].handle
    OBVIOUS
  <2>3. CASE h = None
    <3>1. \A s \in Scout, r \in Waiting : ~(Matches(s, r) /\ Claimed(t, r, s))
      <4>1. \A r \in Waiting : UsernameOf[SenderOf[r.message]] # None
        BY MessageAssumption, NoneAssumption DEF IInv, Stored, LedgerOK, LedgerRow, Waiting
      <4> QED BY <2>2, <2>3, <4>1 DEF Matches, Claimed
    <3> QED BY <1>1, <1>2, <1>4, <2>2, <2>3, <3>1, EndLinked DEF ReadHandle
  <2>4. CASE h # None
    <3>1. PICK u : u = [t EXCEPT !.pc = "waiting", !.handle = h]
      OBVIOUS
    <3>2. /\ u.pc = "waiting" /\ u.handle = h /\ u.mode = "own" /\ u.owner = t.owner
          /\ u.senders = {} /\ u.todo = {}
      BY <2>1, <3>1 DEF Task
    <3>3. Linking(u)
      BY <2>1, <2>2, <2>4, <3>2 DEF Linking, Loops
    <3>4. \A s, r : Claimed(t, r, s) => Claimed(u, r, s)
      BY <3>2 DEF Claimed
    <3>5. task' = [task EXCEPT ![w] = u]
      BY <1>2, <1>4, <2>2, <2>4, <3>1 DEF ReadHandle, Become
    <3> QED BY <1>1, <1>2, <3>3, <3>4, <3>5, SameLinking, LocalLinked
  <2> QED BY <2>3, <2>4
<1>5. CASE FindWaiting(w)
  <2>1. t.pc = "waiting" /\ t.mode = "own" /\ t.owner \in Scout /\ t.todo = {} /\ Loops(t)
    BY <1>2, <1>5 DEF FindWaiting, At, Shape, Linking, Following
  <2> DEFINE By(n) == {SenderOf[r.message] : r \in {q \in Waiting : q.username = n}}
             Resolved == {i \in By(None) : UsernameOf[i] = t.handle}
  <2>2. PICK z : z = By(t.handle) \cup Resolved
    OBVIOUS
  <2>3. Resume(w, [t EXCEPT !.senders = z])
    BY <1>2, <1>5, <2>2, NoFault DEF FindWaiting
  <2>4. PICK p : p = [t EXCEPT !.senders = z]
    OBVIOUS
  <2>5. PICK u \in After(p) : task' = [task EXCEPT ![w] = u]
    BY <2>3, <2>4 DEF Resume, Become
  <2>6. \A r \in Waiting : /\ SenderOf[r.message] \in Sender
                           /\ r.username \in {None, UsernameOf[SenderOf[r.message]]}
    BY MessageAssumption DEF Waiting, IInv, Stored, LedgerOK, LedgerRow
  <2>7. \A i \in z : i \in Sender /\ UsernameOf[i] = t.handle
    BY <2>1, <2>2, <2>6 DEF Loops
  <2>8. \A r \in Waiting : UsernameOf[SenderOf[r.message]] = t.handle => SenderOf[r.message] \in z
    BY <2>2, <2>6
  <2> HIDE DEF By, Resolved
  <2>9. /\ p \in Task /\ p.senders = z /\ p.todo = {} /\ p.mode = "own" /\ p.owner = t.owner
        /\ p.handle = t.handle
    BY <2>1, <2>4, <2>7 DEF Task
  <2>10. Loops(p)
    BY <2>1, <2>7, <2>9 DEF Loops, Linkable
  <2>11. \A s \in Scout, r \in Waiting :
            Matches(s, r) /\ Claimed(t, r, s) => p.owner = s /\ Later(p, r)
    BY <2>1, <2>8, <2>9 DEF Matches, Claimed, Later, Loops
  <2> QED BY <1>1, <1>2, <2>1, <2>5, <2>9, <2>10, <2>11, ResumeLinked
<1>6. CASE ReadPending(w)
  <2>1. t.pc = "pending" /\ t.todo = {} /\ Loops(t) /\ t.owner \in Scout
    BY <1>2, <1>6 DEF ReadPending, At, Linking, Following, Shape
  <2>2. PICK rows : /\ rows = {r \in Waiting : SenderOf[r.message] = t.sender}
                    /\ Resume(w, [t EXCEPT !.todo = Items(rows), !.sender = None])
    BY <1>2, <1>6 DEF ReadPending
  <2>3. PICK p : p = [t EXCEPT !.todo = Items(rows), !.sender = None]
    OBVIOUS
  <2>4. PICK u \in After(p) : task' = [task EXCEPT ![w] = u]
    BY <2>2, <2>3 DEF Resume, Become
  <2>5. rows \subseteq ledger /\ Items(rows) \subseteq Item
    <3>1. rows \in SUBSET {r \in ledger : r.status # "APPLIED"}
      BY <2>2 DEF Waiting
    <3> QED BY <3>1, ItemsGood
  <2>6. /\ p \in Task /\ p.senders = t.senders /\ p.todo = Items(rows) /\ p.mode = t.mode
        /\ p.owner = t.owner /\ p.handle = t.handle
    BY <2>3, <2>5 DEF Task
  <2>7. Loops(p)
    BY <2>1, <2>5, <2>6, ItemsListed DEF Loops
  <2>8. \A r \in rows : [id |-> r.id, message |-> r.message] \in p.todo
    BY <2>6 DEF Items
  <2>9. \A s \in Scout, r \in Waiting :
            Claimed(t, r, s) => p.mode = "own" /\ p.owner = s /\ Later(p, r)
    BY <2>1, <2>2, <2>6, <2>8 DEF Claimed, Later
  <2> QED BY <1>1, <1>2, <2>1, <2>4, <2>6, <2>7, <2>9, ResumeLinked
<1>7. CASE FetchInbox(w)
  <2>1. t.pc = "fetch" /\ t.mode = "sync" /\ Loops(t)
    BY <1>2, <1>7 DEF FetchInbox, At, Linking
  <2>2. PICK p : p = [t EXCEPT !.mode = "inbox", !.todo = Inbox]
    OBVIOUS
  <2>3. PICK u \in After(p) : task' = [task EXCEPT ![w] = u]
    BY <1>2, <1>7, <2>2 DEF FetchInbox, Resume, Become
  <2>4. Inbox \subseteq Item /\ \A it \in Inbox : it.id = 0
    BY ItemsGood
  <2>5. /\ p \in Task /\ p.senders = t.senders /\ p.todo = Inbox /\ p.mode = "inbox"
        /\ p.owner = t.owner
    BY <2>2, <2>4 DEF Task, Mode
  <2>6. Loops(p)
    BY <2>1, <2>4, <2>5 DEF Loops, Listed
  <2>7. \A s, r : ~Claimed(t, r, s)
    BY <2>1 DEF Claimed
  <2> QED BY <1>1, <1>2, <1>3, <2>3, <2>5, <2>6, <2>7, ResumeLinked
<1>8. CASE SkipSeen(w)
  <2>1. t.pc = "seen" /\ Loops(t)
    BY <1>2, <1>8 DEF SkipSeen, At
  <2>2. PICK u \in After(t) : task' = [task EXCEPT ![w] = u]
    BY <1>2, <1>8 DEF SkipSeen, Resume, Become
  <2>3. \A s, r : Claimed(t, r, s) => t.mode = "own" /\ t.owner = s /\ Later(t, r)
    BY <2>1 DEF Claimed
  <2> QED BY <1>1, <1>2, <1>3, <2>1, <2>2, <2>3, ResumeLinked
<1> QED BY <1>4, <1>5, <1>6, <1>7, <1>8

\* A run that is refused claimed nothing.
LEMMA RefusedLinked ==
    ASSUME OneAtATime, IInv, HInv, NEW w \in Worker, HandleTaken(w) \/ LinkRefused(w)
    PROVE  HInv'
<1>1. UNCHANGED <<users, ledger, entitled>> /\ Become(w, Idle)
  BY DEF HandleTaken, LinkRefused, tables, world
<1>2. PICK t \in Task : t = task[w] /\ Shape(t) /\ Linking(t)
                        /\ (t.pc \notin {"idle", "handle", "claim"} => Loops(t))
  BY OwnLinked
<1>3. CASE HandleTaken(w)
  <2>1. t.pc = "handle" /\ t.senders = {} /\ t.todo = {}
    BY <1>2, <1>3 DEF HandleTaken, At, Linking, Following
  <2>2. \A s, r : ~Claimed(t, r, s)
    BY <2>1 DEF Claimed, Later
  <2> QED BY <1>1, <1>2, <2>2, EndLinked
<1>4. CASE LinkRefused(w)
  <2>1. /\ t.pc = "link" /\ LinkClash(t) /\ t.had = users[t.owner].handle
        /\ Holding("igId", t.sender) \subseteq {t.owner} /\ Loops(t) /\ t.owner \in Scout
    BY <1>2, <1>4 DEF LinkRefused, At, Linking, Shape, Following
  <2>2. t.mode # "own"
    <3> SUFFICES ASSUME t.mode = "own" PROVE FALSE
      OBVIOUS
    <3>1. Adopted(t) = users[t.owner].handle /\ Adopted(t) # None
      BY <2>1 DEF Adopted, Loops
    <3>2. Holding("handle", Adopted(t)) \subseteq {t.owner}
      BY <2>1, <3>1 DEF Holding, IInv, Stored, UsersOK
    <3> QED BY <2>1, <3>2 DEF LinkClash
  <2>3. \A s, r : ~Claimed(t, r, s)
    BY <2>2 DEF Claimed
  <2> QED BY <1>1, <1>2, <2>3, EndLinked
<1> QED BY <1>3, <1>4

LEMMA PutHandleLinked ==
    ASSUME OneAtATime, IInv, HInv, NEW w \in Worker, PutHandle(w)
    PROVE  HInv'
<1>1. PICK t \in Task : t = task[w] /\ Shape(t) /\ Linking(t)
  BY OwnLinked
<1>2. PICK s \in Scout : s = t.owner /\ t.pc = "handle" /\ t.senders = {} /\ t.todo = {}
                          /\ t.had = users[s].handle
  BY <1>1 DEF PutHandle, At, Shape, Linking, Following
<1>3. PICK v : /\ v = [handle |-> t.handle,
                       igId |-> IF t.handle = t.had THEN users[s].igId ELSE None,
                       own |-> t.mode = "own"]
               /\ users' = [users EXCEPT ![s] = v]
  BY <1>1, <1>2 DEF PutHandle
<1>4. /\ v.handle = t.handle /\ (v.own <=> t.mode = "own")
      /\ v.igId # None => v.igId = users[s].igId /\ t.handle = users[s].handle
  BY <1>2, <1>3
<1>5. /\ users'[s] = v /\ \A z \in Scout : z # s => users'[z] = users[z]
      /\ ledger' = ledger /\ entitled \subseteq entitled'
  BY <1>1, <1>2, <1>3 DEF PutHandle, Entitle, IInv, Stored, UsersOK
<1>6. IdsRight'
  <2> SUFFICES ASSUME NEW z \in Scout, NEW i \in Sender, users'[z].igId = i
               PROVE  Linkable(z, i)'
    BY DEF IdsRight
  <2>1. users[z].igId = i /\ users'[z].handle = users[z].handle
    BY <1>4, <1>5, NoneAssumption
  <2>2. Linkable(z, i)
    BY <2>1 DEF HInv, IdsRight
  <2> QED BY <1>5, <2>1, <2>2, LinkableStays
<1>7. \A z, r : ~Claimed(t, r, z)
  BY <1>2 DEF Claimed, Later
<1>8. CASE t.mode = "own"
  <2>1. PICK u : u = [t EXCEPT !.pc = "claim", !.handle = None, !.had = None]
    OBVIOUS
  <2>2. u.pc = "claim" /\ u.mode = "own" /\ u.owner = s /\ u.senders = {} /\ u.todo = {}
    BY <1>2, <1>8, <2>1 DEF Task
  <2>3. task' = [task EXCEPT ![w] = u]
    BY <1>1, <1>8, <2>1 DEF PutHandle, Become
  <2>4. Linking(u)'
    BY <2>2 DEF Linking
  <2>5. \A z \in Scout, r \in Waiting :
            Matches(z, r)' => Claimed(u, r, z) \/ (Matches(z, r) /\ ~Claimed(task[w], r, z))
    BY <1>1, <1>5, <1>7, <2>2 DEF Matches, Claimed
  <2> QED BY <1>5, <1>6, <2>3, <2>4, <2>5, LinkedStep
<1>9. CASE t.mode # "own"
  <2>1. task' = [task EXCEPT ![w] = Idle]
    BY <1>1, <1>9 DEF PutHandle, Become
  <2>2. \A z \in Scout, r \in Waiting :
            Matches(z, r)' => Matches(z, r) /\ ~Claimed(task[w], r, z)
    BY <1>1, <1>4, <1>5, <1>7, <1>9 DEF Matches
  <2> QED BY <1>5, <1>6, <2>1, <2>2, IdleLinked, LinkedStep
<1> QED BY <1>8, <1>9

\* A step that gives a scout an id, or takes it, and leaves the handles a scout set.
LEMMA AccountLinked ==
    ASSUME OneAtATime, IInv, HInv, ledger' = ledger, entitled \subseteq entitled',
           \A s \in Scout : users'[s].own => users[s].own /\ users'[s].handle = users[s].handle,
           IdsRight', NEW w \in Worker, NEW u, task' = [task EXCEPT ![w] = u], Linking(u)',
           \A s, r : Claimed(task[w], r, s) => Claimed(u, r, s)
    PROVE  HInv'
<1>1. \A s \in Scout, r \in Waiting :
          Matches(s, r)' => Claimed(u, r, s) \/ (Matches(s, r) /\ ~Claimed(task[w], r, s))
  BY DEF Matches
<1> QED BY <1>1, LinkedStep

LEMMA ReleaseLinked ==
    ASSUME OneAtATime, IInv, HInv, NEW w \in Worker, Release(w)
    PROVE  HInv'
<1>1. PICK t \in Task : t = task[w] /\ Shape(t) /\ Linking(t)
                        /\ (t.pc \notin {"idle", "handle", "claim"} => Loops(t))
  BY OwnLinked
<1>2. t.pc = "release" /\ t.owner \in Scout /\ t.todo = {} /\ Loops(t)
  BY <1>1 DEF Release, At, Shape, Linking, Following
<1>3. PICK i \in t.senders :
          /\ Become(w, [t EXCEPT !.pc = "link", !.sender = i, !.senders = @ \ {i},
                                 !.had = users[t.owner].handle])
          /\ users' = [s \in Scout |-> IF users[s].igId = i /\ s # t.owner
                                       THEN [users[s] EXCEPT !.igId = None] ELSE users[s]]
          /\ ledger' = ledger /\ entitled' = entitled
  BY <1>1 DEF Release, world
<1>4. PICK u : u = [t EXCEPT !.pc = "link", !.sender = i, !.senders = @ \ {i},
                             !.had = users[t.owner].handle]
  OBVIOUS
<1>5. /\ u.pc = "link" /\ u.sender = i /\ u.senders = t.senders \ {i} /\ u.mode = t.mode
      /\ u.had = users[t.owner].handle /\ u.owner = t.owner /\ u.handle = t.handle /\ u.todo = {}
  BY <1>2, <1>4 DEF Task
<1>6. \A s \in Scout : /\ users'[s].own = users[s].own /\ users'[s].handle = users[s].handle
                       /\ users'[s].igId # None => users'[s].igId = users[s].igId
                       /\ users'[s].igId = i => s = t.owner
  <2>1. i # None
    BY <1>3, NoneAssumption DEF Task
  <2>2. users \in [Scout -> [handle : Handle \cup {None}, igId : Sender \cup {None}, own : BOOLEAN]]
    BY DEF IInv, Stored, UsersOK
  <2> QED BY <1>3, <2>1, <2>2
<1>7. IdsRight'
  <2> SUFFICES ASSUME NEW s \in Scout, NEW j \in Sender, users'[s].igId = j
               PROVE  Linkable(s, j)'
    BY DEF IdsRight
  <2>1. Linkable(s, j)
    BY <1>6, NoneAssumption DEF HInv, IdsRight
  <2> QED BY <1>3, <1>6, <2>1, LinkableStays
<1>8. \A j : Linkable(t.owner, j) => Linkable(t.owner, j)'
  BY <1>2, <1>3, <1>6, LinkableStays
<1>9. Loops(u)'
  BY <1>2, <1>5, <1>6, <1>8 DEF Loops
<1>10. Holding("igId", i)' \subseteq {t.owner}
  BY <1>6 DEF Holding
<1>11. Linking(u)'
  BY <1>2, <1>3, <1>5, <1>6, <1>8, <1>9, <1>10 DEF Linking, Loops
<1>12. \A s, r : Claimed(t, r, s) => Claimed(u, r, s)
  BY <1>2, <1>5 DEF Claimed, Later
<1>13. task' = [task EXCEPT ![w] = u]
  BY <1>3, <1>4 DEF Become
<1> QED BY <1>1, <1>3, <1>6, <1>7, <1>11, <1>12, <1>13, AccountLinked

LEMMA LinkLinked ==
    ASSUME OneAtATime, IInv, HInv, NEW w \in Worker, Link(w)
    PROVE  HInv'
<1>1. PICK t \in Task : t = task[w] /\ Shape(t) /\ Linking(t)
                        /\ (t.pc \notin {"idle", "handle", "claim"} => Loops(t))
  BY OwnLinked
<1>2. PICK s \in Scout : /\ s = t.owner /\ t.pc = "link" /\ t.todo = {} /\ Loops(t)
                         /\ t.had = users[s].handle /\ Linkable(s, t.sender) /\ t.sender \in Sender
  BY <1>1 DEF Link, At, Shape, Linking, Following
<1>3. PICK h : h = Adopted(t)
  OBVIOUS
<1>4. h # users[s].handle => users[s].handle = None
  BY <1>2, <1>3 DEF Adopted
<1>5. PICK v : /\ v = [handle |-> h, igId |-> t.sender, own |-> users[s].own /\ h = users[s].handle]
               /\ users' = [users EXCEPT ![s] = v]
  BY <1>1, <1>2, <1>3 DEF Link
<1>6. v.handle = h /\ v.igId = t.sender /\ (v.own => users[s].own /\ h = users[s].handle)
  BY <1>5
<1>7. /\ users'[s] = v /\ \A z \in Scout : z # s => users'[z] = users[z]
      /\ ledger' = ledger /\ entitled \subseteq entitled'
  BY <1>1, <1>2, <1>5 DEF Link, Entitle, IInv, Stored, UsersOK
<1>8. ASSUME NEW i \in Sender, Linkable(s, i)
      PROVE  Linkable(s, i)'
  <2>1. UsernameOf[i] # None
    BY MessageAssumption, NoneAssumption
  <2> QED BY <1>4, <1>6, <1>7, <1>8, <2>1 DEF Linkable
<1>9. IdsRight'
  <2> SUFFICES ASSUME NEW z \in Scout, NEW i \in Sender, users'[z].igId = i
               PROVE  Linkable(z, i)'
    BY DEF IdsRight
  <2>1. CASE z = s
    BY <1>2, <1>6, <1>7, <1>8, <2>1
  <2>2. CASE z # s
    <3>1. Linkable(z, i)
      BY <1>7, <2>2 DEF HInv, IdsRight
    <3> QED BY <1>7, <2>2, <3>1, LinkableStays
  <2> QED BY <2>1, <2>2
<1>10. PICK u : u = [t EXCEPT !.pc = "pending", !.had = None]
  OBVIOUS
<1>11. /\ u.pc = "pending" /\ u.sender = t.sender /\ u.senders = t.senders /\ u.mode = t.mode
       /\ u.owner = s /\ u.handle = t.handle /\ u.todo = {}
  BY <1>2, <1>10 DEF Task
<1>12. task' = [task EXCEPT ![w] = u]
  BY <1>1, <1>10 DEF Link, Become
<1>13. Loops(u)'
  <2>1. \A i \in u.senders : Linkable(s, i)'
    BY <1>2, <1>8, <1>11 DEF Loops, Task
  <2>2. t.mode = "own" => t.handle # None /\ users'[s].handle = t.handle
    BY <1>2, <1>4, <1>6, <1>7 DEF Loops
  <2> QED BY <1>11, <2>1, <2>2 DEF Loops
<1>14. Linking(u)'
  BY <1>11, <1>13 DEF Linking, Loops
<1>15. \A z, r : Claimed(t, r, z) => Claimed(u, r, z)
  BY <1>2, <1>11 DEF Claimed, Later
<1>16. \A z \in Scout : users'[z].own => users[z].own /\ users'[z].handle = users[z].handle
  BY <1>6, <1>7
<1> QED BY <1>1, <1>7, <1>9, <1>12, <1>14, <1>15, <1>16, AccountLinked

-----------------------------------------------------------------------------
(* Ingesting.                                                              *)

\* On with the same message: what the run carries does not change.
Onward == {"seen", "cached", "lookup", "cache"} \cup Filing \cup Recording
Moves(t, u) ==
    /\ t.pc \in Onward /\ u.pc \in Onward
    /\ u.mode = t.mode /\ u.owner = t.owner /\ u.handle = t.handle
    /\ u.senders = t.senders /\ u.todo = t.todo

LEMMA OnwardLinked ==
    ASSUME IInv, HInv, NEW w \in Worker, NEW t, t = task[w], NEW u, Moves(t, u),
           u.pc = "cache" => users[u.cur.scout].handle = UsernameOf[SenderOf[u.cur.message]],
           u.pc = "unmatched" => Holding("handle", UsernameOf[SenderOf[u.cur.message]]) = {}
    PROVE  Linking(u) /\ \A s, r : Claimed(t, r, s) => Claimed(u, r, s)
<1>1. Loops(t)
  BY OwnLinked DEF Moves, Onward, Filing, Recording
<1>2. Loops(u)
  BY <1>1 DEF Moves, Loops
<1>3. Linking(u)
  BY <1>2 DEF Moves, Linking, Onward, Filing, Recording, Following
<1>4. \A s, r : Claimed(t, r, s) => Claimed(u, r, s)
  BY DEF Moves, Claimed, Later, Onward, Filing, Recording
<1> QED BY <1>3, <1>4

LEMMA StepLinked ==
    ASSUME OneAtATime, IInv, HInv, UNCHANGED <<users, ledger, entitled>>, NEW w \in Worker,
           NEW u, task' = [task EXCEPT ![w] = u], Moves(task[w], u),
           u.pc = "cache" => users[u.cur.scout].handle = UsernameOf[SenderOf[u.cur.message]],
           u.pc = "unmatched" => Holding("handle", UsernameOf[SenderOf[u.cur.message]]) = {}
    PROVE  HInv'
<1>1. PICK t : t = task[w]
  OBVIOUS
<1>2. Linking(u) /\ \A s, r : Claimed(t, r, s) => Claimed(u, r, s)
  BY <1>1, OnwardLinked
<1> QED BY <1>1, <1>2, SameLinking, LocalLinked

LEMMA GotoLinked ==
    ASSUME OneAtATime, IInv, HInv, UNCHANGED <<users, ledger, entitled>>, NEW w \in Worker,
           task[w].pc \in Onward, NEW pc \in Onward \ {"cache", "unmatched"}, Goto(w, pc)
    PROVE  HInv'
<1>1. PICK u : u = [task[w] EXCEPT !.pc = pc]
  OBVIOUS
<1>2. u.pc = pc /\ Moves(task[w], u)
  BY <1>1, Own DEF Task, Moves
<1> QED BY <1>1, <1>2, StepLinked DEF Goto, Become

\* A scout is found.
LEMMA PlaceMoves ==
    ASSUME IInv, NEW w \in Worker, task[w].pc \in Onward, NEW s, NEW n, Place(w, s, n)
    PROVE  \E u : /\ task' = [task EXCEPT ![w] = u] /\ Moves(task[w], u)
                  /\ u.pc \in {"nolinks", "half"}
<1>1. PICK t \in Task : t = task[w]
  BY Own
<1>2. PICK kinds : kinds = Shares[t.cur.message]
  OBVIOUS
<1>3. PICK pc : pc = IF kinds = {} THEN "nolinks" ELSE "half"
  OBVIOUS
<1>4. PICK u : u = [t EXCEPT !.pc = pc, !.cur.scout = s, !.cur.username = n, !.cur.kinds = kinds]
  OBVIOUS
<1>5. task' = [task EXCEPT ![w] = u]
  BY <1>1, <1>2, <1>3, <1>4 DEF Place, Become
<1>6. /\ u.pc = pc /\ u.mode = t.mode /\ u.owner = t.owner /\ u.handle = t.handle
      /\ u.senders = t.senders /\ u.todo = t.todo
  BY <1>4 DEF Task
<1>7. pc \in {"nolinks", "half"}
  BY <1>3
<1> QED BY <1>1, <1>5, <1>6, <1>7 DEF Moves, Onward, Filing, Recording

LEMMA CacheLinked ==
    ASSUME OneAtATime, IInv, HInv, NEW w \in Worker, CacheId(w)
    PROVE  HInv'
<1>1. PICK t \in Task : t = task[w] /\ Shape(t) /\ Linking(t)
  BY OwnLinked
<1>2. PICK c \in Cur : c = t.cur
  BY DEF Task
<1>3. /\ t.pc = "cache" /\ c.scout \in Scout /\ users[c.scout].handle = UsernameOf[SenderOf[c.message]]
      /\ c.message \in Message /\ SenderOf[c.message] \in Sender
  BY <1>1, <1>2, MessageAssumption DEF CacheId, At, Shape, Placing, Ingesting, Linking
<1>4. PICK i \in Sender : i = SenderOf[c.message]
  BY <1>3
<1>5. users' = users \/ users' = [users EXCEPT ![c.scout].igId = i]
  BY <1>1, <1>2, <1>4 DEF CacheId
<1>6. ledger' = ledger /\ entitled' = entitled
  BY DEF CacheId, world
<1>7. /\ \A s \in Scout : users'[s].own = users[s].own /\ users'[s].handle = users[s].handle
      /\ \A s \in Scout : users'[s].igId # users[s].igId => s = c.scout /\ users'[s].igId = i
  BY <1>3, <1>5 DEF IInv, Stored, UsersOK
<1>8. IdsRight'
  <2> SUFFICES ASSUME NEW s \in Scout, NEW j \in Sender, users'[s].igId = j
               PROVE  Linkable(s, j)'
    BY DEF IdsRight
  <2>1. Linkable(s, j)
    BY <1>3, <1>4, <1>7 DEF HInv, IdsRight, Linkable
  <2> QED BY <1>6, <1>7, <2>1, LinkableStays
<1>9. PICK u : /\ task' = [task EXCEPT ![w] = u] /\ Moves(t, u) /\ u.pc \in {"nolinks", "half"}
  BY <1>1, <1>3, PlaceMoves DEF CacheId, Onward
<1>10. Linking(u) /\ \A s, r : Claimed(t, r, s) => Claimed(u, r, s)
  BY <1>1, <1>9, OnwardLinked
<1>11. u.senders # {} => u.owner \in Scout
  BY <1>1, <1>9, Own DEF Carry, Moves
<1>12. Loops(u)
  BY <1>9, <1>10 DEF Linking
<1>13. Loops(u)'
  <2>1. \A j \in u.senders : Linkable(u.owner, j)'
    BY <1>6, <1>7, <1>11, <1>12, LinkableStays DEF Loops
  <2> QED BY <1>6, <1>7, <1>12, <2>1 DEF Loops, Listed
<1>14. Linking(u)'
  BY <1>9, <1>13 DEF Linking, Loops, Following
<1> QED BY <1>1, <1>6, <1>7, <1>8, <1>9, <1>10, <1>14, AccountLinked

LEMMA SoughtLinked ==
    ASSUME OneAtATime, IInv, HInv, NEW w \in Worker,
           NotSeen(w) \/ NotCached(w) \/ FindCached(w) \/ MatchHandle(w)
    PROVE  HInv'
<1>1. UNCHANGED <<users, ledger, entitled>> /\ task[w].pc \in Onward
  BY DEF NotSeen, NotCached, FindCached, MatchHandle, tables, world, At, Onward
<1>2. CASE NotSeen(w) \/ NotCached(w)
  <2>1. PICK pc \in {"cached", "lookup"} : Goto(w, pc)
    BY <1>2 DEF NotSeen, NotCached
  <2> QED BY <1>1, <2>1, GotoLinked DEF Onward
<1>3. CASE FindCached(w)
  <2>1. PICK s, n : Place(w, s, n)
    BY <1>3 DEF FindCached
  <2>2. PICK u : /\ task' = [task EXCEPT ![w] = u] /\ Moves(task[w], u)
                 /\ u.pc \in {"nolinks", "half"}
    BY <1>1, <2>1, PlaceMoves
  <2> QED BY <1>1, <2>2, StepLinked
<1>4. CASE MatchHandle(w)
  <2>1. PICK t \in Task : t = task[w]
    BY Own
  <2>2. PICK c \in Cur : c = t.cur
    BY DEF Task
  <2>3. PICK n : n = UsernameOf[SenderOf[c.message]]
    OBVIOUS
  <2>4. CASE Holding("handle", n) # {}
    <3>1. PICK s \in Holding("handle", n) :
              Become(w, [t EXCEPT !.pc = "cache", !.cur.scout = s, !.cur.username = n])
      BY <1>4, <2>1, <2>2, <2>3, <2>4 DEF MatchHandle
    <3>2. PICK u : u = [t EXCEPT !.pc = "cache", !.cur.scout = s, !.cur.username = n]
      OBVIOUS
    <3>3. /\ u.pc = "cache" /\ u.cur.scout = s /\ u.cur.message = c.message
          /\ u.mode = t.mode /\ u.owner = t.owner /\ u.handle = t.handle
          /\ u.senders = t.senders /\ u.todo = t.todo
      BY <2>2, <3>2 DEF Task, Cur
    <3>4. Moves(t, u) /\ users[s].handle = n
      BY <1>1, <2>1, <3>1, <3>3 DEF Moves, Onward, Holding
    <3> QED BY <1>1, <2>1, <2>3, <3>1, <3>2, <3>3, <3>4, StepLinked DEF Become
  <2>5. CASE Holding("handle", n) = {}
    <3>1. PICK u : u = [t EXCEPT !.pc = "unmatched", !.cur.username = n]
      OBVIOUS
    <3>2. task' = [task EXCEPT ![w] = u]
      BY <1>4, <2>1, <2>2, <2>3, <2>5, <3>1 DEF MatchHandle, Become
    <3>3. /\ u.pc = "unmatched" /\ u.cur.message = c.message
          /\ u.mode = t.mode /\ u.owner = t.owner /\ u.handle = t.handle
          /\ u.senders = t.senders /\ u.todo = t.todo
      BY <2>2, <3>1 DEF Task, Cur
    <3>4. Moves(t, u)
      BY <1>1, <2>1, <3>3 DEF Moves, Onward, Recording
    <3> QED BY <1>1, <2>1, <2>3, <2>5, <3>2, <3>3, <3>4, StepLinked
  <2> QED BY <2>4, <2>5
<1> QED BY <1>2, <1>3, <1>4

LEMMA RowLinked ==
    ASSUME OneAtATime, IInv, HInv, NEW w \in Worker,
           FindHalf(w) \/ ReadRowNumber(w) \/ RowClash(w) \/ FillHalf(w) \/ CreateRow(w)
    PROVE  HInv'
<1>1. UNCHANGED <<users, ledger, entitled>> /\ task[w].pc \in Onward
  BY DEF FindHalf, ReadRowNumber, RowClash, FillHalf, CreateRow, tables, world, At, Onward, Filing
<1>2. PICK t \in Task : t = task[w]
  BY Own
<1>3. CASE RowClash(w) \/ Goto(w, "number")
  BY <1>1, <1>3, GotoLinked DEF RowClash, Onward, Filing, Recording
<1>4. CASE FindHalf(w) /\ ~Goto(w, "number")
  <2>1. PICK n : Become(w, [t EXCEPT !.pc = "fill", !.cur.row = n])
    BY <1>2, <1>4 DEF FindHalf
  <2>2. PICK u : u = [t EXCEPT !.pc = "fill", !.cur.row = n]
    OBVIOUS
  <2>3. u.pc = "fill" /\ Moves(t, u)
    BY <1>1, <1>2, <2>2 DEF Task, Moves, Onward, Filing
  <2> QED BY <1>1, <1>2, <2>1, <2>2, <2>3, StepLinked DEF Become
<1>5. CASE ReadRowNumber(w)
  <2>1. PICK u : u = [t EXCEPT !.pc = "create", !.cur.attempt = @ + 1,
                               !.cur.row = LastRowNumber(t.cur.scout)]
    OBVIOUS
  <2>2. u.pc = "create" /\ Moves(t, u)
    BY <1>1, <1>2, <2>1 DEF Task, Moves, Onward, Filing
  <2>3. task' = [task EXCEPT ![w] = u]
    BY <1>2, <1>5, <2>1 DEF ReadRowNumber, Become
  <2> QED BY <1>1, <1>2, <2>2, <2>3, StepLinked
<1>6. CASE FillHalf(w) \/ CreateRow(w)
  <2>1. PICK n : Filed(w, n)
    BY <1>6 DEF FillHalf, CreateRow
  <2>2. PICK rest : rest = t.cur.kinds \ {NextKind(t.cur.kinds)}
    OBVIOUS
  <2>3. PICK pc : pc = IF rest = {} THEN "applied" ELSE "half"
    OBVIOUS
  <2>4. PICK u : u = [t EXCEPT !.pc = pc, !.cur.kinds = rest, !.cur.row = n, !.cur.attempt = 0]
    OBVIOUS
  <2>5. task' = [task EXCEPT ![w] = u]
    BY <1>2, <2>1, <2>2, <2>3, <2>4 DEF Filed, Become
  <2>6. u.pc \in {"applied", "half"} /\ Moves(t, u)
    <3>1. pc \in {"applied", "half"}
      BY <2>3
    <3> QED BY <1>1, <1>2, <2>4, <3>1 DEF Task, Moves, Onward, Filing, Recording
  <2> QED BY <1>1, <1>2, <2>5, <2>6, StepLinked
<1> QED BY <1>3, <1>4, <1>5, <1>6 DEF FindHalf

\* The row of a message to be filed again is there, and is taken.
LEMMA DropLinked ==
    ASSUME OneAtATime, IInv, HInv, NEW w \in Worker, Drop(w)
    PROVE  HInv'
<1>1. PICK t \in Task : t = task[w] /\ Linking(t)
                        /\ (t.pc \notin {"idle", "handle", "claim"} => Loops(t))
  BY OwnLinked
<1>2. t.pc = "drop" /\ Loops(t)
  BY <1>1 DEF Drop, At
<1>3. PICK q \in ledger : q.id = t.cur.id /\ ledger' = ledger \ {q}
  BY <1>1 DEF Drop
<1>4. UNCHANGED <<users, entitled>>
  BY DEF Drop, world
<1>5. PICK u : u = [t EXCEPT !.pc = "seen", !.cur.id = 0]
  OBVIOUS
<1>6. /\ u.pc = "seen" /\ u.mode = t.mode /\ u.owner = t.owner /\ u.handle = t.handle
      /\ u.senders = t.senders /\ u.todo = t.todo
  BY <1>5 DEF Task
<1>7. \A v \in Worker : task'[v] = u /\ v = w
  BY <1>1, <1>5 DEF Drop, Become, IInv, Tasks, OneAtATime, OneHandler
<1>8. \A it \in t.todo : Listed(it)'
  BY <1>1, <1>2, <1>3 DEF Loops, Linking, Listed
<1>9. Loops(u)'
  BY <1>2, <1>4, <1>6, <1>8 DEF Loops, Linkable
<1>10. Linking(u)'
  BY <1>6, <1>9 DEF Linking, Loops, Following
<1>11. IdsRight'
  BY <1>4 DEF HInv, IdsRight, Linkable
<1>12. ASSUME NEW s \in Scout, NEW r \in Waiting', Matches(s, r)'
       PROVE  \E v \in Worker : Claimed(task[v], r, s)'
  <2>1. r \in Waiting /\ r # q /\ Matches(s, r)
    BY <1>3, <1>4, <1>12 DEF Waiting, Matches
  <2>2. r.id # t.cur.id
    BY <1>3, <2>1 DEF Waiting, IInv, Stored, LedgerOK
  <2>3. Claimed(t, r, s)
    BY <1>1, <1>7, <2>1 DEF HInv, Served
  <2>4. Claimed(task'[w], r, s)
    BY <1>2, <1>6, <1>7, <2>2, <2>3 DEF Claimed, Later
  <2> QED BY <2>4 DEF Claimed, Later
<1> QED BY <1>3, <1>7, <1>10, <1>11, <1>12 DEF HInv, Served, Linking, Loops

LEMMA RecordLinked ==
    ASSUME OneAtATime, IInv, FInv, HInv, NEW w \in Worker, Record(w)
    PROVE  HInv'
<1>1. PICK t \in Task : t = task[w] /\ Linking(t)
                        /\ (t.pc \notin {"idle", "handle", "claim"} => Loops(t))
                        /\ (t.senders # {} => t.owner \in Scout) /\ t.pc # "failed"
  BY OwnLinked, Own DEF Carry, FInv, Steady
<1>2. t.pc \in Recording /\ Loops(t)
  BY <1>1 DEF Record, Recording
<1>3. PICK e : e = LedgerEntry(t) /\ ledger' = ledger \cup {e}
  BY <1>1 DEF Record
<1>4. PICK u \in After(t) : task' = [task EXCEPT ![w] = u]
  BY <1>1 DEF Record, Resume, Become
<1>5. UNCHANGED <<users, entitled>> /\ ledger \subseteq ledger'
  BY <1>3 DEF Record, world
<1>6. e.id # 0 /\ e.message = t.cur.message
      /\ (e.status = "UNMATCHED_SENDER" => t.pc = "unmatched")
  <2>1. Outcome(t.pc) = "UNMATCHED_SENDER" => t.pc = "unmatched"
    BY <1>1, <1>2 DEF Outcome, Recording
  <2> QED BY <1>3, <2>1 DEF LedgerEntry, IInv, Stored, LedgerOK
<1>7. Linking(u) /\ \A s, r : t.mode = "own" /\ t.owner = s /\ r.id # 0 /\ Later(t, r) => Claimed(u, r, s)
  BY <1>1, <1>2, AfterLinked
<1>8. Linking(u)'
  BY <1>5, <1>7 DEF Linking, Loops, Linkable, Listed, Holding
<1>9. \A v \in Worker : task'[v] = u /\ v = w
  BY <1>4 DEF IInv, Tasks, OneAtATime, OneHandler
<1>10. IdsRight'
  BY <1>5 DEF HInv, IdsRight, Linkable
<1>11. ASSUME NEW s \in Scout, NEW r \in Waiting', Matches(s, r)'
       PROVE  \E v \in Worker : Claimed(task[v], r, s)'
  <2>1. Matches(s, r)
    BY <1>5, <1>11 DEF Matches
  <2>2. r # e
    <3> SUFFICES ASSUME r = e PROVE FALSE
      OBVIOUS
    <3>1. t.pc = "unmatched"
      BY <1>6 DEF Waiting
    <3> QED BY <1>1, <1>6, <2>1, <3>1 DEF Linking, Holding, Matches
  <2>3. r \in Waiting
    BY <1>3, <2>2 DEF Waiting
  <2>4. Claimed(t, r, s) /\ r.id # 0
    BY <1>1, <1>9, <2>1, <2>3 DEF HInv, Served, Waiting
  <2>5. t.mode = "own" /\ t.owner = s /\ Later(t, r)
    BY <1>2, <2>4 DEF Claimed, Recording
  <2>6. Claimed(task'[w], r, s)
    BY <1>7, <1>9, <2>4, <2>5
  <2> QED BY <2>6 DEF Claimed, Later
<1> QED BY <1>3, <1>6, <1>8, <1>9, <1>10, <1>11 DEF HInv, Served, Linking, Loops

-----------------------------------------------------------------------------

LEMMA InitLinked == Init => HInv
<1> SUFFICES ASSUME Init PROVE HInv
  OBVIOUS
<1>1. \A w \in Worker : Linking(task[w])
  BY IdleLinked DEF Init
<1>2. \A r \in ledger : r.status = "NO_LINKS" /\ r.id # 0
  <2>1. PICK order \in [Dropped -> 1 .. Cardinality(Dropped)] :
            ledger = {DroppedRow(m, order[m]) : m \in Dropped}
    BY DEF Init
  <2>2. Cardinality(Dropped) \in Nat
    BY MessageAssumption, FS_CardinalityType
  <2>3. \A m \in Dropped : order[m] # 0
    BY <2>1, <2>2
  <2> QED BY <2>1, <2>3 DEF DroppedRow
<1>3. Waiting = {}
  BY <1>2 DEF Waiting
<1>4. IdsRight
  BY NoneAssumption DEF Init, IdsRight
<1> QED BY <1>1, <1>2, <1>3, <1>4 DEF HInv, Served

LEMMA NextLinked == OneAtATime /\ IInv /\ FInv /\ HInv /\ [Next]_vars => HInv'
<1> SUFFICES ASSUME OneAtATime, IInv, FInv, HInv, [Next]_vars PROVE HInv'
  OBVIOUS
<1>1. ~Fault
  BY NoFault
<1>2. ASSUME NEW w \in Worker, Continue(w) PROVE HInv'
  <2>1. ~CallFails(w) /\ ~LookupFails(w)
    BY <1>1 DEF CallFails, LookupFails
  <2>2. ~RecordClash(w)
    BY DEF RecordClash, FInv, Steady
  <2>3. ~DropMissing(w)
    <3>1. Linking(task[w])
      BY OwnLinked
    <3> QED BY <3>1 DEF DropMissing, At, Linking, Listed
  <2> QED BY <1>2, <2>1, <2>2, <2>3, ReadLinked, RefusedLinked, PutHandleLinked, ReleaseLinked,
             LinkLinked, CacheLinked, SoughtLinked, RowLinked, DropLinked, RecordLinked
          DEF Continue, Ingest
<1>3. ASSUME NEW w \in Worker,
             \/ Deliver(w) \/ Tick(w) \/ RefileAtBoot(w) \/ ManualSync(w) \/ Assign(w)
             \/ \E mode \in {"own", "admin"} : StartSetHandle(w, mode)
      PROVE  HInv'
  BY <1>3, StartLinked, RequestLinked
<1>4. CASE UNCHANGED vars \/ (\E m \in Message : Send(m)) \/ (\E n \in DOMAIN sheet : Age(n))
  <2>1. UNCHANGED <<users, ledger, entitled, task>>
    BY <1>4 DEF vars, Send, Age, tables, world
  <2> QED BY <2>1 DEF HInv, IdsRight, Served, Matches, Claimed, Later, Waiting, Linking, Loops,
                       Linkable, Listed, Holding
<1>5. ~Restart /\ \A i \in Sender : ~Forget(i)
  BY <1>1 DEF Restart, Forget, OneAtATime
<1> QED BY <1>2, <1>3, <1>4, <1>5 DEF Next

LEMMA LinkedImplies == IInv /\ HInv => HandleRules
<1> SUFFICES ASSUME IInv, HInv, Quiet, NEW s \in Scout
             PROVE  /\ \A i \in Sender : users[s].igId = i =>
                          UsernameOf[i] = users[s].handle \/ <<s, i, "assigned">> \in entitled
                    /\ \A r \in Waiting : users[s].own =>
                          users[s].handle # UsernameOf[SenderOf[r.message]]
  BY DEF HandleRules
<1>1. \A w \in Worker : task[w] = Idle
  BY OwnLinked DEF Quiet, Shape
<1>2. \A w \in Worker, r \in Waiting : ~Claimed(task[w], r, s)
  BY <1>1, IdleLinked
<1> QED BY <1>2 DEF HInv, IdsRight, Linkable, Served, Matches

\* With one handler at a time that no call fails and nothing is erased, a handle decides
\* what follows: the cached id is that of the scout's handle unless an admin assigned
\* it, and of the handle a scout set nothing stays unmatched.
\* (instagram-dm.service.ts claimForScout, relinkAndReprocess, resolveScout)
THEOREM HandleDecides == OneAtATime => (SafeSpec => []HandleRules)
<1> SUFFICES ASSUME OneAtATime PROVE SafeSpec => []HandleRules
  OBVIOUS
<1>1. IInv /\ PInv /\ FInv /\ HInv /\ [Next]_vars => HInv'
  BY NextLinked
<1> QED BY <1>1, AlwaysFiled, InitLinked, LinkedImplies, PTL DEF SafeSpec

-----------------------------------------------------------------------------
(* Every handler ends.                                                     *)

\* Which of a handler's loops are still before it: those over the senders it found and over
\* what waits for them, or over the rows to re-file and then over the inbox.
Phase(t) ==
    CASE t.pc = "idle" -> 0
      [] t.pc = "handle" -> 5
      [] t.pc = "claim" -> 4
      [] t.pc = "waiting" -> 3
      [] t.pc = "fetch" -> 2
      [] OTHER -> IF t.mode = "sync" THEN 2 ELSE 1

\* The steps before the messages of a sender are at hand.
Linkage(t) == CASE t.pc = "link" -> 2 [] t.pc = "pending" -> 1 [] OTHER -> 0

Count(kinds) ==
    (IF "profile" \in kinds THEN 1 ELSE 0) + (IF "reel" \in kinds THEN 1 ELSE 0)

\* The calls for the message at hand, at most: a row number is tried three times a share.
Effort(t) ==
    CASE t.pc = "drop" -> 45
      [] t.pc = "seen" -> 44
      [] t.pc = "cached" -> 43
      [] t.pc = "lookup" -> 42
      [] t.pc = "cache" -> 41
      [] t.pc = "half" -> 13 * Count(t.cur.kinds) + 3 * (3 - t.cur.attempt) + 5
      [] t.pc = "create" -> 13 * Count(t.cur.kinds) + 3 * (3 - t.cur.attempt) + 4
      [] t.pc \in {"fill", "number"} -> 13 * Count(t.cur.kinds) + 3 * (3 - t.cur.attempt) + 3
      [] t.pc = "applied" -> 2
      [] t.pc \in {"failed", "unmatched", "nolinks"} -> 1
      [] OTHER -> 0

\* What a handler has left, and the order of that: the first of these to differ decides.
Left(t) == <<Phase(t), Cardinality(t.senders), Linkage(t), Cardinality(t.todo), Effort(t)>>
Below(a, b) == \E i \in 1 .. 5 : a[i] < b[i] /\ \A j \in 1 .. i - 1 : a[j] = b[j]

\* A handler that has begun comes nearer to its end with whatever happens to it.
Shorten ==
    [][\A w \in Worker :
          /\ \A i \in 1 .. 5 : Left(task[w])[i] \in Nat
          /\ task'[w] # task[w] /\ task[w].pc # "idle" => Below(Left(task'[w]), Left(task[w]))]_vars

\* There are finitely many messages and senders.
FiniteInbox == IsFiniteSet(Message) /\ IsFiniteSet(Sender)

Nearer(u, t) == Below(Left(u), Left(t))

LEMMA Lexicographic ==
    ASSUME NEW t, NEW u
    PROVE  /\ Phase(u) < Phase(t) => Nearer(u, t)
           /\ Phase(u) = Phase(t) =>
                 /\ Cardinality(u.senders) < Cardinality(t.senders) => Nearer(u, t)
                 /\ u.senders = t.senders =>
                       /\ Linkage(u) < Linkage(t) => Nearer(u, t)
                       /\ Linkage(u) = Linkage(t) =>
                             /\ Cardinality(u.todo) < Cardinality(t.todo) => Nearer(u, t)
                             /\ u.todo = t.todo /\ Effort(u) < Effort(t) => Nearer(u, t)
<1>1. PICK a : a = Left(u)
  OBVIOUS
<1>2. PICK b : b = Left(t)
  OBVIOUS
<1>3. /\ a[1] = Phase(u) /\ a[2] = Cardinality(u.senders) /\ a[3] = Linkage(u)
      /\ a[4] = Cardinality(u.todo) /\ a[5] = Effort(u)
  BY <1>1 DEF Left
<1>4. /\ b[1] = Phase(t) /\ b[2] = Cardinality(t.senders) /\ b[3] = Linkage(t)
      /\ b[4] = Cardinality(t.todo) /\ b[5] = Effort(t)
  BY <1>2 DEF Left
<1>5. Nearer(u, t) <=> Below(a, b)
  BY <1>1, <1>2 DEF Nearer
<1>6. \A j : /\ j \in 1 .. 1 - 1 => FALSE
             /\ j \in 1 .. 2 - 1 => j = 1
             /\ j \in 1 .. 3 - 1 => j \in {1, 2}
             /\ j \in 1 .. 4 - 1 => j \in {1, 2, 3}
             /\ j \in 1 .. 5 - 1 => j \in {1, 2, 3, 4}
  OBVIOUS
<1>7. a[1] < b[1] => Below(a, b)
  BY <1>6 DEF Below
<1>8. a[1] = b[1] /\ a[2] < b[2] => Below(a, b)
  BY <1>6 DEF Below
<1>9. a[1] = b[1] /\ a[2] = b[2] /\ a[3] < b[3] => Below(a, b)
  BY <1>6 DEF Below
<1>10. a[1] = b[1] /\ a[2] = b[2] /\ a[3] = b[3] /\ a[4] < b[4] => Below(a, b)
  BY <1>6 DEF Below
<1>11. a[1] = b[1] /\ a[2] = b[2] /\ a[3] = b[3] /\ a[4] = b[4] /\ a[5] < b[5] => Below(a, b)
  BY <1>6 DEF Below
<1> QED BY <1>3, <1>4, <1>5, <1>7, <1>8, <1>9, <1>10, <1>11

\* The items of a run have ids that were given, so they are finitely many.
LEMMA TodoFinite ==
    ASSUME IInv, FiniteInbox, NEW w \in Worker
    PROVE  IsFiniteSet(task[w].todo) /\ IsFiniteSet(task[w].senders)
<1>1. PICK t \in Task : t = task[w] /\ Carry(t, entitled, ledger, serial)
  BY DEF IInv, Tasks, Good
<1>2. serial \in Nat /\ IsFiniteSet(0 .. serial)
  BY FS_Interval DEF IInv, Stored, LedgerOK
<1>3. IsFiniteSet((0 .. serial) \X Message)
  BY <1>2, FS_Product DEF FiniteInbox
<1>4. PICK f : f = [it \in t.todo |-> <<it.id, it.message>>]
  OBVIOUS
<1>5. \A it \in t.todo : it \in Item /\ it.id \in 0 .. serial /\ it.message \in Message
  BY <1>1, <1>2 DEF Carry, Unfiled, Task, Item
<1>6. f \in [t.todo -> (0 .. serial) \X Message]
  BY <1>4, <1>5
<1>7. \A i, j \in t.todo : f[i] = f[j] => i = j
  BY <1>4, <1>5 DEF Item
<1>8. f \in Injection(t.todo, (0 .. serial) \X Message)
  BY <1>6, <1>7 DEF Injection, IsInjective
<1>9. IsFiniteSet(t.todo)
  BY <1>3, <1>8, FS_Injection
<1>10. IsFiniteSet(t.senders)
  BY FS_Subset DEF FiniteInbox, Task
<1> QED BY <1>1, <1>9, <1>10

\* Effort, step by step.
LEMMA EffortIs ==
    ASSUME NEW t \in Task, NEW a, NEW k, a = t.cur.attempt, k = Count(t.cur.kinds)
    PROVE  /\ a \in 0 .. 3 /\ k \in 0 .. 2 /\ Effort(t) \in Nat
           /\ t.pc = "half" => Effort(t) = 13 * k + 3 * (3 - a) + 5
           /\ t.pc = "create" => Effort(t) = 13 * k + 3 * (3 - a) + 4
           /\ t.pc \in {"fill", "number"} => Effort(t) = 13 * k + 3 * (3 - a) + 3
           /\ t.pc \in Filing => Effort(t) \in 3 .. 40
           /\ t.pc = "applied" => Effort(t) = 2
           /\ t.pc \in {"failed", "unmatched", "nolinks"} => Effort(t) = 1
           /\ t.pc = "cache" => Effort(t) = 41
           /\ t.pc = "lookup" => Effort(t) = 42
           /\ t.pc = "cached" => Effort(t) = 43
           /\ t.pc = "seen" => Effort(t) = 44
           /\ t.pc = "drop" => Effort(t) = 45
           /\ t.pc \in Ingesting => Effort(t) >= 1
<1>1. a \in 0 .. 3 /\ k \in 0 .. 2
  BY DEF Task, Cur, Count
<1>2. t.pc \in Step
  BY DEF Task
<1>3. CASE t.pc = "half"
  BY <1>1, <1>3 DEF Effort, Filing, Ingesting
<1>4. CASE t.pc = "create"
  BY <1>1, <1>4 DEF Effort, Filing, Ingesting
<1>5. CASE t.pc \in {"fill", "number"}
  BY <1>1, <1>5 DEF Effort, Filing, Ingesting
<1>6. CASE t.pc \notin Filing
  BY <1>1, <1>2, <1>6
  DEF Effort, Filing, Step, Ingesting, Placing, Unplaced, Recording
<1> QED BY <1>3, <1>4, <1>5, <1>6 DEF Filing

\* Where a loop goes next.
LEMMA AfterShape ==
    ASSUME NEW t \in Task, NEW u \in After(t)
    PROVE  \/ u = Idle
           \/ /\ u.mode = t.mode /\ u.senders = t.senders
              /\ \/ u.pc \in {"seen", "drop"} /\ \E i \in t.todo : u.todo = t.todo \ {i}
                 \/ u.pc = "release" /\ t.mode # "sync" /\ u.todo = t.todo
                 \/ u.pc = "fetch" /\ t.mode = "sync" /\ u.todo = t.todo
<1>1. CASE t.todo # {}
  <2>1. PICK it \in Oldest(t.todo) :
            u = [t EXCEPT !.pc = IF it.id = 0 THEN "seen" ELSE "drop",
                          !.todo = @ \ {it},
                          !.cur = [NoItem EXCEPT !.id = it.id, !.message = it.message]]
    BY <1>1 DEF After
  <2>2. it \in t.todo
    BY <2>1 DEF Oldest
  <2>3. /\ u.pc \in {"seen", "drop"} /\ u.todo = t.todo \ {it}
        /\ u.mode = t.mode /\ u.senders = t.senders
    BY <2>1 DEF Task
  <2> QED BY <2>2, <2>3
<1>2. CASE t.todo = {}
  <2>1. \/ t.mode = "sync" /\ u = [t EXCEPT !.pc = "fetch", !.cur = NoItem]
        \/ t.mode # "sync" /\ u = [t EXCEPT !.pc = "release", !.cur = NoItem]
        \/ u = Idle
    BY <1>2 DEF After
  <2> QED BY <2>1 DEF Task
<1> QED BY <1>1, <1>2

\* A handler's step brings it nearer to its end.
Leads(w) == \E u : task' = [task EXCEPT ![w] = u] /\ Nearer(u, task[w])

LEMMA EndLeads ==
    ASSUME NEW w \in Worker, task[w].pc # "idle", task[w].pc \in Step, Become(w, Idle)
    PROVE  Leads(w)
<1>1. PICK t : t = task[w]
  OBVIOUS
<1>2. Phase(Idle) = 0 /\ Phase(t) \in 1 .. 5
  BY <1>1 DEF Phase, Idle, Step
<1>3. Nearer(Idle, t)
  BY <1>2, Lexicographic
<1> QED BY <1>1, <1>3 DEF Leads, Become

\* The next message, or the end of the loop.
LEMMA ResumeLeads ==
    ASSUME IInv, FiniteInbox, NEW w \in Worker, task[w].pc \in Ingesting, Resume(w, task[w])
    PROVE  Leads(w)
<1>1. PICK t \in Task : t = task[w] /\ IsFiniteSet(t.todo)
  BY TodoFinite DEF IInv, Tasks
<1>2. PICK u \in After(t) : task' = [task EXCEPT ![w] = u] /\ Become(w, u)
  BY <1>1 DEF Resume, Become
<1>3. CASE u = Idle
  BY <1>1, <1>2, <1>3, EndLeads DEF Ingesting, Placing, Unplaced, Recording, Task
<1>4. CASE u # Idle
  <2>1. /\ u.mode = t.mode /\ u.senders = t.senders
        /\ \/ u.pc \in {"seen", "drop"} /\ \E i \in t.todo : u.todo = t.todo \ {i}
           \/ u.pc = "release" /\ t.mode # "sync" /\ u.todo = t.todo
           \/ u.pc = "fetch" /\ t.mode = "sync" /\ u.todo = t.todo
    BY <1>4, AfterShape
  <2>2. Phase(t) = (IF t.mode = "sync" THEN 2 ELSE 1) /\ Linkage(t) = 0
    BY <1>1 DEF Phase, Linkage, Ingesting, Placing, Unplaced, Recording
  <2>3. Phase(u) = Phase(t) /\ Linkage(u) = Linkage(t)
    BY <2>1, <2>2 DEF Phase, Linkage
  <2>4. CASE u.pc \in {"seen", "drop"}
    <3>1. PICK i \in t.todo : u.todo = t.todo \ {i}
      BY <2>1, <2>4
    <3>2. PICK S, R : S = t.todo /\ R = u.todo
      OBVIOUS
    <3>3. IsFiniteSet(S) /\ i \in S /\ R = S \ {i}
      BY <1>1, <3>1, <3>2
    <3>4. Cardinality(S) \in Nat
      BY <3>3, FS_CardinalityType
    <3>5. Cardinality(S \ {i}) = Cardinality(S) - 1
      BY <3>3, FS_RemoveElement
    <3>6. Cardinality(R) < Cardinality(S)
      BY <3>3, <3>4, <3>5
    <3>7. Cardinality(u.todo) < Cardinality(t.todo)
      BY <3>2, <3>6
    <3>8. Nearer(u, t)
      BY <2>1, <2>3, <3>7, Lexicographic
    <3> QED BY <1>1, <1>2, <3>8 DEF Leads
  <2>5. CASE u.pc \in {"release", "fetch"}
    <3>1. Effort(u) = 0
      BY <2>5 DEF Effort
    <3>2. PICK a, k : a = t.cur.attempt /\ k = Count(t.cur.kinds)
      OBVIOUS
    <3>3. Effort(t) \in Nat /\ Effort(t) >= 1
      BY <1>1, <3>2, EffortIs
    <3>4. u.todo = t.todo
      BY <2>1, <2>5
    <3>5. Nearer(u, t)
      BY <2>1, <2>3, <3>1, <3>3, <3>4, Lexicographic
    <3> QED BY <1>1, <1>2, <3>5 DEF Leads
  <2> QED BY <2>1, <2>4, <2>5
<1> QED BY <1>3, <1>4

LEMMA ThrowLeads ==
    ASSUME IInv, FiniteInbox, NEW w \in Worker, task[w].pc \in Ingesting, Throw(w)
    PROVE  Leads(w)
<1>1. task[w] \in Task
  BY DEF IInv, Tasks
<1>2. CASE Resume(w, task[w])
  BY <1>2, ResumeLeads
<1>3. CASE Become(w, Idle)
  BY <1>1, <1>3, EndLeads DEF Ingesting, Placing, Unplaced, Recording, Task
<1> QED BY <1>2, <1>3 DEF Throw

\* On with the same message.
LEMMA OnLeads ==
    ASSUME NEW w \in Worker, NEW t, t = task[w], NEW u, task' = [task EXCEPT ![w] = u],
           t.pc \in Ingesting, u.pc \in Ingesting, u.mode = t.mode,
           u.senders = t.senders, u.todo = t.todo, Effort(u) < Effort(t)
    PROVE  Leads(w)
<1>1. Phase(u) = Phase(t) /\ Linkage(u) = Linkage(t)
  BY DEF Phase, Linkage, Ingesting, Placing, Unplaced, Recording
<1>2. Nearer(u, t)
  BY <1>1, Lexicographic
<1> QED BY <1>2 DEF Leads

LEMMA GotoLeads ==
    ASSUME IInv, IInv', NEW w \in Worker, NEW pc, Goto(w, pc),
           \/ task[w].pc = "seen" /\ pc = "cached"
           \/ task[w].pc = "cached" /\ pc = "lookup"
           \/ task[w].pc = "lookup" /\ pc = "unmatched"
           \/ task[w].pc \in {"half", "create"} /\ pc = "number"
           \/ task[w].pc \in Filing \cup {"applied"} /\ pc = "failed"
    PROVE  Leads(w)
<1>1. PICK t \in Task : t = task[w]
  BY DEF IInv, Tasks
<1>2. PICK u : u = [t EXCEPT !.pc = pc]
  OBVIOUS
<1>3. task' = [task EXCEPT ![w] = u] /\ u = task'[w] /\ u \in Task
  BY <1>1, <1>2 DEF Goto, Become, IInv, Tasks
<1>4. /\ u.pc = pc /\ u.mode = t.mode /\ u.senders = t.senders /\ u.todo = t.todo
      /\ u.cur = t.cur
  BY <1>2 DEF Task
<1>5. PICK a, k : a = t.cur.attempt /\ k = Count(t.cur.kinds)
  OBVIOUS
<1>6. a = u.cur.attempt /\ k = Count(u.cur.kinds)
  BY <1>4, <1>5
<1>7. CASE t.pc \in {"half", "create"} /\ pc = "number"
  <2>1. Effort(t) > Effort(u)
    BY <1>4, <1>5, <1>6, <1>7, <1>3, EffortIs
  <2> QED BY <1>1, <1>3, <1>4, <1>7, <2>1, OnLeads DEF Ingesting, Placing, Unplaced
<1>8. CASE ~(t.pc \in {"half", "create"} /\ pc = "number")
  <2>1. \/ t.pc = "seen" /\ pc = "cached"
        \/ t.pc = "cached" /\ pc = "lookup"
        \/ t.pc = "lookup" /\ pc = "unmatched"
        \/ t.pc \in Filing \cup {"applied"} /\ pc = "failed"
    BY <1>1, <1>8
  <2>2. Effort(t) > Effort(u)
    BY <1>3, <1>4, <1>5, <1>6, <2>1, EffortIs
  <2> QED BY <1>1, <1>3, <1>4, <2>1, <2>2, OnLeads
          DEF Ingesting, Placing, Unplaced, Recording, Filing
<1> QED BY <1>7, <1>8

LEMMA PlaceLeads ==
    ASSUME IInv, IInv', NEW w \in Worker, task[w].pc \in {"cached", "cache"},
           NEW s, NEW n, Place(w, s, n)
    PROVE  Leads(w)
<1>1. PICK t \in Task : t = task[w]
  BY DEF IInv, Tasks
<1>2. PICK u : /\ task' = [task EXCEPT ![w] = u] /\ Moves(t, u)
               /\ u.pc \in {"nolinks", "half"}
  BY <1>1, PlaceMoves DEF Onward
<1>3. u = task'[w] /\ u \in Task
  BY <1>2 DEF IInv, Tasks
<1>4. PICK a, k : a = t.cur.attempt /\ k = Count(t.cur.kinds)
  OBVIOUS
<1>5. PICK b, l : b = u.cur.attempt /\ l = Count(u.cur.kinds)
  OBVIOUS
<1>6. Effort(t) >= 41 /\ Effort(t) \in Nat
  BY <1>1, <1>4, EffortIs
<1>7. Effort(u) <= 40 /\ Effort(u) \in Nat
  BY <1>2, <1>3, <1>5, EffortIs DEF Filing
<1>8. Effort(u) < Effort(t)
  BY <1>6, <1>7
<1> QED BY <1>1, <1>2, <1>8, OnLeads DEF Moves, Ingesting, Placing, Unplaced, Recording

\* The search for the scout, and the row of a message to re-file.
LEMMA SearchLeads ==
    ASSUME IInv, IInv', FiniteInbox, NEW w \in Worker,
           \/ SkipSeen(w) \/ NotSeen(w) \/ FindCached(w) \/ NotCached(w)
           \/ MatchHandle(w) \/ LookupFails(w) \/ CacheId(w) \/ Drop(w) \/ DropMissing(w)
    PROVE  Leads(w)
<1>1. PICK t \in Task : t = task[w]
  BY DEF IInv, Tasks
<1>2. CASE SkipSeen(w) \/ DropMissing(w)
  BY <1>2, ResumeLeads, ThrowLeads DEF SkipSeen, DropMissing, At, Ingesting, Unplaced
<1>3. CASE NotSeen(w) \/ NotCached(w) \/ LookupFails(w)
  BY <1>3, GotoLeads DEF NotSeen, NotCached, LookupFails, At
<1>4. CASE FindCached(w) \/ CacheId(w)
  BY <1>4, PlaceLeads DEF FindCached, CacheId, At
<1>5. CASE MatchHandle(w)
  <2>1. PICK s, n, pc : /\ t.pc = "lookup" /\ pc \in {"cache", "unmatched"}
                        /\ Become(w, [t EXCEPT !.pc = pc, !.cur.scout = s, !.cur.username = n])
    <3>1. PICK n : n = UsernameOf[SenderOf[t.cur.message]]
      OBVIOUS
    <3>2. CASE \E s \in Holding("handle", n) :
                  Become(w, [t EXCEPT !.pc = "cache", !.cur.scout = s, !.cur.username = n])
      BY <1>1, <1>5, <3>1, <3>2 DEF MatchHandle, At
    <3>3. CASE Become(w, [t EXCEPT !.pc = "unmatched", !.cur.username = n])
      <4>1. [t EXCEPT !.pc = "unmatched", !.cur.username = n]
              = [t EXCEPT !.pc = "unmatched", !.cur.scout = t.cur.scout, !.cur.username = n]
        BY DEF Task, Cur
      <4> QED BY <1>1, <1>5, <3>3, <4>1 DEF MatchHandle, At
    <3> QED BY <1>1, <1>5, <3>1, <3>2, <3>3 DEF MatchHandle
  <2>2. PICK u : u = [t EXCEPT !.pc = pc, !.cur.scout = s, !.cur.username = n]
    OBVIOUS
  <2>3. task' = [task EXCEPT ![w] = u] /\ u = task'[w] /\ u \in Task
    BY <2>1, <2>2 DEF Become, IInv, Tasks
  <2>4. u.pc = pc /\ u.mode = t.mode /\ u.senders = t.senders /\ u.todo = t.todo
    BY <2>2 DEF Task
  <2>5. PICK a, k : a = t.cur.attempt /\ k = Count(t.cur.kinds)
    OBVIOUS
  <2>6. PICK b, l : b = u.cur.attempt /\ l = Count(u.cur.kinds)
    OBVIOUS
  <2>7. Effort(t) = 42
    BY <2>1, <2>5, EffortIs
  <2>8. Effort(u) \in {1, 41}
    BY <2>1, <2>3, <2>4, <2>6, EffortIs
  <2>9. Effort(u) < Effort(t)
    BY <2>7, <2>8
  <2> QED BY <1>1, <2>1, <2>3, <2>4, <2>9, OnLeads DEF Ingesting, Placing, Unplaced, Recording
<1>6. CASE Drop(w)
  <2>1. t.pc = "drop" /\ Become(w, [t EXCEPT !.pc = "seen", !.cur.id = 0])
    BY <1>1, <1>6 DEF Drop, At
  <2>2. PICK u : u = [t EXCEPT !.pc = "seen", !.cur.id = 0]
    OBVIOUS
  <2>3. task' = [task EXCEPT ![w] = u] /\ u.pc = "seen" /\ u.mode = t.mode
        /\ u.senders = t.senders /\ u.todo = t.todo
    BY <2>1, <2>2 DEF Become, Task
  <2>4. Effort(t) = 45 /\ Effort(u) = 44
    BY <2>1, <2>3 DEF Effort
  <2>5. Effort(u) < Effort(t)
    BY <2>4
  <2> QED BY <1>1, <2>1, <2>3, <2>5, OnLeads DEF Ingesting, Unplaced
<1> QED BY <1>2, <1>3, <1>4, <1>5, <1>6

\* A share on its row leaves one kind less.
LEMMA FiledLeads ==
    ASSUME IInv, IInv', NEW w \in Worker, task[w].pc \in {"fill", "create"}, NEW n, Filed(w, n)
    PROVE  Leads(w)
<1>1. PICK t \in Task : t = task[w]
  BY DEF IInv, Tasks
<1>2. PICK kinds : kinds = t.cur.kinds /\ kinds \subseteq Kind
  BY DEF Task, Cur
<1>3. PICK rest : rest = kinds \ {NextKind(kinds)}
  OBVIOUS
<1>4. PICK pc : pc = IF rest = {} THEN "applied" ELSE "half"
  OBVIOUS
<1>5. PICK u : u = [t EXCEPT !.pc = pc, !.cur.kinds = rest, !.cur.row = n, !.cur.attempt = 0]
  OBVIOUS
<1>6. task' = [task EXCEPT ![w] = u] /\ u = task'[w] /\ u \in Task
  BY <1>1, <1>2, <1>3, <1>4, <1>5 DEF Filed, Become, IInv, Tasks
<1>7. /\ u.pc = pc /\ u.mode = t.mode /\ u.senders = t.senders /\ u.todo = t.todo
  BY <1>5 DEF Task
<1>8. u.cur.kinds = rest /\ u.cur.attempt = 0
  BY <1>5 DEF Task, Cur
<1>9. PICK a, k : a = t.cur.attempt /\ k = Count(t.cur.kinds)
  OBVIOUS
<1>10. PICK l : l = Count(rest)
  OBVIOUS
<1>11. Effort(t) >= 13 * k + 3 /\ a \in 0 .. 3 /\ k \in 0 .. 2 /\ Effort(t) >= 3 /\ Effort(t) \in Nat
  BY <1>1, <1>9, EffortIs DEF Filing
<1>12. rest # {} => k = 2 /\ l = 1
  BY <1>2, <1>3, <1>9, <1>10 DEF Kind, NextKind, Count
<1>13. IF rest = {} THEN Effort(u) = 2 ELSE Effort(u) = 13 * l + 14
  BY <1>4, <1>6, <1>7, <1>8, <1>10, EffortIs
<1>14. Effort(u) < Effort(t)
  BY <1>11, <1>12, <1>13
<1> QED BY <1>1, <1>4, <1>6, <1>7, <1>14, OnLeads DEF Ingesting, Placing, Recording

\* Filing the shares and recording the message.
LEMMA FilingLeads ==
    ASSUME IInv, IInv', FiniteInbox, NEW w \in Worker,
           \/ FindHalf(w) \/ FillHalf(w) \/ ReadRowNumber(w) \/ CreateRow(w) \/ RowClash(w)
           \/ Record(w) \/ RecordClash(w)
    PROVE  Leads(w)
<1>1. PICK t \in Task : t = task[w]
  BY DEF IInv, Tasks
<1>2. CASE FillHalf(w) \/ CreateRow(w)
  BY <1>2, FiledLeads DEF FillHalf, CreateRow, At
<1>3. CASE RowClash(w)
  BY <1>3, GotoLeads DEF RowClash, At, Filing
<1>4. CASE Record(w) \/ RecordClash(w)
  BY <1>4, GotoLeads, ResumeLeads, ThrowLeads DEF Record, RecordClash, At, Ingesting
<1>5. CASE FindHalf(w) /\ Goto(w, "number")
  BY <1>5, GotoLeads DEF FindHalf, At
<1>6. ASSUME NEW pc, NEW u, task' = [task EXCEPT ![w] = u], u.pc = pc, u.mode = t.mode,
             u.senders = t.senders, u.todo = t.todo, u.cur.kinds = t.cur.kinds,
             \/ t.pc = "half" /\ pc = "fill" /\ u.cur.attempt = t.cur.attempt
             \/ t.pc = "number" /\ pc = "create" /\ u.cur.attempt = t.cur.attempt + 1
      PROVE  Leads(w)
  <2>1. u = task'[w] /\ u \in Task
    BY <1>6 DEF IInv, Tasks
  <2>2. PICK a, k : a = t.cur.attempt /\ k = Count(t.cur.kinds)
    OBVIOUS
  <2>3. PICK b : b = u.cur.attempt
    OBVIOUS
  <2>4. k = Count(u.cur.kinds)
    BY <1>6, <2>2
  <2>5. CASE t.pc = "half" /\ pc = "fill" /\ b = a
    <3>1. Effort(t) = 13 * k + 3 * (3 - a) + 5 /\ a \in 0 .. 3 /\ k \in 0 .. 2
      BY <1>1, <2>2, <2>5, EffortIs
    <3>2. Effort(u) = 13 * k + 3 * (3 - a) + 3
      BY <1>6, <2>1, <2>3, <2>4, <2>5, EffortIs
    <3>3. Effort(u) < Effort(t)
      BY <3>1, <3>2
    <3> QED BY <1>1, <1>6, <2>5, <3>3, OnLeads DEF Ingesting, Placing
  <2>6. CASE t.pc = "number" /\ pc = "create" /\ b = a + 1
    <3>1. Effort(t) = 13 * k + 3 * (3 - a) + 3 /\ a \in 0 .. 3 /\ k \in 0 .. 2
      BY <1>1, <2>2, <2>6, EffortIs
    <3>2. Effort(u) = 13 * k + 3 * (3 - (a + 1)) + 4
      BY <1>6, <2>1, <2>3, <2>4, <2>6, EffortIs
    <3>3. Effort(u) < Effort(t)
      BY <3>1, <3>2
    <3> QED BY <1>1, <1>6, <2>6, <3>3, OnLeads DEF Ingesting, Placing
  <2> QED BY <1>6, <2>2, <2>3, <2>5, <2>6
<1>7. CASE FindHalf(w) /\ ~Goto(w, "number")
  <2>1. PICK n : t.pc = "half" /\ Become(w, [t EXCEPT !.pc = "fill", !.cur.row = n])
    BY <1>1, <1>7 DEF FindHalf, At
  <2>2. PICK u : u = [t EXCEPT !.pc = "fill", !.cur.row = n]
    OBVIOUS
  <2>3. /\ task' = [task EXCEPT ![w] = u] /\ u.pc = "fill" /\ u.mode = t.mode
        /\ u.senders = t.senders /\ u.todo = t.todo
    BY <2>1, <2>2 DEF Become, Task
  <2>4. u.cur.kinds = t.cur.kinds /\ u.cur.attempt = t.cur.attempt
    BY <2>2 DEF Task, Cur
  <2> QED BY <1>6, <2>1, <2>3, <2>4
<1>8. CASE ReadRowNumber(w)
  <2>1. PICK n : /\ t.pc = "number"
                 /\ Become(w, [t EXCEPT !.pc = "create", !.cur.attempt = @ + 1, !.cur.row = n])
    BY <1>1, <1>8 DEF ReadRowNumber, At
  <2>2. PICK u : u = [t EXCEPT !.pc = "create", !.cur.attempt = @ + 1, !.cur.row = n]
    OBVIOUS
  <2>3. /\ task' = [task EXCEPT ![w] = u] /\ u.pc = "create" /\ u.mode = t.mode
        /\ u.senders = t.senders /\ u.todo = t.todo
    BY <2>1, <2>2 DEF Become, Task
  <2>4. u.cur.kinds = t.cur.kinds /\ u.cur.attempt = t.cur.attempt + 1
    BY <2>2 DEF Task, Cur
  <2> QED BY <1>6, <2>1, <2>3, <2>4
<1> QED BY <1>2, <1>3, <1>4, <1>5, <1>7, <1>8

\* Linking a sender, and the reads the loops start from.
LEMMA LinkLeads ==
    ASSUME IInv, IInv', FiniteInbox, NEW w \in Worker,
           \/ FetchInbox(w) \/ PutHandle(w) \/ HandleTaken(w) \/ ReadHandle(w) \/ FindWaiting(w)
           \/ Release(w) \/ Link(w) \/ LinkRefused(w) \/ ReadPending(w)
    PROVE  Leads(w)
<1>1. PICK t \in Task : t = task[w] /\ IsFiniteSet(t.todo) /\ IsFiniteSet(t.senders)
  BY TodoFinite DEF IInv, Tasks
<1>2. t.pc # "idle" /\ t.pc \in Step /\ t.pc = task[w].pc
  BY <1>1 DEF Task, FetchInbox, PutHandle, HandleTaken, ReadHandle, FindWaiting, Release, Link,
     LinkRefused, ReadPending, At
<1>3. CASE Become(w, Idle)
  BY <1>2, <1>3, EndLeads
<1>4. ASSUME NEW b \in Task, Resume(w, b), ~Become(w, Idle)
      PROVE  \E u : /\ task' = [task EXCEPT ![w] = u]
                    /\ u.senders = b.senders /\ Linkage(u) = 0
                    /\ Phase(u) = IF b.mode = "sync" THEN 2 ELSE 1
  <2>1. PICK u \in After(b) : Become(w, u)
    BY <1>4 DEF Resume
  <2>2. u # Idle
    BY <1>4, <2>1
  <2>3. /\ u.mode = b.mode /\ u.senders = b.senders
        /\ \/ u.pc \in {"seen", "drop"}
           \/ u.pc = "release" /\ b.mode # "sync"
           \/ u.pc = "fetch" /\ b.mode = "sync"
    BY <2>2, AfterShape
  <2>4. Linkage(u) = 0 /\ Phase(u) = IF b.mode = "sync" THEN 2 ELSE 1
    BY <2>3 DEF Linkage, Phase
  <2> QED BY <2>1, <2>3, <2>4 DEF Become
<1>5. CASE FetchInbox(w) /\ ~Become(w, Idle)
  <2>1. PICK b : b = [t EXCEPT !.mode = "inbox", !.todo = Inbox]
    OBVIOUS
  <2>2. b \in Task /\ b.mode = "inbox"
    BY <2>1, ItemsGood DEF Task, Mode
  <2>3. t.pc = "fetch" /\ Resume(w, b)
    BY <1>1, <1>5, <2>1 DEF FetchInbox, At
  <2>4. PICK u : task' = [task EXCEPT ![w] = u] /\ Phase(u) = 1
    BY <1>4, <1>5, <2>2, <2>3
  <2>5. Phase(t) = 2
    BY <2>3 DEF Phase
  <2>6. Nearer(u, t)
    BY <2>4, <2>5, Lexicographic
  <2> QED BY <1>1, <2>4, <2>6 DEF Leads
<1>6. CASE FindWaiting(w) /\ ~Become(w, Idle)
  <2>1. PICK ids \in SUBSET Sender : t.pc = "waiting" /\ Resume(w, [t EXCEPT !.senders = ids])
    <3>1. PICK known, unknown :
              /\ known = {SenderOf[r.message] : r \in {q \in Waiting : q.username = t.handle}}
              /\ unknown = {SenderOf[r.message] : r \in {q \in Waiting : q.username = None}}
      OBVIOUS
    <3>2. known \subseteq Sender /\ unknown \subseteq Sender
      BY <3>1, MessageAssumption DEF IInv, Stored, LedgerOK, LedgerRow, Waiting
    <3>3. PICK found \in SUBSET {i \in unknown : UsernameOf[i] = t.handle} :
              Resume(w, [t EXCEPT !.senders = known \cup found])
      BY <1>1, <1>6, <3>1 DEF FindWaiting
    <3>4. known \cup found \in SUBSET Sender
      BY <3>2, <3>3
    <3> QED BY <1>1, <1>6, <3>3, <3>4 DEF FindWaiting, At
  <2>2. PICK b : b = [t EXCEPT !.senders = ids]
    OBVIOUS
  <2>3. b \in Task
    BY <2>2 DEF Task
  <2>4. PICK u : task' = [task EXCEPT ![w] = u] /\ Phase(u) \in {1, 2}
    BY <1>4, <1>6, <2>1, <2>2, <2>3
  <2>5. Phase(t) = 3
    BY <2>1 DEF Phase
  <2>6. Nearer(u, t)
    BY <2>4, <2>5, Lexicographic
  <2> QED BY <1>1, <2>4, <2>6 DEF Leads
<1>7. CASE ReadPending(w) /\ ~Become(w, Idle)
  <2>1. PICK rows \in SUBSET {r \in ledger : r.status # "APPLIED"} :
            t.pc = "pending" /\ Resume(w, [t EXCEPT !.todo = Items(rows), !.sender = None])
    <3>1. PICK rows : rows = {r \in Waiting : SenderOf[r.message] = t.sender}
      OBVIOUS
    <3>2. rows \in SUBSET {r \in ledger : r.status # "APPLIED"}
      BY <3>1 DEF Waiting
    <3> QED BY <1>1, <1>7, <3>1, <3>2 DEF ReadPending, At
  <2>2. PICK b : b = [t EXCEPT !.todo = Items(rows), !.sender = None]
    OBVIOUS
  <2>3. Items(rows) \subseteq Item
    BY ItemsGood
  <2>4. b \in Task /\ b.senders = t.senders /\ b.mode = t.mode
    BY <2>2, <2>3 DEF Task
  <2>5. PICK u : /\ task' = [task EXCEPT ![w] = u]
                 /\ u.senders = t.senders /\ Linkage(u) = 0
                 /\ Phase(u) = IF t.mode = "sync" THEN 2 ELSE 1
    BY <1>4, <1>7, <2>1, <2>2, <2>4
  <2>6. Linkage(t) = 1 /\ Phase(t) = IF t.mode = "sync" THEN 2 ELSE 1
    BY <2>1 DEF Linkage, Phase
  <2>7. Phase(u) = Phase(t) /\ Linkage(u) < Linkage(t)
    BY <2>5, <2>6
  <2>8. Nearer(u, t)
    BY <2>5, <2>7, Lexicographic
  <2> QED BY <1>1, <2>5, <2>8 DEF Leads
<1>8. CASE PutHandle(w) /\ ~Become(w, Idle)
  <2>1. t.pc = "handle" /\ Become(w, [t EXCEPT !.pc = "claim", !.handle = None, !.had = None])
    BY <1>1, <1>8 DEF PutHandle, At
  <2>2. PICK u : u = [t EXCEPT !.pc = "claim", !.handle = None, !.had = None]
    OBVIOUS
  <2>3. u.pc = "claim"
    BY <2>2 DEF Task
  <2>4. Phase(t) = 5 /\ Phase(u) = 4
    BY <2>1, <2>3 DEF Phase
  <2>5. Nearer(u, t)
    BY <2>4, Lexicographic
  <2> QED BY <1>1, <2>1, <2>2, <2>5 DEF Leads, Become
<1>9. CASE ReadHandle(w) /\ ~Become(w, Idle)
  <2>1. PICK h : t.pc = "claim" /\ Become(w, [t EXCEPT !.pc = "waiting", !.handle = h])
    BY <1>1, <1>9 DEF ReadHandle, At
  <2>2. PICK u : u = [t EXCEPT !.pc = "waiting", !.handle = h]
    OBVIOUS
  <2>3. u.pc = "waiting"
    BY <2>2 DEF Task
  <2>4. Phase(t) = 4 /\ Phase(u) = 3
    BY <2>1, <2>3 DEF Phase
  <2>5. Nearer(u, t)
    BY <2>4, Lexicographic
  <2> QED BY <1>1, <2>1, <2>2, <2>5 DEF Leads, Become
<1>10. CASE Release(w)
  <2>1. PICK i, h :
            /\ t.pc = "release" /\ i \in t.senders
            /\ Become(w, [t EXCEPT !.pc = "link", !.sender = i, !.senders = @ \ {i}, !.had = h])
    BY <1>1, <1>10 DEF Release, At
  <2>2. PICK u : u = [t EXCEPT !.pc = "link", !.sender = i, !.senders = @ \ {i}, !.had = h]
    OBVIOUS
  <2>3. u.pc = "link" /\ u.mode = t.mode /\ u.senders = t.senders \ {i}
    BY <2>2 DEF Task
  <2>4. Cardinality(u.senders) < Cardinality(t.senders)
    <3>1. PICK S, R : S = t.senders /\ R = u.senders
      OBVIOUS
    <3>2. IsFiniteSet(S) /\ i \in S /\ R = S \ {i}
      BY <1>1, <2>1, <2>3, <3>1
    <3>3. Cardinality(S) \in Nat
      BY <3>2, FS_CardinalityType
    <3>4. Cardinality(S \ {i}) = Cardinality(S) - 1
      BY <3>2, FS_RemoveElement
    <3> QED BY <3>1, <3>2, <3>3, <3>4
  <2>5. Phase(u) = Phase(t)
    BY <2>1, <2>3 DEF Phase
  <2>6. Nearer(u, t)
    BY <2>4, <2>5, Lexicographic
  <2> QED BY <1>1, <2>1, <2>2, <2>6 DEF Leads, Become
<1>11. CASE Link(w)
  <2>1. t.pc = "link" /\ Become(w, [t EXCEPT !.pc = "pending", !.had = None])
    BY <1>1, <1>11 DEF Link, At
  <2>2. PICK u : u = [t EXCEPT !.pc = "pending", !.had = None]
    OBVIOUS
  <2>3. u.pc = "pending" /\ u.mode = t.mode /\ u.senders = t.senders
    BY <2>2 DEF Task
  <2>4. Phase(u) = Phase(t) /\ Linkage(u) = 1 /\ Linkage(t) = 2
    BY <2>1, <2>3 DEF Phase, Linkage
  <2>5. Nearer(u, t)
    BY <2>3, <2>4, Lexicographic
  <2> QED BY <1>1, <2>1, <2>2, <2>5 DEF Leads, Become
<1>12. CASE HandleTaken(w) \/ LinkRefused(w)
  BY <1>3, <1>12 DEF HandleTaken, LinkRefused
<1> QED BY <1>3, <1>5, <1>6, <1>7, <1>8, <1>9, <1>10, <1>11, <1>12

LEMMA HandlerLeads ==
    ASSUME IInv, IInv', FiniteInbox, NEW w \in Worker, Continue(w)
    PROVE  Leads(w)
<1>1. CASE CallFails(w)
  <2>1. task[w] \in Task /\ task[w].pc # "idle" /\ task[w].pc \in Step
    BY <1>1 DEF IInv, Tasks, Task, CallFails
  <2>2. CASE task[w].pc \in Filing \cup {"applied"}
    BY <1>1, <2>2, GotoLeads DEF CallFails, Filing
  <2>3. CASE task[w].pc = "cache"
    BY <1>1, <2>3, PlaceLeads DEF CallFails, At
  <2>4. CASE Become(w, Idle)
    BY <2>1, <2>4, EndLeads
  <2>5. CASE ~Become(w, Idle) /\ task[w].pc \notin Filing \cup {"applied", "cache"}
    <3>1. Throw(w) /\ task[w].pc \in Ingesting
      BY <1>1, <2>1, <2>5
      DEF CallFails, At, Filing, Step, Ingesting, Placing, Unplaced, Recording
    <3> QED BY <3>1, ThrowLeads
  <2> QED BY <2>2, <2>3, <2>4, <2>5
<1>2. CASE ~CallFails(w)
  BY <1>2, SearchLeads, FilingLeads, LinkLeads DEF Continue, Ingest
<1> QED BY <1>1, <1>2

\* Every webhook delivery, poll, re-file, sync and request about a handle ends: what it has left
\* grows less with each of its steps, whatever the others, the failures and the erasures do
\* between them.  Senders and messages are taken off a list that was read once, and a row
\* number is tried three times.
\* (instagram-dm.service.ts ingest, claimForScout, relinkAndReprocess, createRow;
\* instagram-inbox.service.ts)
THEOREM HandlersEnd == ASSUME FiniteInbox PROVE SafeSpec => Shorten
<1>1. ASSUME IInv, NEW w \in Worker, NEW i \in 1 .. 5
      PROVE  Left(task[w])[i] \in Nat
  <2>1. PICK t \in Task : t = task[w] /\ IsFiniteSet(t.todo) /\ IsFiniteSet(t.senders)
    BY <1>1, TodoFinite DEF IInv, Tasks
  <2>2. PICK a, k : a = t.cur.attempt /\ k = Count(t.cur.kinds)
    OBVIOUS
  <2>3. /\ Phase(t) \in Nat /\ Linkage(t) \in Nat /\ Effort(t) \in Nat
        /\ Cardinality(t.senders) \in Nat /\ Cardinality(t.todo) \in Nat
    BY <2>1, <2>2, EffortIs, FS_CardinalityType DEF Phase, Linkage
  <2>4. i \in {1, 2, 3, 4, 5}
    OBVIOUS
  <2> QED BY <2>1, <2>3, <2>4 DEF Left
<1>2. ASSUME IInv, IInv', Next, NEW w \in Worker, task'[w] # task[w], task[w].pc # "idle"
      PROVE  Nearer(task'[w], task[w])
  <2>1. task \in [Worker -> Task] /\ task' \in [Worker -> Task]
    BY <1>2 DEF IInv, Tasks
  <2>2. CASE Restart
    <3>1. task'[w] = Idle
      BY <2>2 DEF Restart
    <3>2. PICK t \in Task : t = task[w]
      BY <2>1
    <3>3. Phase(Idle) = 0 /\ Phase(t) \in 1 .. 5
      BY <1>2, <3>2 DEF Phase, Idle, Task, Step
    <3> QED BY <3>1, <3>2, <3>3, Lexicographic
  <2>3. CASE ~Restart
    <3>1. PICK v \in Worker :
              \/ Deliver(v) \/ Tick(v) \/ RefileAtBoot(v) \/ ManualSync(v) \/ Assign(v)
              \/ \E mode \in {"own", "admin"} : StartSetHandle(v, mode)
              \/ Continue(v)
      BY <1>2, <2>3 DEF Next, Send, Forget, Age
    <3>2. CASE Continue(v)
      <4>1. PICK u : task' = [task EXCEPT ![v] = u] /\ Nearer(u, task[v])
        BY <1>2, <3>2, HandlerLeads DEF Leads
      <4> QED BY <1>2, <2>1, <4>1
    <3>3. CASE ~Continue(v)
      <4>1. /\ task[v].pc = "idle"
            /\ \E u : task' = [task EXCEPT ![v] = u]
        BY <3>1, <3>3 DEF Deliver, Tick, RefileAtBoot, ManualSync, Refile, Assign, StartSetHandle,
           At, Resume, Become
      <4> QED BY <1>2, <2>1, <4>1
    <3> QED BY <3>2, <3>3
  <2> QED BY <2>2, <2>3
<1>3. IInv /\ IInv' /\ [Next]_vars =>
        [\A w \in Worker :
          /\ \A i \in 1 .. 5 : Left(task[w])[i] \in Nat
          /\ task'[w] # task[w] /\ task[w].pc # "idle" => Below(Left(task'[w]), Left(task[w]))]_vars
  BY <1>1, <1>2 DEF Nearer
<1> QED BY <1>3, AlwaysGood, PTL DEF SafeSpec, Shorten
==============================================================================
