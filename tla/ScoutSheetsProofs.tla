------------------------- MODULE ScoutSheetsProofs -------------------------
(***************************************************************************)
(* Proofs about ScoutSheets, for any number of scouts, rows and editing    *)
(* requests: type correctness, with the unique row numbers; that of two    *)
(* rows with one handle a save was answered with a warning; and, however   *)
(* many requests promote, that a row recorded as added is in the campaign  *)
(* recorded with it, and that a row only gets to a second campaign when    *)
(* the first was never recorded, both unless two requests were sending the *)
(* row at once.  Every request ends.                                       *)
(*                                                                         *)
(* The arguments.  A duplicate: the look-up follows the write it is about, *)
(* so of two rows with one handle the request that wrote last has looked   *)
(* after both were there, and nothing but another write changes a row's    *)
(* handle.  Deal Studio: sendToDealStudio reads a row that is not added.   *)
(* Until it records the outcome nobody else adds the row, unless another   *)
(* request has it in hand too, and row ids are not reused, so what it was  *)
(* sent to is where it is recorded to be.  A row that was sent and is not  *)
(* recorded as added is in the hands of the request that sent it, or that  *)
(* request never recorded it.                                              *)
(***************************************************************************)
EXTENDS ScoutSheets, TLAPS

EditorStep == {"idle", "number", "insert", "check", "save", "delete", "review"}
PromoterStep == {"idle", "upsert", "mark", "read", "call", "record", "fail"}
Sending == {"call", "record", "fail"}

\* The local variables of request w, when the ids in `ids` have been given.
Good(w, t, ids) ==
    /\ w \in Editor => t.pc \in EditorStep /\ ~t.took
    /\ w \in Promoter => t.pc \in PromoterStep
    /\ t.pc \in {"number", "insert"} => t.scout \in Scout
    /\ t.pc = "insert" => t.number \in Nat \ {0}
    /\ t.pc \notin {"idle", "number", "insert"} => t.row \in ids
    /\ t.pc \in {"upsert", "mark"} \cup Sending => t.handle \in Handle
    /\ t.pc \in Sending => t.campaign \in Campaign
    /\ t.took => t.pc \in Sending
    /\ t.pc = "record" => t.took

\* What was sent is a row's.
SentKnown == \A r \in Row : sentTo[r] # {} => r \in used

\* The inductive invariant of type correctness.
TInv ==
    /\ TypeOK
    /\ \A w \in Worker : Good(w, task[w], used)
    /\ SentKnown

-----------------------------------------------------------------------------
(* Steps of one table.                                                     *)

\* The next number.
LEMMA Next1 == \A n \in Nat : n + 1 \in Nat \ {0}
  OBVIOUS

\* An idle request holds nothing.
LEMMA IdleGood == Idle \in Task /\ \A w, ids : Good(w, Idle, ids)
  BY DEF Idle, Task, Step, Good, EditorStep, PromoterStep, Sending

\* A request that moves on leaves the others as they are.
LEMMA TaskStep ==
    ASSUME TInv, NEW w \in Worker, NEW t \in Task, NEW ids, used \subseteq ids,
           Good(w, t, ids), Become(w, t)
    PROVE  /\ task' \in [Worker -> Task]
           /\ \A v \in Worker : Good(v, task'[v], ids)
<1>1. task' \in [Worker -> Task] /\ task'[w] = t /\ \A v \in Worker \ {w} : task'[v] = task[v]
  BY DEF TInv, TypeOK, Become
<1>2. \A v \in Worker \ {w} : Good(v, task[v], ids)
  BY DEF TInv, Good
<1> QED BY <1>1, <1>2

\* The sheets after a row was changed without its scout and number.
LEMMA RowStep ==
    ASSUME TInv, NEW r \in Row, Present(r), NEW e \in Entry,
           e.scout = rows[r].scout, e.number = rows[r].number,
           rows' = [rows EXCEPT ![r] = e], UNCHANGED <<used, accounts>>
    PROVE  /\ rows' \in [Row -> Entry \cup {None}]
           /\ \A q, s \in Row :
                 Present(q)' /\ Present(s)' /\ rows'[q].scout = rows'[s].scout
                   /\ rows'[q].number = rows'[s].number => q = s
           /\ \A q \in Row : Present(q)' => q \in used' /\ rows'[q].scout \in accounts'
<1>1. rows' \in [Row -> Entry \cup {None}]
  BY DEF TInv, TypeOK
<1>2. \A q \in Row : Present(q)' => /\ Present(q)
                                    /\ rows'[q].scout = rows[q].scout
                                    /\ rows'[q].number = rows[q].number
  BY DEF TInv, TypeOK, Present
<1> QED BY <1>1, <1>2 DEF TInv, TypeOK

\* A step that only changes one request's local variables.
LEMMA LocalStep ==
    ASSUME TInv, NEW w \in Worker, NEW t \in Task, Good(w, t, used), Become(w, t),
           UNCHANGED <<sheets, people, promotion>>, {edits', admin', faults'} \subseteq Nat
    PROVE  TInv'
<1>1. task' \in [Worker -> Task] /\ \A v \in Worker : Good(v, task'[v], used)
  BY TaskStep
<1>2. TypeOK'
  BY <1>1 DEF TInv, TypeOK, sheets, people, promotion, Present
<1> QED BY <1>1, <1>2 DEF TInv, SentKnown, sheets, promotion

\* A step that changes the sheets and one request's local variables.
LEMMA SheetStep ==
    ASSUME TInv, NEW w \in Worker, NEW t \in Task, Good(w, t, used), Become(w, t),
           NEW r \in Row, Present(r), NEW e \in Entry,
           e.scout = rows[r].scout, e.number = rows[r].number,
           rows' = [rows EXCEPT ![r] = e],
           warned' \subseteq Row \X Handle, lost' \subseteq Row,
           UNCHANGED <<used, people, creators, studio, sentTo, crossed, bounds>>
    PROVE  TInv'
<1>1. task' \in [Worker -> Task] /\ \A v \in Worker : Good(v, task'[v], used)
  BY TaskStep
<1>2. /\ rows' \in [Row -> Entry \cup {None}]
      /\ \A q, s \in Row :
            Present(q)' /\ Present(s)' /\ rows'[q].scout = rows'[s].scout
              /\ rows'[q].number = rows'[s].number => q = s
      /\ \A q \in Row : Present(q)' => q \in used' /\ rows'[q].scout \in accounts'
  BY RowStep DEF people
<1>3. TypeOK'
  BY <1>1, <1>2 DEF TInv, TypeOK, people, bounds
<1> QED BY <1>1, <1>3 DEF TInv, SentKnown

\* A step that only takes rows away, or makes them forget what they were
\* promoted to.
LEMMA RowsStep ==
    ASSUME TInv, rows' \in [Row -> Entry \cup {None}],
           \A r \in Row : Present(r)' => /\ Present(r)
                                         /\ rows'[r].scout = rows[r].scout
                                         /\ rows'[r].number = rows[r].number
                                         /\ rows'[r].scout \in accounts',
           accounts' \subseteq accounts, UNCHANGED used
    PROVE  /\ \A q, r \in Row :
                 Present(q)' /\ Present(r)' /\ rows'[q].scout = rows'[r].scout
                   /\ rows'[q].number = rows'[r].number => q = r
           /\ \A r \in Row : Present(r)' => r \in used' /\ rows'[r].scout \in accounts'
  BY DEF TInv, TypeOK

-----------------------------------------------------------------------------
(* The requests that edit.                                                 *)

LEMMA CreateStep ==
    ASSUME TInv, NEW w \in Worker,
           \/ StartCreate(w) \/ ReadNumber(w) \/ Insert(w) \/ NumberTaken(w) \/ SheetGone(w)
    PROVE  TInv'
<1> DEFINE t == task[w]
<1>0. t \in Task /\ Good(w, t, used) /\ edits \in Nat /\ admin \in Nat /\ faults \in Nat
  BY DEF TInv, TypeOK
<1>1. CASE StartCreate(w)
  <2>1. PICK s \in Scout, h \in Handle \cup {None} :
            Become(w, [Idle EXCEPT !.pc = "number", !.scout = s, !.handle = h, !.attempt = 1])
    BY <1>1 DEF StartCreate
  <2> DEFINE n == [Idle EXCEPT !.pc = "number", !.scout = s, !.handle = h, !.attempt = 1]
  <2>2. n \in Task /\ Good(w, n, used)
    BY <1>1, WorkerAssumption
    DEF StartCreate, Idle, Task, Step, Good, EditorStep, PromoterStep, Sending
  <2> QED BY <1>0, <1>1, <2>1, <2>2, LocalStep DEF StartCreate, bounds
<1>2. CASE ReadNumber(w)
  <2>1. PICK n \in Numbers(t.scout) \cup {0} : Become(w, [t EXCEPT !.pc = "insert", !.number = n + 1])
    BY <1>2 DEF ReadNumber
  <2>2. n \in Nat
    BY <2>1 DEF Numbers, Present, TInv, TypeOK, Entry
  <2> DEFINE u == [t EXCEPT !.pc = "insert", !.number = n + 1]
  <2>3. t.pc = "number" /\ n + 1 \in Nat \ {0}
    BY <1>2, <2>2, Next1 DEF ReadNumber, At
  <2>4. u \in Task
    BY <1>0, <2>3 DEF Task, Step
  <2>5. Good(w, u, used)
    BY <1>0, <2>3 DEF Task, Good, EditorStep, PromoterStep, Sending
  <2> QED BY <1>0, <1>2, <2>1, <2>4, <2>5, LocalStep DEF ReadNumber, bounds
<1>3. CASE Insert(w)
  <2>1. /\ t.pc = "insert" /\ t.scout \in accounts /\ t.number \notin Numbers(t.scout)
        /\ UNCHANGED <<warned, people, promotion, bounds>>
    BY <1>3 DEF Insert, At
  <2>2. PICK r \in Row \ used :
            /\ rows' = [rows EXCEPT ![r] = NewEntry(t)]
            /\ used' = used \cup {r}
            /\ Become(w, [Idle EXCEPT !.pc = "check", !.row = r, !.handle = t.handle])
    BY <1>3 DEF Insert
  <2> DEFINE n == [Idle EXCEPT !.pc = "check", !.row = r, !.handle = t.handle]
  <2>3. n \in Task /\ Good(w, n, used')
    BY <1>0, <2>1, <2>2 DEF Idle, Task, Step, Good, EditorStep, PromoterStep, Sending
  <2>4. task' \in [Worker -> Task] /\ \A v \in Worker : Good(v, task'[v], used')
    BY <2>2, <2>3, TaskStep
  <2>5. NewEntry(t) \in Entry /\ rows' \in [Row -> Entry \cup {None}]
    BY <1>0, <2>1, <2>2 DEF NewEntry, Entry, Task, Good, TInv, TypeOK
  <2>6. /\ ~Present(r) /\ rows'[r] = NewEntry(t)
        /\ \A q \in Row \ {r} : rows'[q] = rows[q]
    BY <2>2 DEF TInv, TypeOK
  <2>7. ASSUME NEW q \in Row, NEW s \in Row, Present(q)', Present(s)',
               rows'[q].scout = rows'[s].scout, rows'[q].number = rows'[s].number
        PROVE  q = s
    BY <2>1, <2>6, <2>7 DEF Numbers, NewEntry, Present, TInv, TypeOK
  <2>8. \A q \in Row : Present(q)' => q \in used' /\ rows'[q].scout \in accounts'
    BY <2>1, <2>2, <2>6 DEF NewEntry, Present, TInv, TypeOK, people
  <2>9. TypeOK'
    BY <2>1, <2>2, <2>4, <2>5, <2>7, <2>8 DEF TInv, TypeOK, people, promotion, bounds
  <2>10. SentKnown'
    BY <2>1, <2>2 DEF TInv, SentKnown, promotion
  <2> QED BY <2>4, <2>9, <2>10 DEF TInv
<1>4. CASE NumberTaken(w)
  <2> DEFINE u == [t EXCEPT !.pc = "number", !.attempt = @ + 1, !.number = 0]
  <2>1. t.pc = "insert"
    BY <1>4 DEF NumberTaken, At
  <2>2. u \in Task
    BY <1>0, <2>1, Next1 DEF Task, Step
  <2>3. Good(w, u, used)
    BY <1>0, <2>1 DEF Task, Good, EditorStep, PromoterStep, Sending
  <2> QED BY <1>0, <1>4, <2>2, <2>3, IdleGood, LocalStep DEF NumberTaken, End, bounds
<1>5. CASE SheetGone(w)
  BY <1>0, <1>5, IdleGood, LocalStep DEF SheetGone, End, bounds
<1> QED BY <1>1, <1>2, <1>3, <1>4, <1>5

LEMMA EditStep ==
    ASSUME TInv, NEW w \in Worker,
           \/ CheckDuplicate(w) \/ StartEdit(w) \/ SaveLink(w) \/ Delete(w) \/ Review(w)
           \/ RowGone(w)
    PROVE  TInv'
<1> DEFINE t == task[w]
<1>0. t \in Task /\ Good(w, t, used) /\ edits \in Nat /\ admin \in Nat /\ faults \in Nat
  BY DEF TInv, TypeOK
<1>1. CASE CheckDuplicate(w)
  <2>1. /\ t.pc = "check" /\ Become(w, Idle)
        /\ warned' \subseteq Row \X Handle
        /\ UNCHANGED <<rows, used, people, promotion, bounds>>
    BY <1>0, <1>1 DEF CheckDuplicate, At, End, TInv, TypeOK, Good, EditorStep, Task
  <2>2. task' \in [Worker -> Task] /\ \A v \in Worker : Good(v, task'[v], used)
    BY <2>1, IdleGood, TaskStep
  <2>3. TypeOK'
    BY <2>1, <2>2 DEF TInv, TypeOK, Present, people, promotion, bounds
  <2> QED BY <2>1, <2>2, <2>3 DEF TInv, SentKnown, promotion
<1>2. CASE StartEdit(w)
  <2>1. PICK r \in Row, step \in {"save", "delete", "review"} :
            /\ Present(r)
            /\ Become(w, [Idle EXCEPT !.pc = step, !.row = r,
                                      !.handle = IF step = "save" THEN rows[r].handle ELSE None])
    BY <1>2 DEF StartEdit
  <2> DEFINE n == [Idle EXCEPT !.pc = step, !.row = r,
                               !.handle = IF step = "save" THEN rows[r].handle ELSE None]
  <2>2. rows[r] \in Entry /\ r \in used
    BY <2>1 DEF TInv, TypeOK, Present
  <2>3. n \in Task /\ Good(w, n, used)
    BY <1>2, <2>2, WorkerAssumption
    DEF StartEdit, Idle, Task, Step, Entry, Good, EditorStep, PromoterStep, Sending
  <2>4. edits' \in Nat
    BY <1>0, <1>2, Next1 DEF StartEdit, Edit
  <2> QED BY <1>0, <1>2, <2>1, <2>3, <2>4, LocalStep DEF StartEdit
<1>3. CASE SaveLink(w)
  <2>1. t.pc = "save" /\ Present(t.row) /\ t.row \in Row /\ rows[t.row] \in Entry
    BY <1>0, <1>3 DEF SaveLink, At, Good, TInv, TypeOK, Present
  <2>2. PICK h \in Handle \cup {None} :
            /\ rows' = [rows EXCEPT ![t.row].handle = h]
            /\ Become(w, [t EXCEPT !.pc = "check", !.handle = IF h # None THEN h ELSE @])
    BY <1>3 DEF SaveLink
  <2> DEFINE e == [rows[t.row] EXCEPT !.handle = h]
             u == [t EXCEPT !.pc = "check", !.handle = IF h # None THEN h ELSE @]
  <2>3. e \in Entry /\ e.scout = rows[t.row].scout /\ e.number = rows[t.row].number
    BY <2>1 DEF Entry
  <2>4. u \in Task /\ Good(w, u, used)
    BY <1>0, <2>1 DEF Task, Step, Good, EditorStep, PromoterStep, Sending
  <2>5. warned' \subseteq Row \X Handle /\ lost' \subseteq Row
        /\ UNCHANGED <<used, people, creators, studio, sentTo, crossed, bounds>>
    BY <1>3 DEF SaveLink, promotion, TInv, TypeOK
  <2> HIDE DEF e, u
  <2>6. rows' = [rows EXCEPT ![t.row] = e] /\ Become(w, u)
    BY <2>2 DEF e, u
  <2> QED BY <2>1, <2>3, <2>4, <2>5, <2>6, SheetStep
<1>4. CASE Delete(w)
  <2>1. t.pc = "delete" /\ t.row \in Row
    BY <1>0, <1>4 DEF Delete, At, Good, TInv, TypeOK
  <2>2. /\ rows' = [rows EXCEPT ![t.row] = None] /\ Become(w, Idle)
        /\ UNCHANGED <<used, warned, people, promotion, bounds>>
    BY <1>4 DEF Delete, End
  <2>3. task' \in [Worker -> Task] /\ \A v \in Worker : Good(v, task'[v], used)
    BY <2>2, IdleGood, TaskStep
  <2>4. /\ rows' \in [Row -> Entry \cup {None}]
        /\ \A r \in Row : Present(r)' => Present(r) /\ rows'[r] = rows[r]
    BY <2>1, <2>2 DEF TInv, TypeOK, Present
  <2>5. /\ \A q, r \in Row :
              Present(q)' /\ Present(r)' /\ rows'[q].scout = rows'[r].scout
                /\ rows'[q].number = rows'[r].number => q = r
        /\ \A r \in Row : Present(r)' => r \in used' /\ rows'[r].scout \in accounts'
    BY <2>2, <2>4 DEF TInv, TypeOK, people
  <2>6. TypeOK'
    BY <2>2, <2>3, <2>4, <2>5 DEF TInv, TypeOK, people, promotion, bounds
  <2> QED BY <2>2, <2>3, <2>6 DEF TInv, SentKnown, promotion
<1>5. CASE Review(w)
  <2>1. t.pc = "review" /\ Present(t.row) /\ t.row \in Row /\ rows[t.row] \in Entry
    BY <1>0, <1>5 DEF Review, At, Good, TInv, TypeOK, Present
  <2>2. PICK q \in BOOLEAN : rows' = [rows EXCEPT ![t.row].qualified = q]
    BY <1>5 DEF Review
  <2> DEFINE e == [rows[t.row] EXCEPT !.qualified = q]
  <2>3. e \in Entry /\ e.scout = rows[t.row].scout /\ e.number = rows[t.row].number
    BY <2>1 DEF Entry
  <2>4. /\ Become(w, Idle) /\ warned' \subseteq Row \X Handle /\ lost' \subseteq Row
        /\ UNCHANGED <<used, people, creators, studio, sentTo, crossed, bounds>>
    BY <1>5 DEF Review, End, promotion, TInv, TypeOK
  <2> HIDE DEF e
  <2>5. rows' = [rows EXCEPT ![t.row] = e]
    BY <2>2 DEF e
  <2> QED BY <2>1, <2>3, <2>4, <2>5, IdleGood, SheetStep
<1>6. CASE RowGone(w)
  BY <1>0, <1>6, IdleGood, LocalStep DEF RowGone, End, bounds
<1> QED BY <1>1, <1>2, <1>3, <1>4, <1>5, <1>6

-----------------------------------------------------------------------------
(* The requests that promote.                                              *)

LEMMA PromoteStep ==
    ASSUME TInv, NEW w \in Worker,
           StartPromote(w) \/ Upsert(w) \/ Mark(w) \/ StartRetry(w) \/ ReadForStudio(w)
    PROVE  TInv'
<1> DEFINE t == task[w]
<1>0. t \in Task /\ Good(w, t, used) /\ edits \in Nat /\ admin \in Nat /\ faults \in Nat
  BY DEF TInv, TypeOK
<1>1. CASE StartPromote(w)
  <2>1. PICK r \in Row :
            /\ Present(r) /\ rows[r].handle # None
            /\ Become(w, [Idle EXCEPT !.pc = "upsert", !.row = r, !.handle = rows[r].handle])
    BY <1>1 DEF StartPromote
  <2> DEFINE n == [Idle EXCEPT !.pc = "upsert", !.row = r, !.handle = rows[r].handle]
  <2>2. rows[r] \in Entry /\ r \in used
    BY <2>1 DEF TInv, TypeOK, Present
  <2>3. n \in Task /\ Good(w, n, used)
    BY <1>1, <2>1, <2>2, WorkerAssumption
    DEF StartPromote, Idle, Task, Step, Entry, Good, EditorStep, PromoterStep, Sending
  <2> QED BY <1>0, <1>1, <2>1, <2>3, LocalStep DEF StartPromote, bounds
<1>2. CASE Upsert(w)
  <2>1. t.pc = "upsert" /\ t.handle \in Handle
    BY <1>0, <1>2 DEF Upsert, At, Good
  <2> DEFINE n == [t EXCEPT !.pc = "mark"]
  <2>2. n \in Task /\ Good(w, n, used)
    BY <1>0, <2>1 DEF Task, Step, Good, EditorStep, PromoterStep, Sending
  <2>3. task' \in [Worker -> Task] /\ \A v \in Worker : Good(v, task'[v], used)
    BY <1>2, <2>2, TaskStep DEF Upsert, Goto
  <2>4. TypeOK'
    BY <1>2, <2>1, <2>3 DEF Upsert, TInv, TypeOK, Present, sheets, people, bounds
  <2> QED BY <1>2, <2>3, <2>4 DEF Upsert, TInv, SentKnown, sheets
<1>3. CASE Mark(w) /\ t.handle \in creators
  <2>1. t.pc = "mark" /\ Present(t.row) /\ t.row \in Row /\ rows[t.row] \in Entry
    BY <1>0, <1>3 DEF Mark, At, Good, TInv, TypeOK, Present
  <2> DEFINE e == [rows[t.row] EXCEPT !.promoted = t.handle]
             n == [t EXCEPT !.pc = "read", !.handle = None]
  <2>2. e \in Entry /\ e.scout = rows[t.row].scout /\ e.number = rows[t.row].number
    BY <1>0, <2>1 DEF Entry, Good, Task
  <2>3. n \in Task /\ Good(w, n, used)
    BY <1>0, <2>1 DEF Task, Step, Good, EditorStep, PromoterStep, Sending
  <2>4. rows' = [rows EXCEPT ![t.row] = e] /\ Become(w, n)
    BY <1>3 DEF Mark
  <2>5. /\ warned' \subseteq Row \X Handle /\ lost' \subseteq Row
        /\ UNCHANGED <<used, people, creators, studio, sentTo, crossed, bounds>>
    BY <1>3 DEF Mark, TInv, TypeOK
  <2> HIDE DEF e, n
  <2> QED BY <2>1, <2>2, <2>3, <2>4, <2>5, SheetStep
<1>4. CASE Mark(w) /\ t.handle \notin creators
  BY <1>0, <1>4, IdleGood, LocalStep DEF Mark, End, sheets, promotion, bounds
<1>5. CASE StartRetry(w)
  <2>1. PICK r \in Row :
            Present(r) /\ Become(w, [Idle EXCEPT !.pc = "read", !.row = r])
    BY <1>5 DEF StartRetry
  <2> DEFINE n == [Idle EXCEPT !.pc = "read", !.row = r]
  <2>2. r \in used
    BY <2>1 DEF TInv, TypeOK
  <2>3. n \in Task /\ Good(w, n, used)
    BY <1>5, <2>1, <2>2, WorkerAssumption
    DEF StartRetry, Idle, Task, Step, Good, EditorStep, PromoterStep, Sending
  <2> QED BY <1>0, <1>5, <2>1, <2>3, LocalStep DEF StartRetry, bounds
<1>6. CASE ReadForStudio(w)
  <2> DEFINE e == rows[t.row]
             n == [t EXCEPT !.pc = "call", !.handle = e.handle, !.attempt = 1,
                            !.campaign = campaignOf[e.scout]]
  <2>1. t.pc = "read" /\ t.row \in Row /\ e \in Entry
    BY <1>0, <1>6 DEF ReadForStudio, At, Good, TInv, TypeOK, Present
  <2>2. CASE ~e.addedAt /\ e.handle # None /\ campaignOf[e.scout] # None
    <3>1. n \in Task /\ Good(w, n, used)
      BY <1>0, <2>1, <2>2
      DEF Task, Step, Entry, Good, EditorStep, PromoterStep, Sending, TInv, TypeOK
    <3>2. Become(w, n) /\ crossed' \subseteq crossed \cup {t.row}
          /\ UNCHANGED <<sheets, people, creators, studio, sentTo, lost, bounds>>
      BY <1>6, <2>2 DEF ReadForStudio, Send
    <3>3. task' \in [Worker -> Task] /\ \A v \in Worker : Good(v, task'[v], used)
      BY <3>1, <3>2, TaskStep
    <3>4. crossed' \subseteq Row
      BY <2>1, <3>2 DEF TInv, TypeOK
    <3>5. TypeOK'
      BY <3>2, <3>3, <3>4 DEF TInv, TypeOK, Present, sheets, people, bounds
    <3> QED BY <3>2, <3>3, <3>5 DEF TInv, SentKnown, sheets
  <2>3. CASE ~(~e.addedAt /\ e.handle # None /\ campaignOf[e.scout] # None)
    BY <1>0, <1>6, <2>3, IdleGood, LocalStep DEF ReadForStudio, End, promotion, bounds
  <2> QED BY <2>2, <2>3
<1> QED BY <1>1, <1>2, <1>3, <1>4, <1>5, <1>6

\* A step that sends the row of a request, or not, and moves the request on.
LEMMA SendStep ==
    ASSUME TInv, NEW w \in Worker, NEW t \in Task, Good(w, t, used), Become(w, t),
           task[w].pc = "call",
           sentTo' = sentTo \/ Take(task[w]), faults' \in Nat,
           UNCHANGED <<sheets, people, creators, studio, lost, crossed, edits, admin>>
    PROVE  TInv'
<1>1. task' \in [Worker -> Task] /\ \A v \in Worker : Good(v, task'[v], used)
  BY TaskStep
<1>2. /\ task[w].row \in used /\ task[w].row \in Row
      /\ task[w].campaign \in Campaign /\ task[w].handle \in Handle
  BY DEF TInv, TypeOK, Good, Sending
<1>3. /\ sentTo' \in [Row -> SUBSET (Campaign \X Handle)]
      /\ \A r \in Row \ {task[w].row} : sentTo'[r] = sentTo[r]
  BY <1>2 DEF Take, TInv, TypeOK
<1>4. TypeOK'
  BY <1>1, <1>3 DEF TInv, TypeOK, Present, sheets, people
<1>5. SentKnown'
  BY <1>2, <1>3 DEF TInv, SentKnown, sheets
<1> QED BY <1>1, <1>4, <1>5 DEF TInv, sheets

LEMMA StudioStep ==
    ASSUME TInv, NEW w \in Worker,
           \/ Taken(w) \/ CampaignGone(w) \/ NoAnswer(w)
           \/ RecordAdded(w) \/ RecordFails(w) \/ RecordFailed(w)
    PROVE  TInv'
<1> DEFINE t == task[w]
<1>0. t \in Task /\ Good(w, t, used) /\ edits \in Nat /\ admin \in Nat /\ faults \in Nat
  BY DEF TInv, TypeOK
<1>1. CASE Taken(w)
  <2> DEFINE n == [t EXCEPT !.pc = "record", !.took = TRUE, !.attempt = 0]
  <2>1. n \in Task /\ Good(w, n, used)
    BY <1>0, <1>1 DEF Taken, At, Task, Step, Good, EditorStep, PromoterStep, Sending
  <2> QED BY <1>0, <1>1, <2>1, SendStep DEF Taken, At, bounds
<1>2. CASE CampaignGone(w)
  <2> DEFINE n == [t EXCEPT !.pc = "fail"]
  <2>1. n \in Task /\ Good(w, n, used)
    BY <1>0, <1>2 DEF CampaignGone, At, Task, Step, Good, EditorStep, PromoterStep, Sending
  <2> QED BY <1>0, <1>2, <2>1, LocalStep DEF CampaignGone, Goto, bounds
<1>3. CASE NoAnswer(w)
  <2>1. t.pc = "call"
    BY <1>3 DEF NoAnswer, At
  <2>2. PICK took \in {FALSE, t.campaign \in studio}, retryable \in BOOLEAN :
            /\ IF took THEN Take(t) ELSE UNCHANGED sentTo
            /\ Become(w, [t EXCEPT !.took = @ \/ took,
                                   !.pc = IF retryable /\ t.attempt < StudioAttempts
                                          THEN "call" ELSE "fail",
                                   !.attempt = @ + 1])
    BY <1>3 DEF NoAnswer
  <2>3. PICK pc \in {"call", "fail"}, b \in BOOLEAN, k \in Nat :
            Become(w, [t EXCEPT !.took = b, !.pc = pc, !.attempt = k])
    <3>1. t.attempt + 1 \in Nat
      BY <1>0, Next1 DEF Task
    <3>2. (t.took \/ took) \in BOOLEAN
      OBVIOUS
    <3>3. (IF retryable /\ t.attempt < StudioAttempts THEN "call" ELSE "fail") \in {"call", "fail"}
      OBVIOUS
    <3> QED BY <2>2, <3>1, <3>2, <3>3
  <2> DEFINE n == [t EXCEPT !.took = b, !.pc = pc, !.attempt = k]
  <2>4. n \in Task /\ Good(w, n, used)
    BY <1>0, <2>1 DEF Task, Step, Good, EditorStep, PromoterStep, Sending
  <2>5. faults' \in Nat
    BY <1>0, <1>3, Next1 DEF NoAnswer, Fault
  <2>6. sentTo' = sentTo \/ Take(t)
    BY <2>2
  <2>7. UNCHANGED <<sheets, people, creators, studio, lost, crossed, edits, admin>>
    BY <1>3 DEF NoAnswer
  <2> HIDE DEF n
  <2>8. Become(w, n)
    BY <2>3 DEF n
  <2> QED BY <2>1, <2>4, <2>5, <2>6, <2>7, <2>8, SendStep
<1>4. CASE RecordAdded(w)
  <2>1. t.pc = "record" /\ Present(t.row) /\ t.row \in Row /\ rows[t.row] \in Entry
    BY <1>0, <1>4 DEF RecordAdded, At, Good, TInv, TypeOK, Present
  <2> DEFINE e == [rows[t.row] EXCEPT !.campaign = t.campaign, !.addedAt = TRUE, !.error = FALSE]
  <2>2. e \in Entry /\ e.scout = rows[t.row].scout /\ e.number = rows[t.row].number
    BY <1>0, <2>1 DEF Entry, Task
  <2>3. rows' = [rows EXCEPT ![t.row] = e]
    BY <1>4 DEF RecordAdded
  <2>4. /\ Become(w, Idle) /\ warned' \subseteq Row \X Handle /\ lost' \subseteq Row
        /\ UNCHANGED <<used, people, creators, studio, sentTo, crossed, bounds>>
    BY <1>4 DEF RecordAdded, End, promotion, TInv, TypeOK
  <2> HIDE DEF e
  <2> QED BY <2>1, <2>2, <2>3, <2>4, IdleGood, SheetStep
<1>5. CASE RecordFails(w)
  <2> DEFINE n == [t EXCEPT !.pc = "fail"]
  <2>1. n \in Task /\ Good(w, n, used)
    BY <1>0, <1>5 DEF RecordFails, At, Task, Step, Good, EditorStep, PromoterStep, Sending
  <2>2. faults' \in Nat
    BY <1>0, <1>5, Next1 DEF RecordFails, Fault
  <2> QED BY <1>0, <1>5, <2>1, <2>2, LocalStep DEF RecordFails, Goto
<1>6. CASE RecordFailed(w)
  <2>1. t.pc = "fail" /\ t.row \in Row
    BY <1>0, <1>6 DEF RecordFailed, At, Good, TInv, TypeOK
  <2>2. /\ Become(w, Idle) /\ warned' \subseteq Row \X Handle
        /\ UNCHANGED <<used, people, creators, studio, sentTo, crossed, bounds>>
    BY <1>6 DEF RecordFailed, End, TInv, TypeOK
  <2>3. lost' \subseteq Row
    BY <1>6, <2>1 DEF RecordFailed, Unrecorded, TInv, TypeOK
  <2>4. CASE Present(t.row)
    <3> DEFINE e == [rows[t.row] EXCEPT !.campaign = t.campaign, !.error = TRUE]
    <3>1. rows[t.row] \in Entry
      BY <2>1, <2>4 DEF TInv, TypeOK, Present
    <3>2. e \in Entry /\ e.scout = rows[t.row].scout /\ e.number = rows[t.row].number
      BY <1>0, <3>1 DEF Entry, Task
    <3>3. rows' = [rows EXCEPT ![t.row] = e]
      BY <1>6, <2>4 DEF RecordFailed
    <3> HIDE DEF e
    <3> QED BY <2>1, <2>2, <2>3, <2>4, <3>2, <3>3, IdleGood, SheetStep
  <2>5. CASE ~Present(t.row)
    <3>1. task' \in [Worker -> Task] /\ \A v \in Worker : Good(v, task'[v], used)
      BY <2>2, IdleGood, TaskStep
    <3>2. rows' = rows
      BY <1>6, <2>5 DEF RecordFailed
    <3>3. TypeOK'
      BY <2>2, <2>3, <3>1, <3>2 DEF TInv, TypeOK, Present, people, bounds
    <3> QED BY <2>2, <3>1, <3>3 DEF TInv, SentKnown
  <2> QED BY <2>4, <2>5
<1> QED BY <1>1, <1>2, <1>3, <1>4, <1>5, <1>6

-----------------------------------------------------------------------------
(* The environment.                                                        *)

LEMMA EnvironmentStep == ASSUME TInv, Environment PROVE TInv'
<1>0. edits \in Nat /\ admin \in Nat /\ faults \in Nat
  BY DEF TInv, TypeOK
<1>1. ASSUME NEW s \in Scout, AssignCampaign(s) PROVE TInv'
  <2>1. campaignOf' \in [Scout -> Campaign \cup {None}] /\ admin' \in Nat
    BY <1>0, <1>1, Next1 DEF AssignCampaign, Admin, TInv, TypeOK
  <2>2. TypeOK'
    BY <1>1, <2>1 DEF AssignCampaign, TInv, TypeOK, Present, sheets, promotion
  <2> QED BY <1>1, <2>2 DEF AssignCampaign, TInv, SentKnown, sheets, promotion
<1>2. ASSUME NEW s \in Scout, RemoveAccount(s) PROVE TInv'
  <2>1. rows' = [r \in Row |-> IF Present(r) /\ rows[r].scout = s THEN None ELSE rows[r]]
        /\ accounts' = accounts \ {s} /\ UNCHANGED used
    BY <1>2 DEF RemoveAccount
  <2>2. /\ rows' \in [Row -> Entry \cup {None}]
        /\ \A r \in Row : Present(r)' => Present(r) /\ rows'[r] = rows[r] /\ rows[r].scout # s
    BY <2>1 DEF TInv, TypeOK, Present
  <2>3. \A r \in Row : Present(r)' => rows'[r].scout \in accounts'
    BY <2>1, <2>2 DEF TInv, TypeOK
  <2>4. /\ \A q, r \in Row :
              Present(q)' /\ Present(r)' /\ rows'[q].scout = rows'[r].scout
                /\ rows'[q].number = rows'[r].number => q = r
        /\ \A r \in Row : Present(r)' => r \in used' /\ rows'[r].scout \in accounts'
    BY <2>1, <2>2, <2>3, RowsStep
  <2>5. admin' \in Nat
    BY <1>0, <1>2, Next1 DEF RemoveAccount, Admin
  <2>6. TypeOK'
    BY <1>2, <2>2, <2>4, <2>5 DEF RemoveAccount, TInv, TypeOK, promotion
  <2> QED BY <1>2, <2>6 DEF RemoveAccount, TInv, SentKnown, promotion
<1>3. ASSUME NEW h \in Handle, DeleteCreator(h) PROVE TInv'
  <2>1. /\ rows' = [r \in Row |-> IF Present(r) /\ rows[r].promoted = h
                                  THEN [rows[r] EXCEPT !.promoted = None] ELSE rows[r]]
        /\ UNCHANGED <<used, accounts>>
    BY <1>3 DEF DeleteCreator, people
  <2>2. \A r \in Row : Present(r) => rows[r] \in Entry /\ [rows[r] EXCEPT !.promoted = None] \in Entry
    BY DEF TInv, TypeOK, Present, Entry
  <2>3. rows' \in [Row -> Entry \cup {None}]
    BY <2>1, <2>2 DEF TInv, TypeOK, Present
  <2>4. \A r \in Row : Present(r)' => /\ Present(r)
                                      /\ rows'[r].scout = rows[r].scout
                                      /\ rows'[r].number = rows[r].number
    BY <2>1, <2>2 DEF Present, Entry
  <2>5. \A r \in Row : Present(r)' => rows'[r].scout \in accounts'
    BY <2>1, <2>4 DEF TInv, TypeOK
  <2>6. /\ \A q, r \in Row :
              Present(q)' /\ Present(r)' /\ rows'[q].scout = rows'[r].scout
                /\ rows'[q].number = rows'[r].number => q = r
        /\ \A r \in Row : Present(r)' => r \in used' /\ rows'[r].scout \in accounts'
    BY <2>1, <2>3, <2>4, <2>5, RowsStep
  <2>7. admin' \in Nat
    BY <1>0, <1>3, Next1 DEF DeleteCreator, Admin
  <2>8. TypeOK'
    BY <1>3, <2>3, <2>6, <2>7 DEF DeleteCreator, TInv, TypeOK, people
  <2> QED BY <1>3, <2>8 DEF DeleteCreator, TInv, SentKnown
<1>4. ASSUME NEW c \in Campaign, DeleteCampaign(c) PROVE TInv'
  <2>1. studio' \subseteq Campaign /\ admin' \in Nat
    BY <1>0, <1>4, Next1 DEF DeleteCampaign, Admin, TInv, TypeOK
  <2>2. TypeOK'
    BY <1>4, <2>1 DEF DeleteCampaign, TInv, TypeOK, Present, sheets, people
  <2> QED BY <1>4, <2>2 DEF DeleteCampaign, TInv, SentKnown, sheets
<1>5. CASE Restart
  <2>1. \A w \in Worker : task[w] \in Task /\ Good(w, task[w], used) /\ used \subseteq Row
    BY DEF TInv, TypeOK
  <2>2. lost' \subseteq Row
    BY <1>5, <2>1 DEF Restart, Unrecorded, TInv, TypeOK, Good, Sending
  <2>3. warned' \subseteq Row \X Handle
    BY <1>5, <2>1 DEF Restart, At, TInv, TypeOK, Good, Task, Worker
  <2>4. task' \in [Worker -> Task] /\ \A w \in Worker : Good(w, task'[w], used)
    BY <1>5, IdleGood DEF Restart
  <2>5. faults' \in Nat
    BY <1>0, <1>5, Next1 DEF Restart, Fault
  <2>6. TypeOK'
    BY <1>5, <2>2, <2>3, <2>4, <2>5 DEF Restart, TInv, TypeOK, Present, people
  <2> QED BY <1>5, <2>4, <2>6 DEF Restart, TInv, SentKnown
<1> QED BY <1>1, <1>2, <1>3, <1>4, <1>5 DEF Environment

-----------------------------------------------------------------------------
(* Type correctness.                                                       *)

LEMMA InitTyped == Init => TInv
<1> SUFFICES ASSUME Init PROVE TInv
  OBVIOUS
<1>1. TypeOK
  BY IdleGood DEF Init, TypeOK, Present
<1> QED BY <1>1, IdleGood DEF Init, TInv, SentKnown

LEMMA TypedStep == TInv /\ [Next]_vars => TInv'
<1> SUFFICES ASSUME TInv, [Next]_vars PROVE TInv'
  OBVIOUS
<1>1. ASSUME NEW w \in Worker, Request(w) PROVE TInv'
  BY <1>1, CreateStep, EditStep, PromoteStep, StudioStep DEF Request
<1>2. CASE UNCHANGED vars
  BY <1>2 DEF vars, TInv, TypeOK, SentKnown, Present
<1> QED BY <1>1, <1>2, EnvironmentStep DEF Next

LEMMA AlwaysTyped == Spec => []TInv
  BY InitTyped, TypedStep, PTL DEF Spec

\* Every table and local variable stays well typed, no two rows of a sheet
\* have one number, and every row is on the sheet of an account.
\* (scouts.service.ts create, users.service.ts remove)
THEOREM TypeCorrect == Spec => []TypeOK
<1>1. TInv => TypeOK
  BY DEF TInv
<1> QED BY <1>1, AlwaysTyped, PTL

-----------------------------------------------------------------------------
(* Deal Studio, whatever requests promote.                                 *)

\* Request w is sending row r.
Sends(w, r) == task[w].pc \in Sending /\ task[w].row = r

\* Request w has sent row r and has not recorded the outcome.
Holds(w, r) == Sends(w, r) /\ task[w].took

\* Two requests are not sending one row, but for the rows that are crossed.
Alone ==
    \A v, w \in Promoter :
        task[v].pc \in Sending /\ Sends(w, task[v].row) /\ task[v].row \notin crossed => v = w

\* A request that sends a row took it to its campaign or not; unless the row is
\* crossed, it is not added, and is where the request took it and nowhere else,
\* or an earlier outcome was lost.
Sender(w) ==
    LET t == task[w] IN
    t.pc \in Sending =>
        /\ t.took => t.campaign \in Campaigns(t.row)
        /\ Present(t.row) /\ t.row \notin crossed => ~rows[t.row].addedAt
        /\ t.row \notin lost \cup crossed =>
              Campaigns(t.row) \subseteq (IF t.took THEN {t.campaign} ELSE {})

\* A row that was sent and is not recorded as added is in somebody's hands.
Held ==
    \A r \in Row \ (lost \cup crossed) :
        Present(r) /\ ~rows[r].addedAt /\ Campaigns(r) # {} => \E w \in Promoter : Holds(w, r)

\* The inductive invariant of the sending.
SInv ==
    /\ AddedWhereRecorded
    /\ SecondCampaignOnlyIfLost
    /\ \A w \in Promoter : Sender(w)
    /\ Alone
    /\ Held

\* Row r is as it was to the sending, or new.
SameRow(r) ==
    Present(r)' =>
        \/ /\ Present(r)
           /\ rows'[r].campaign = rows[r].campaign
           /\ rows'[r].addedAt = rows[r].addedAt /\ rows'[r].error = rows[r].error
        \/ r \notin used /\ ~rows'[r].addedAt

\* Request w sends what it sent, or nothing.
SameSender(w) ==
    /\ task'[w].pc \in Sending <=> task[w].pc \in Sending
    /\ task[w].pc \in Sending => /\ task'[w].row = task[w].row
                                 /\ task'[w].took = task[w].took
                                 /\ task'[w].campaign = task[w].campaign

\* The steps that do not concern Deal Studio.
LEMMA Undisturbed ==
    ASSUME TInv, SInv, \A r \in Row : SameRow(r), \A w \in Promoter : SameSender(w),
           UNCHANGED <<sentTo, lost, crossed>>
    PROVE  SInv'
<1>0. \A r \in Row : Campaigns(r)' = Campaigns(r)
  BY DEF Campaigns
<1>1. AddedWhereRecorded'
  BY <1>0 DEF SInv, AddedWhereRecorded, SameRow, Campaigns
<1>2. SecondCampaignOnlyIfLost'
  BY <1>0 DEF SInv, SecondCampaignOnlyIfLost, Campaigns
<1>3. ASSUME NEW w \in Promoter PROVE Sender(w)'
  <2> SUFFICES ASSUME task'[w].pc \in Sending PROVE Sender(w)'
    BY DEF Sender
  <2>1. task[w].pc \in Sending /\ task'[w].row = task[w].row
        /\ task'[w].took = task[w].took /\ task'[w].campaign = task[w].campaign
    BY DEF SameSender
  <2>2. task[w].row \in used /\ task[w].row \in Row
    BY <2>1 DEF TInv, TypeOK, Good, Sending, Worker
  <2>3. Sender(w)
    BY DEF SInv
  <2>4. Present(task[w].row)' /\ task[w].row \notin crossed => ~rows'[task[w].row].addedAt
    BY <2>1, <2>2, <2>3 DEF Sender, SameRow
  <2> QED BY <2>1, <2>2, <2>3, <2>4 DEF Sender, Campaigns
<1>4. Alone'
  BY DEF SInv, Alone, Sends, SameSender
<1>5. Held'
  <2> SUFFICES ASSUME NEW r \in Row \ (lost \cup crossed), Present(r)', ~rows'[r].addedAt,
                      Campaigns(r) # {}
               PROVE  \E w \in Promoter : Holds(w, r)'
    BY <1>0 DEF Held, Campaigns
  <2>1. r \in used
    BY DEF TInv, SentKnown, Campaigns
  <2>2. Present(r) /\ ~rows[r].addedAt
    BY <2>1 DEF SameRow
  <2>3. PICK w \in Promoter : Holds(w, r)
    BY <2>2 DEF SInv, Held
  <2> QED BY <2>3 DEF Holds, Sends, SameSender
<1> QED BY <1>1, <1>2, <1>3, <1>4, <1>5 DEF SInv

\* The steps of the requests that edit.
LEMMA EditorSends ==
    ASSUME TInv, SInv, NEW w \in Worker,
           \/ StartCreate(w) \/ ReadNumber(w) \/ Insert(w) \/ NumberTaken(w) \/ SheetGone(w)
           \/ CheckDuplicate(w)
           \/ StartEdit(w) \/ SaveLink(w) \/ Delete(w) \/ Review(w) \/ RowGone(w)
    PROVE  SInv'
<1>0. Good(w, task[w], used) /\ task[w] \in Task
  BY DEF TInv, TypeOK
<1>1. task[w].pc \notin Sending
  BY <1>0, WorkerAssumption
  DEF StartCreate, ReadNumber, Insert, NumberTaken, SheetGone, CheckDuplicate, StartEdit,
      SaveLink, Delete, Review, RowGone, At, Sending
<1>2. task \in [Worker -> Task]
  BY DEF TInv, TypeOK
<1>3. /\ task'[w].pc \notin Sending
      /\ \A v \in Worker \ {w} : task'[v] = task[v]
  <2>1. CASE StartCreate(w)
    BY <1>2, <2>1 DEF Become, StartCreate, Idle, Sending
  <2>2. CASE ReadNumber(w)
    BY <1>0, <1>2, <2>2 DEF Become, ReadNumber, Sending, Task
  <2>3. CASE Insert(w)
    BY <1>2, <2>3 DEF Become, Insert, Idle, Sending
  <2>4. CASE NumberTaken(w)
    <3> DEFINE u == [task[w] EXCEPT !.pc = "number", !.attempt = @ + 1, !.number = 0]
    <3>1. Become(w, u) \/ Become(w, Idle)
      BY <2>4 DEF NumberTaken, End
    <3>2. u.pc = "number"
      BY <1>0 DEF Task
    <3> HIDE DEF u
    <3>3. CASE Become(w, u)
      BY <1>2, <3>2, <3>3 DEF Become, Sending
    <3>4. CASE Become(w, Idle)
      BY <1>2, <3>4 DEF Become, Idle, Sending
    <3> QED BY <3>1, <3>3, <3>4
  <2>5. CASE StartEdit(w)
    BY <1>2, <2>5 DEF Become, StartEdit, Idle, Sending
  <2>6. CASE SaveLink(w)
    BY <1>0, <1>2, <2>6 DEF Become, SaveLink, Sending, Task
  <2>7. CASE SheetGone(w) \/ CheckDuplicate(w) \/ Delete(w) \/ Review(w) \/ RowGone(w)
    BY <1>2, <2>7 DEF Become, SheetGone, CheckDuplicate, Delete, Review, RowGone, End, Idle, Sending
  <2> QED BY <2>1, <2>2, <2>3, <2>4, <2>5, <2>6, <2>7
<1>4. \A v \in Promoter : SameSender(v)
  BY <1>1, <1>3 DEF SameSender, Worker
<1>5. UNCHANGED <<sentTo, lost, crossed>>
  BY DEF StartCreate, ReadNumber, Insert, NumberTaken, SheetGone, CheckDuplicate, StartEdit,
      SaveLink, Delete, Review, RowGone, promotion
<1>6. ASSUME NEW r \in Row PROVE SameRow(r)
  <2>1. CASE Insert(w)
    <3>1. PICK s \in Row \ used : rows' = [rows EXCEPT ![s] = NewEntry(task[w])]
      BY <2>1 DEF Insert
    <3>2. CASE r = s
      <4>1. rows'[r] = NewEntry(task[w])
        BY <3>1, <3>2 DEF TInv, TypeOK
      <4>2. NewEntry(task[w]).addedAt = FALSE
        BY DEF NewEntry
      <4> QED BY <3>1, <3>2, <4>1, <4>2 DEF SameRow
    <3>3. CASE r # s
      BY <3>1, <3>3 DEF SameRow, Present, TInv, TypeOK
    <3> QED BY <3>2, <3>3
  <2>2. CASE SaveLink(w)
    <3>1. PICK h : rows' = [rows EXCEPT ![task[w].row].handle = h]
      BY <2>2 DEF SaveLink
    <3>2. Present(task[w].row) /\ (r = task[w].row => rows[r] \in Entry)
      BY <2>2 DEF SaveLink, TInv, TypeOK, Present
    <3> QED BY <3>1, <3>2 DEF SameRow, TInv, TypeOK, Present, Entry
  <2>3. CASE Delete(w)
    BY <2>3 DEF Delete, SameRow, TInv, TypeOK, Present
  <2>4. CASE Review(w)
    <3>1. PICK q : rows' = [rows EXCEPT ![task[w].row].qualified = q]
      BY <2>4 DEF Review
    <3>2. Present(task[w].row) /\ (r = task[w].row => rows[r] \in Entry)
      BY <2>4 DEF Review, TInv, TypeOK, Present
    <3> QED BY <3>1, <3>2 DEF SameRow, TInv, TypeOK, Present, Entry
  <2>5. CASE UNCHANGED rows
    BY <2>5 DEF SameRow, Present
  <2> QED BY <2>1, <2>2, <2>3, <2>4, <2>5
          DEF StartCreate, ReadNumber, NumberTaken, SheetGone, CheckDuplicate, StartEdit,
              RowGone, sheets
<1> QED BY <1>4, <1>5, <1>6, Undisturbed

\* The steps of a promotion around the sending.
LEMMA PromoterPrepares ==
    ASSUME TInv, SInv, NEW w \in Worker,
           \/ StartPromote(w) \/ Upsert(w) \/ Mark(w) \/ StartRetry(w)
           \/ ReadForStudio(w) /\ Become(w, Idle)
           \/ CampaignGone(w) \/ RecordFails(w)
    PROVE  SInv'
<1>0. Good(w, task[w], used) /\ task[w] \in Task /\ task \in [Worker -> Task]
  BY DEF TInv, TypeOK
<1>1. \A v \in Promoter : SameSender(v)
  <2>1. CASE StartPromote(w)
    <3>1. task[w].pc = "idle"
      BY <2>1 DEF StartPromote, At
    <3>2. PICK r : Become(w, [Idle EXCEPT !.pc = "upsert", !.row = r, !.handle = rows[r].handle])
      BY <2>1 DEF StartPromote
    <3> QED BY <1>0, <3>1, <3>2 DEF Become, Idle, Sending, SameSender, Worker
  <2>2. CASE Upsert(w)
    BY <1>0, <2>2 DEF Upsert, At, Goto, Become, Sending, SameSender, Worker, Task
  <2>3. CASE Mark(w) /\ task[w].handle \in creators
    <3>1. task[w].pc = "mark" /\ Become(w, [task[w] EXCEPT !.pc = "read", !.handle = None])
      BY <2>3 DEF Mark, At
    <3> QED BY <1>0, <3>1 DEF Become, Sending, SameSender, Worker, Task
  <2>4. CASE Mark(w) /\ task[w].handle \notin creators
    BY <1>0, <2>4 DEF Mark, At, End, Become, Idle, Sending, SameSender, Worker
  <2>5. CASE StartRetry(w)
    BY <1>0, <2>5 DEF StartRetry, At, Become, Idle, Sending, SameSender, Worker
  <2>6. CASE ReadForStudio(w) /\ Become(w, Idle)
    BY <1>0, <2>6 DEF ReadForStudio, At, Become, Idle, Sending, SameSender, Worker
  <2>7. CASE CampaignGone(w)
    BY <1>0, <2>7 DEF CampaignGone, At, Goto, Become, Sending, SameSender, Worker, Task
  <2>8. CASE RecordFails(w)
    BY <1>0, <2>8 DEF RecordFails, At, Goto, Become, Sending, SameSender, Worker, Task
  <2> QED BY <2>1, <2>2, <2>3, <2>4, <2>5, <2>6, <2>7, <2>8
<1>2. UNCHANGED <<sentTo, lost, crossed>>
  <2>1. CASE ReadForStudio(w) /\ Become(w, Idle)
    <3>1. ~Send(w, rows[task[w].row])
      <4>1. task'[w].pc = "idle"
        BY <1>0, <2>1 DEF Become, Idle
      <4>2. Send(w, rows[task[w].row]) => task'[w].pc = "call"
        BY <1>0 DEF Send, Become, Task
      <4> QED BY <4>1, <4>2
    <3> QED BY <2>1, <3>1 DEF ReadForStudio
  <2> QED BY <2>1 DEF StartPromote, Upsert, Mark, StartRetry, CampaignGone, RecordFails, promotion
<1>3. ASSUME NEW r \in Row PROVE SameRow(r)
  <2>1. CASE Mark(w) /\ task[w].handle \in creators
    <3>1. rows' = [rows EXCEPT ![task[w].row].promoted = task[w].handle] /\ Present(task[w].row)
      BY <2>1 DEF Mark
    <3>2. r = task[w].row => rows[r] \in Entry
      BY <3>1 DEF TInv, TypeOK, Present
    <3> QED BY <3>1, <3>2 DEF SameRow, TInv, TypeOK, Present, Entry
  <2>2. CASE UNCHANGED rows
    BY <2>2 DEF SameRow, Present
  <2> QED BY <2>1, <2>2
          DEF StartPromote, Upsert, Mark, StartRetry, ReadForStudio, CampaignGone, RecordFails,
              sheets
<1> QED BY <1>1, <1>2, <1>3, Undisturbed

\* The row is read, and was not sent, or the outcome was lost, or another
\* request is sending it.
LEMMA ReadSends ==
    ASSUME TInv, SInv, NEW w \in Promoter, ReadForStudio(w), ~Become(w, Idle)
    PROVE  SInv'
<1> DEFINE t == task[w]
<1>0. Good(w, t, used) /\ t \in Task /\ w \in Worker /\ task \in [Worker -> Task]
  BY DEF TInv, TypeOK, Worker
<1>1. /\ t.pc = "read" /\ Present(t.row) /\ ~rows[t.row].addedAt
      /\ t.row \in Row /\ ~t.took /\ Send(w, rows[t.row])
      /\ UNCHANGED <<rows, used, sentTo, lost>>
  BY <1>0 DEF ReadForStudio, At, End, Good, Sending, sheets, TInv, TypeOK, Task
<1>2. /\ task'[w].pc = "call" /\ task'[w].row = t.row /\ task'[w].took = t.took
      /\ \A v \in Promoter \ {w} : task'[v] = task[v]
  BY <1>0, <1>1 DEF Send, Become, Task, Worker
<1>3. PICK s \in Row : s = t.row
  BY <1>1
<1>4. crossed' = IF Senders(s) # {} THEN crossed \cup {s} ELSE crossed
  BY <1>1, <1>3 DEF Send
<1>5. crossed \subseteq crossed'
  BY <1>4
<1>6. ASSUME NEW v \in Promoter, Sends(v, s) PROVE s \in crossed'
  BY <1>4, <1>6 DEF Senders, Sends, Sending
<1>7. s \notin lost \cup crossed' => Campaigns(s) = {}
  <2> SUFFICES ASSUME s \notin lost \cup crossed', Campaigns(s) # {} PROVE FALSE
    OBVIOUS
  <2>1. PICK v \in Promoter : Holds(v, s)
    BY <1>1, <1>3, <1>5 DEF SInv, Held
  <2> QED BY <1>6, <2>1 DEF Holds
<1>8. \A r \in Row : Campaigns(r)' = Campaigns(r)
  BY <1>1 DEF Campaigns
<1>9. ASSUME NEW v \in Promoter PROVE Sender(v)'
  <2>1. CASE v = w
    BY <1>1, <1>2, <1>3, <1>7, <2>1 DEF Sender, Present, Campaigns
  <2>2. CASE v # w
    <3>1. Sender(v) /\ task'[v] = task[v]
      BY <1>2, <2>2 DEF SInv
    <3> QED BY <1>1, <1>5, <3>1 DEF Sender, Present, Campaigns
  <2> QED BY <2>1, <2>2
<1>10. Alone'
  <2> SUFFICES ASSUME NEW u \in Promoter, NEW v \in Promoter, task'[u].pc \in Sending,
                      Sends(v, task[u].row)', task'[u].row \notin crossed', u # v
               PROVE  FALSE
    BY DEF Alone, Sends
  <2>1. task'[u].row = task'[v].row /\ task'[v].pc \in Sending
    BY DEF Sends
  <2>2. CASE u = w
    BY <1>2, <1>3, <1>6, <2>1, <2>2 DEF Sends
  <2>3. CASE v = w
    BY <1>2, <1>3, <1>6, <2>1, <2>3 DEF Sends
  <2>4. CASE u # w /\ v # w
    <3>1. task'[u] = task[u] /\ task'[v] = task[v]
      BY <1>2, <2>4
    <3> QED BY <1>5, <2>1, <3>1 DEF SInv, Alone, Sends
  <2> QED BY <2>2, <2>3, <2>4
<1>11. Held'
  <2> SUFFICES ASSUME NEW r \in Row \ (lost \cup crossed'), Present(r), ~rows[r].addedAt,
                      Campaigns(r) # {}
               PROVE  \E v \in Promoter : Holds(v, r)'
    BY <1>1, <1>8 DEF Held, Present, Campaigns
  <2>1. PICK v \in Promoter : Holds(v, r)
    BY <1>5 DEF SInv, Held
  <2>2. v # w
    BY <1>1, <2>1 DEF Holds, Sends, Sending
  <2> QED BY <1>2, <2>1, <2>2 DEF Holds, Sends
<1>12. (AddedWhereRecorded /\ SecondCampaignOnlyIfLost)'
  BY <1>1, <1>5, <1>8 DEF SInv, AddedWhereRecorded, SecondCampaignOnlyIfLost, Present, Campaigns
<1> QED BY <1>9, <1>10, <1>11, <1>12 DEF SInv

\* What is sent once more is in one more campaign.
LEMMA FirstAdded ==
    ASSUME NEW set, NEW c, NEW h
    PROVE  {p[1] : p \in set \cup {<<c, h>>}} = {p[1] : p \in set} \cup {c}
<1> DEFINE pair == <<c, h>>
<1>1. pair[1] = c
  OBVIOUS
<1> HIDE DEF pair
<1>2. {p[1] : p \in set \cup {pair}} = {p[1] : p \in set} \cup {pair[1]}
  OBVIOUS
<1> QED BY <1>1, <1>2 DEF pair

\* Deal Studio takes the creator, or does not, and the outcome is not recorded yet.
LEMMA CallSends ==
    ASSUME TInv, SInv, NEW w \in Promoter, Taken(w) \/ NoAnswer(w)
    PROVE  SInv'
<1>0. Good(w, task[w], used) /\ task[w] \in Task /\ w \in Worker /\ task \in [Worker -> Task]
  BY DEF TInv, TypeOK, Worker
<1>1. task[w].pc = "call" /\ UNCHANGED <<rows, used, lost, crossed>>
  BY DEF Taken, NoAnswer, At, sheets
<1>2. PICK s \in Row, c \in Campaign, h \in Handle :
          s = task[w].row /\ c = task[w].campaign /\ h = task[w].handle
  BY <1>0, <1>1 DEF Good, Sending, TInv, TypeOK
<1>3. /\ task'[w].pc \in Sending /\ task'[w].row = s /\ task'[w].campaign = c
      /\ \/ Take(task[w]) /\ task'[w].took
         \/ UNCHANGED sentTo /\ task'[w].took = task[w].took
  <2>1. CASE Taken(w)
    BY <1>0, <1>2, <2>1 DEF Taken, Become, Task, Sending
  <2>2. CASE NoAnswer(w)
    <3>1. PICK took \in {FALSE, task[w].campaign \in studio}, retryable \in BOOLEAN :
              /\ IF took THEN Take(task[w]) ELSE UNCHANGED sentTo
              /\ Become(w, [task[w] EXCEPT !.took = @ \/ took,
                                           !.pc = IF retryable /\ task[w].attempt < StudioAttempts
                                                  THEN "call" ELSE "fail",
                                           !.attempt = @ + 1])
      BY <2>2 DEF NoAnswer
    <3> DEFINE u == [task[w] EXCEPT !.took = @ \/ took,
                                    !.pc = IF retryable /\ task[w].attempt < StudioAttempts
                                           THEN "call" ELSE "fail",
                                    !.attempt = @ + 1]
    <3>2. /\ u.took = (task[w].took \/ took) /\ u.pc \in {"call", "fail"}
          /\ u.row = task[w].row /\ u.campaign = task[w].campaign
      BY <1>0 DEF Task
    <3> HIDE DEF u
    <3>3. task'[w] = u
      BY <1>0, <3>1 DEF Become, u
    <3>4. CASE took
      BY <1>2, <3>1, <3>2, <3>3, <3>4 DEF Sending
    <3>5. CASE ~took
      <4>1. task[w].took \in BOOLEAN
        BY <1>0 DEF Task
      <4> QED BY <1>2, <3>1, <3>2, <3>3, <3>5, <4>1 DEF Sending
    <3> QED BY <3>4, <3>5
  <2> QED BY <2>1, <2>2
<1>4. /\ \A r \in Row \ {s} : Campaigns(r)' = Campaigns(r)
      /\ \/ Campaigns(s)' = Campaigns(s) \cup {c} /\ task'[w].took
         \/ Campaigns(s)' = Campaigns(s) /\ task'[w].took = task[w].took
  <2>1. CASE Take(task[w]) /\ task'[w].took
    <3>1. /\ \A r \in Row \ {s} : sentTo'[r] = sentTo[r]
          /\ sentTo'[s] = sentTo[s] \cup {<<c, h>>}
      BY <1>2, <2>1 DEF Take, TInv, TypeOK
    <3>2. {p[1] : p \in sentTo[s] \cup {<<c, h>>}} = {p[1] : p \in sentTo[s]} \cup {c}
      BY FirstAdded
    <3> QED BY <2>1, <3>1, <3>2 DEF Campaigns
  <2>2. CASE UNCHANGED sentTo /\ task'[w].took = task[w].took
    <3>1. \A r \in Row : Campaigns(r)' = Campaigns(r)
      BY <2>2 DEF Campaigns
    <3> QED BY <2>2, <3>1
  <2> QED BY <1>3, <2>1, <2>2
<1>5. /\ task[w].took => c \in Campaigns(s)
      /\ Present(s) /\ s \notin crossed => ~rows[s].addedAt
      /\ s \notin lost \cup crossed =>
            Campaigns(s) \subseteq (IF task[w].took THEN {c} ELSE {})
  BY <1>1, <1>2 DEF SInv, Sender, Sending
<1>6. \A v \in Promoter \ {w} : task'[v] = task[v]
  BY <1>0 DEF Taken, NoAnswer, Become, Worker
<1>7. \A r \in Row : Campaigns(r) \subseteq Campaigns(r)'
  BY <1>4
<1>8. \A v \in Promoter : \A r : Sends(v, r)' <=> Sends(v, r)
  BY <1>1, <1>2, <1>3, <1>6 DEF Sends, Sending
<1>9. ASSUME NEW v \in Promoter PROVE Sender(v)'
  <2>1. CASE v = w
    <3> SUFFICES /\ task'[w].took => c \in Campaigns(s)'
                 /\ Present(s) /\ s \notin crossed => ~rows[s].addedAt
                 /\ s \notin lost \cup crossed =>
                       Campaigns(s)' \subseteq (IF task'[w].took THEN {c} ELSE {})
      BY <1>1, <1>3, <2>1 DEF Sender, Present, Campaigns
    <3> QED BY <1>4, <1>5
  <2>2. CASE v # w
    <3> SUFFICES ASSUME task[v].pc \in Sending PROVE Sender(v)'
      BY <1>6, <2>2 DEF Sender
    <3>1. PICK r \in Row : r = task[v].row
      BY DEF TInv, TypeOK, Good, Sending, Worker
    <3>2. /\ task[v].took => task[v].campaign \in Campaigns(r)
          /\ Present(r) /\ r \notin crossed => ~rows[r].addedAt
          /\ r \notin lost \cup crossed =>
                Campaigns(r) \subseteq (IF task[v].took THEN {task[v].campaign} ELSE {})
      BY <3>1 DEF SInv, Sender
    <3>3. r = s => s \in crossed
      BY <1>1, <1>2, <2>2, <3>1 DEF SInv, Alone, Sends, Sending
    <3> QED BY <1>1, <1>4, <1>6, <1>7, <2>2, <3>1, <3>2, <3>3 DEF Sender, Present, Campaigns
  <2> QED BY <2>1, <2>2
<1>10. Alone'
  <2> SUFFICES ASSUME NEW u \in Promoter, NEW v \in Promoter, NEW r, Sends(u, r)', Sends(v, r)',
                      r \notin crossed
               PROVE  u = v
    BY <1>1 DEF Alone, Sends
  <2>1. Sends(u, r) /\ Sends(v, r)
    BY <1>8
  <2> QED BY <2>1 DEF SInv, Alone, Sends
<1>11. SecondCampaignOnlyIfLost'
  <2> SUFFICES ASSUME NEW r \in Row \ (lost \cup crossed), NEW d \in Campaigns(r)',
                      NEW e \in Campaigns(r)'
               PROVE  d = e
    BY <1>1 DEF SecondCampaignOnlyIfLost, Campaigns
  <2>1. CASE r = s
    BY <1>4, <1>5, <2>1
  <2>2. CASE r # s
    BY <1>4, <2>2 DEF SInv, SecondCampaignOnlyIfLost
  <2> QED BY <2>1, <2>2
<1>12. AddedWhereRecorded'
  <2> SUFFICES ASSUME NEW r \in Row, Present(r), rows[r].addedAt
               PROVE  \/ rows[r].campaign \in Campaigns(r)' /\ ~rows[r].error
                      \/ r \in crossed /\ rows[r].error
    BY <1>1 DEF AddedWhereRecorded, Present, Campaigns
  <2> QED BY <1>7 DEF SInv, AddedWhereRecorded
<1>13. Held'
  <2> SUFFICES ASSUME NEW r \in Row \ (lost \cup crossed), Present(r), ~rows[r].addedAt,
                      Campaigns(r)' # {}
               PROVE  \E v \in Promoter : Holds(v, r)'
    BY <1>1 DEF Held, Present, Campaigns
  <2>1. CASE r = s
    <3>1. task'[w].took
      BY <1>4, <1>5, <2>1
    <3> QED BY <1>3, <2>1, <3>1 DEF Holds, Sends
  <2>2. CASE r # s
    <3>1. PICK v \in Promoter : Holds(v, r)
      BY <1>4, <2>2 DEF SInv, Held
    <3>2. v # w
      BY <1>2, <2>2, <3>1 DEF Holds, Sends
    <3> QED BY <1>6, <3>1, <3>2 DEF Holds, Sends
  <2> QED BY <2>1, <2>2
<1> QED BY <1>9, <1>10, <1>11, <1>12, <1>13 DEF SInv

\* The outcome is recorded, or at least that there is none.
LEMMA RecordSends ==
    ASSUME TInv, SInv, NEW w \in Promoter, RecordAdded(w) \/ RecordFailed(w)
    PROVE  SInv'
<1>0. /\ Good(w, task[w], used) /\ task[w] \in Task /\ w \in Worker
      /\ task[w].pc \in Sending /\ task[w].row \in Row
  BY DEF RecordAdded, RecordFailed, At, Sending, TInv, TypeOK, Worker, Good
<1>1. /\ UNCHANGED <<sentTo, crossed>> /\ lost \subseteq lost' /\ task'[w] = Idle
      /\ \A v \in Promoter \ {w} : task'[v] = task[v]
  BY <1>0 DEF RecordAdded, RecordFailed, End, Become, promotion, TInv, TypeOK, Worker
<1>2. PICK s \in Row : s = task[w].row
  BY <1>0
<1>3. /\ \A r \in Row : Campaigns(r)' = Campaigns(r)
      /\ \A r \in Row \ {s} : rows'[r] = rows[r]
  BY <1>1, <1>2 DEF RecordAdded, RecordFailed, Campaigns, TInv, TypeOK
<1>4. /\ task[w].took => task[w].campaign \in Campaigns(s)
      /\ Present(s) /\ s \notin crossed => ~rows[s].addedAt
      /\ s \notin lost \cup crossed =>
            Campaigns(s) \subseteq (IF task[w].took THEN {task[w].campaign} ELSE {})
  BY <1>0, <1>2 DEF SInv, Sender
<1>5. ASSUME NEW v \in Promoter, NEW r, Sends(v, r)'
      PROVE  v # w /\ Sends(v, r) /\ (r = s => s \in crossed)
  <2>1. v # w
    BY <1>1, <1>5 DEF Sends, Sending, Idle
  <2>2. Sends(v, r)
    BY <1>1, <1>5, <2>1 DEF Sends
  <2>3. r = s => s \in crossed
    BY <1>0, <1>2, <2>1, <2>2 DEF SInv, Alone, Sends
  <2> QED BY <2>1, <2>2, <2>3
<1>6. ASSUME NEW v \in Promoter PROVE Sender(v)'
  <2> SUFFICES ASSUME task'[v].pc \in Sending PROVE Sender(v)'
    BY DEF Sender
  <2>1. Sends(v, task[v].row)'
    BY <1>1, <1>5 DEF Sends, Sending, Idle
  <2>2. /\ v # w /\ task'[v] = task[v] /\ task[v].pc \in Sending
        /\ task[v].row = s => s \in crossed
    BY <1>1, <1>5, <2>1 DEF Sends
  <2>3. PICK r \in Row : r = task[v].row
    BY <2>2 DEF TInv, TypeOK, Good, Sending, Worker
  <2>4. /\ task[v].took => task[v].campaign \in Campaigns(r)
        /\ Present(r) /\ r \notin crossed => ~rows[r].addedAt
        /\ r \notin lost \cup crossed =>
              Campaigns(r) \subseteq (IF task[v].took THEN {task[v].campaign} ELSE {})
    BY <2>2, <2>3 DEF SInv, Sender
  <2> QED BY <1>1, <1>3, <2>2, <2>3, <2>4 DEF Sender, Present, Campaigns
<1>7. Alone'
  <2> SUFFICES ASSUME NEW u \in Promoter, NEW v \in Promoter, NEW r, Sends(u, r)', Sends(v, r)',
                      r \notin crossed
               PROVE  u = v
    BY <1>1 DEF Alone, Sends
  <2>1. Sends(u, r) /\ Sends(v, r)
    BY <1>5
  <2> QED BY <2>1 DEF SInv, Alone, Sends
<1>8. SecondCampaignOnlyIfLost'
  <2> SUFFICES ASSUME NEW r \in Row \ (lost' \cup crossed), NEW d \in Campaigns(r),
                      NEW e \in Campaigns(r)
               PROVE  d = e
    BY <1>1, <1>3 DEF SecondCampaignOnlyIfLost, Campaigns
  <2> QED BY <1>1 DEF SInv, SecondCampaignOnlyIfLost
<1>9. AddedWhereRecorded'
  <2> SUFFICES ASSUME NEW r \in Row, rows'[r] # None, rows'[r].addedAt
               PROVE  \/ rows'[r].campaign \in Campaigns(r) /\ ~rows'[r].error
                      \/ r \in crossed /\ rows'[r].error
    BY <1>1, <1>3 DEF AddedWhereRecorded, Present, Campaigns
  <2>1. CASE r # s
    BY <1>3, <2>1 DEF SInv, AddedWhereRecorded, Present
  <2>2. CASE r = s /\ RecordAdded(w)
    <3>1. /\ Present(s) /\ task[w].took
          /\ rows' = [rows EXCEPT ![s].campaign = task[w].campaign, ![s].addedAt = TRUE,
                                  ![s].error = FALSE]
      BY <1>0, <1>2, <2>2 DEF RecordAdded, At, Good
    <3>2. rows[s] \in Entry /\ rows \in [Row -> Entry \cup {None}]
      BY <3>1 DEF TInv, TypeOK, Present
    <3> QED BY <1>4, <2>2, <3>1, <3>2 DEF Entry
  <2>3. CASE r = s /\ RecordFailed(w)
    <3>1. rows \in [Row -> Entry \cup {None}] /\ (Present(s) => rows[s] \in Entry)
      BY DEF TInv, TypeOK, Present
    <3>2. /\ Present(s)
          /\ rows' = [rows EXCEPT ![s].campaign = task[w].campaign, ![s].error = TRUE]
      BY <1>2, <2>3, <3>1 DEF RecordFailed, Present
    <3>3. rows'[s].error /\ rows'[s].addedAt = rows[s].addedAt
      BY <3>1, <3>2 DEF Entry
    <3> QED BY <1>4, <2>3, <3>2, <3>3
  <2> QED BY <2>1, <2>2, <2>3
<1>10. Held'
  <2> SUFFICES ASSUME NEW r \in Row \ (lost' \cup crossed), rows'[r] # None, ~rows'[r].addedAt,
                      Campaigns(r) # {}
               PROVE  \E v \in Promoter : Holds(v, r)'
    BY <1>1, <1>3 DEF Held, Present, Campaigns
  <2>1. CASE r = s /\ RecordAdded(w)
    <3>1. rows'[s].addedAt
      <4>1. /\ Present(s)
            /\ rows' = [rows EXCEPT ![s].campaign = task[w].campaign, ![s].addedAt = TRUE,
                                    ![s].error = FALSE]
        BY <1>2, <2>1 DEF RecordAdded
      <4>2. rows[s] \in Entry /\ rows \in [Row -> Entry \cup {None}]
        BY <4>1 DEF TInv, TypeOK, Present
      <4> QED BY <4>1, <4>2 DEF Entry
    <3> QED BY <2>1, <3>1
  <2>2. CASE r = s /\ RecordFailed(w)
    BY <1>1, <1>2, <1>4, <2>2 DEF RecordFailed, Unrecorded
  <2>3. CASE r # s
    <3>1. PICK v \in Promoter : Holds(v, r)
      BY <1>1, <1>3, <2>3 DEF SInv, Held, Present
    <3>2. v # w
      BY <1>2, <2>3, <3>1 DEF Holds, Sends
    <3> QED BY <1>1, <3>1, <3>2 DEF Holds, Sends
  <2> QED BY <2>1, <2>2, <2>3
<1> QED BY <1>6, <1>7, <1>8, <1>9, <1>10 DEF SInv

\* The environment does not send; a restart loses the outcomes under way.
LEMMA EnvironmentSends == ASSUME TInv, SInv, Environment PROVE SInv'
<1>1. CASE Restart
  <2>1. /\ UNCHANGED <<rows, sentTo, crossed>> /\ lost' = lost \cup Unrecorded(Worker)
        /\ task' = [w \in Worker |-> Idle]
    BY <1>1 DEF Restart
  <2>2. \A r \in Row : Campaigns(r)' = Campaigns(r)
    BY <2>1 DEF Campaigns
  <2>3. (\A w \in Promoter : Sender(w)') /\ Alone'
    BY <2>1 DEF Sender, Alone, Worker, Idle, Sending
  <2>4. (AddedWhereRecorded /\ SecondCampaignOnlyIfLost)'
    BY <2>1, <2>2 DEF SInv, AddedWhereRecorded, SecondCampaignOnlyIfLost, Present, Campaigns
  <2>5. Held'
    BY <2>1, <2>2 DEF SInv, Held, Holds, Sends, Unrecorded, Worker, Present, Campaigns
  <2> QED BY <2>3, <2>4, <2>5 DEF SInv
<1>2. ASSUME UNCHANGED task PROVE \A w \in Promoter : SameSender(w)
  BY <1>2 DEF SameSender
<1>3. ASSUME NEW s \in Scout, AssignCampaign(s) PROVE SInv'
  <2>1. UNCHANGED <<rows, task, sentTo, lost, crossed>>
    BY <1>3 DEF AssignCampaign, sheets, promotion
  <2> QED BY <1>2, <2>1, Undisturbed DEF SameRow, Present
<1>4. ASSUME NEW s \in Scout, RemoveAccount(s) PROVE SInv'
  <2>1. \A r \in Row : Present(r)' => Present(r) /\ rows'[r] = rows[r]
    BY <1>4 DEF RemoveAccount, Present
  <2>2. UNCHANGED <<task, sentTo, lost, crossed>>
    BY <1>4 DEF RemoveAccount, promotion
  <2> QED BY <1>2, <2>1, <2>2, Undisturbed DEF SameRow
<1>5. ASSUME NEW h \in Handle, DeleteCreator(h) PROVE SInv'
  <2>1. \A r \in Row : Present(r) => rows[r] \in Entry
    BY DEF TInv, TypeOK, Present
  <2>2. \A r \in Row : SameRow(r)
    BY <1>5, <2>1 DEF DeleteCreator, SameRow, Present, Entry
  <2>3. UNCHANGED <<task, sentTo, lost, crossed>>
    BY <1>5 DEF DeleteCreator
  <2> QED BY <1>2, <2>2, <2>3, Undisturbed
<1>6. ASSUME NEW c \in Campaign, DeleteCampaign(c) PROVE SInv'
  <2>1. UNCHANGED <<rows, task, sentTo, lost, crossed>>
    BY <1>6 DEF DeleteCampaign, sheets
  <2> QED BY <1>2, <2>1, Undisturbed DEF SameRow, Present
<1> QED BY <1>1, <1>3, <1>4, <1>5, <1>6 DEF Environment

LEMMA SendsStep == TInv /\ SInv /\ [Next]_vars => SInv'
<1> SUFFICES ASSUME TInv, SInv, [Next]_vars PROVE SInv'
  OBVIOUS
<1>1. ASSUME NEW w \in Worker, Request(w) PROVE SInv'
  <2>1. CASE \/ StartCreate(w) \/ ReadNumber(w) \/ Insert(w) \/ NumberTaken(w) \/ SheetGone(w)
             \/ CheckDuplicate(w)
             \/ StartEdit(w) \/ SaveLink(w) \/ Delete(w) \/ Review(w) \/ RowGone(w)
    BY <2>1, EditorSends
  <2>2. CASE \/ StartPromote(w) \/ Upsert(w) \/ Mark(w) \/ StartRetry(w)
             \/ ReadForStudio(w) /\ Become(w, Idle)
             \/ CampaignGone(w) \/ RecordFails(w)
    BY <2>2, PromoterPrepares
  <2>3. ASSUME task[w].pc \in {"read", "call", "record", "fail"} PROVE w \in Promoter
    BY <2>3 DEF TInv, Good, EditorStep, Worker
  <2>4. CASE ReadForStudio(w) /\ ~Become(w, Idle)
    BY <2>3, <2>4, ReadSends DEF ReadForStudio, At
  <2>5. CASE Taken(w) \/ NoAnswer(w)
    BY <2>3, <2>5, CallSends DEF Taken, NoAnswer, At
  <2>6. CASE RecordAdded(w) \/ RecordFailed(w)
    BY <2>3, <2>6, RecordSends DEF RecordAdded, RecordFailed, At
  <2> QED BY <1>1, <2>1, <2>2, <2>4, <2>5, <2>6 DEF Request
<1>2. CASE UNCHANGED vars
  BY <1>2, Undisturbed DEF vars, SameRow, SameSender, Present
<1> QED BY <1>1, <1>2, EnvironmentSends DEF Next

LEMMA InitSends == Init => SInv
<1> SUFFICES ASSUME Init PROVE SInv
  OBVIOUS
<1>1. \A r \in Row : Campaigns(r) = {} /\ ~Present(r)
  BY DEF Init, Campaigns, Present
<1> QED BY <1>1
        DEF Init, SInv, AddedWhereRecorded, SecondCampaignOnlyIfLost, Sender, Alone, Held, Idle,
            Sending, Worker

LEMMA AlwaysSends == Spec => []SInv
  BY InitSends, SendsStep, AlwaysTyped, PTL DEF Spec

\* A row Deal Studio is recorded to have is in the campaign recorded with it,
\* and is not shown as failed, whatever calls fail or are cut off by a restart,
\* unless two requests were sending the row at once and the one that failed last
\* left its error there.  (scouts.service.ts sendToDealStudio)
THEOREM AddedIsRecorded == Spec => []AddedWhereRecorded
<1>1. SInv => AddedWhereRecorded
  BY DEF SInv
<1> QED BY <1>1, AlwaysSends, PTL

\* A row only gets to a second campaign when the request that took it to the
\* first never recorded it, or two requests were sending the row at once.
\* (scouts.service.ts sendToDealStudio "One row goes to one campaign")
THEOREM SecondOnlyIfLost == Spec => []SecondCampaignOnlyIfLost
<1>1. SInv => SecondCampaignOnlyIfLost
  BY DEF SInv
<1> QED BY <1>1, AlwaysSends, PTL

-----------------------------------------------------------------------------
(* The warning about a handle.                                             *)

\* Request w is about to look the handle of row r up.
Checking(w, r) ==
    task[w].pc = "check" /\ task[w].row = r /\ task[w].handle = rows[r].handle

Twins(q, r) ==
    /\ q # r /\ Present(q) /\ Present(r)
    /\ rows[q].handle # None /\ rows[q].handle = rows[r].handle

\* The inductive invariant: of two rows with one handle, one was warned about
\* or is about to be.
DInv ==
    \A q, r \in Row : Twins(q, r) =>
        \/ <<q, rows[q].handle>> \in warned \/ <<r, rows[r].handle>> \in warned
        \/ \E w \in Editor : Checking(w, q) \/ Checking(w, r)

\* A step of a request that was not about to look a handle up, and leaves the
\* handles as they are.
LEMMA HandlesSame ==
    ASSUME TInv, DInv, NEW w, task[w].pc # "check",
           \A v \in Worker \ {w} : task'[v] = task[v],
           \A r \in Row : Present(r)' => Present(r) /\ rows'[r].handle = rows[r].handle,
           UNCHANGED warned
    PROVE  DInv'
<1> SUFFICES ASSUME NEW q \in Row, NEW r \in Row, Twins(q, r)'
             PROVE  \/ <<q, rows'[q].handle>> \in warned \/ <<r, rows'[r].handle>> \in warned
                    \/ \E v \in Editor : Checking(v, q)' \/ Checking(v, r)'
  BY DEF DInv
<1>1. /\ Present(q)' /\ Present(r)'
      /\ rows'[q].handle = rows[q].handle /\ rows'[r].handle = rows[r].handle
      /\ Twins(q, r)
  BY DEF Twins
<1>2. CASE <<q, rows[q].handle>> \in warned \/ <<r, rows[r].handle>> \in warned
  BY <1>1, <1>2
<1>3. CASE \E v \in Editor : Checking(v, q) \/ Checking(v, r)
  <2>1. PICK v \in Editor : Checking(v, q) \/ Checking(v, r)
    BY <1>3
  <2>2. v \in Worker \ {w} /\ task'[v] = task[v]
    BY <2>1 DEF Checking, Worker
  <2> QED BY <1>1, <2>1, <2>2 DEF Checking
<1> QED BY <1>1, <1>2, <1>3 DEF DInv

\* A step that gives row s a handle that it is about to look up.
LEMMA HandleWritten ==
    ASSUME TInv, DInv, NEW w \in Editor, task[w].pc # "check",
           \A v \in Worker \ {w} : task'[v] = task[v],
           NEW s \in Row, \A r \in Row \ {s} : rows'[r] = rows[r],
           rows'[s].handle # None => Checking(w, s)',
           UNCHANGED warned
    PROVE  DInv'
<1> SUFFICES ASSUME NEW q \in Row, NEW r \in Row, Twins(q, r)'
             PROVE  \/ <<q, rows'[q].handle>> \in warned \/ <<r, rows'[r].handle>> \in warned
                    \/ \E v \in Editor : Checking(v, q)' \/ Checking(v, r)'
  BY DEF DInv
<1>1. CASE q = s \/ r = s
  BY <1>1 DEF Twins
<1>2. CASE q # s /\ r # s
  <2>1. rows'[q] = rows[q] /\ rows'[r] = rows[r] /\ Twins(q, r)
    BY <1>2 DEF Twins, Present
  <2>2. CASE \E v \in Editor : Checking(v, q) \/ Checking(v, r)
    <3>1. PICK v \in Editor : Checking(v, q) \/ Checking(v, r)
      BY <2>2
    <3>2. v \in Worker \ {w} /\ task'[v] = task[v]
      BY <3>1 DEF Checking, Worker
    <3> QED BY <2>1, <3>1, <3>2 DEF Checking
  <2> QED BY <2>1, <2>2 DEF DInv
<1> QED BY <1>1, <1>2

LEMMA LooksUp == ASSUME TInv, DInv, NEW w \in Worker, CheckDuplicate(w) PROVE DInv'
<1>0. /\ task[w].pc = "check" /\ UNCHANGED rows /\ warned \subseteq warned'
      /\ \A v \in Worker \ {w} : task'[v] = task[v]
  BY DEF CheckDuplicate, At, End, Become, TInv, TypeOK
<1> SUFFICES ASSUME NEW q \in Row, NEW r \in Row, Twins(q, r)
             PROVE  \/ <<q, rows[q].handle>> \in warned' \/ <<r, rows[r].handle>> \in warned'
                    \/ \E v \in Editor : Checking(v, q)' \/ Checking(v, r)'
  BY <1>0 DEF DInv, Twins, Present
<1>1. CASE Checking(w, q)
  <2>1. Elsewhere(rows[q].handle, q)
    BY DEF Twins, Elsewhere
  <2> QED BY <1>1, <2>1 DEF Checking, CheckDuplicate, Twins
<1>2. CASE Checking(w, r)
  <2>1. Elsewhere(rows[r].handle, r)
    BY DEF Twins, Elsewhere
  <2> QED BY <1>2, <2>1 DEF Checking, CheckDuplicate, Twins
<1>3. CASE ~Checking(w, q) /\ ~Checking(w, r)
  <2>1. CASE \E v \in Editor : Checking(v, q) \/ Checking(v, r)
    <3>1. PICK v \in Editor : Checking(v, q) \/ Checking(v, r)
      BY <2>1
    <3>2. v # w
      BY <1>3, <3>1
    <3> QED BY <1>0, <3>1, <3>2 DEF Checking, Worker
  <2> QED BY <1>0, <2>1 DEF DInv
<1> QED BY <1>1, <1>2, <1>3

LEMMA WarnsStep == TInv /\ DInv /\ [Next]_vars => DInv'
<1> SUFFICES ASSUME TInv, DInv, [Next]_vars PROVE DInv'
  OBVIOUS
<1>0. /\ task \in [Worker -> Task] /\ rows \in [Row -> Entry \cup {None}] /\ used \subseteq Row
      /\ \A w \in Worker : Good(w, task[w], used) /\ task[w] \in Task
  BY DEF TInv, TypeOK
<1>1. ASSUME NEW w \in Worker, Request(w), ~CheckDuplicate(w), ~SaveLink(w), ~Insert(w) PROVE DInv'
  <2>1. /\ task[w].pc # "check" /\ UNCHANGED warned
        /\ \A v \in Worker \ {w} : task'[v] = task[v]
    <3>1. PICK t : Become(w, t)
      BY <1>1
      DEF Request, StartCreate, ReadNumber, NumberTaken, SheetGone, StartEdit, Delete, Review,
          RowGone, StartPromote, Upsert, Mark, StartRetry, ReadForStudio, Send, Taken, CampaignGone,
          NoAnswer, RecordAdded, RecordFails, RecordFailed, End, Goto
    <3>2. task[w].pc # "check" /\ UNCHANGED warned
      BY <1>1
      DEF Request, StartCreate, ReadNumber, NumberTaken, SheetGone, StartEdit, Delete, Review,
          RowGone, StartPromote, Upsert, Mark, StartRetry, ReadForStudio, Taken, CampaignGone,
          NoAnswer, RecordAdded, RecordFails, RecordFailed, At, sheets
    <3> QED BY <1>0, <3>1, <3>2 DEF Become
  <2>2. ASSUME NEW r \in Row, Present(r)' PROVE Present(r) /\ rows'[r].handle = rows[r].handle
    <3>1. CASE UNCHANGED rows
      BY <2>2, <3>1 DEF Present
    <3>2. CASE Delete(w)
      BY <1>0, <2>2, <3>2 DEF Delete, Present
    <3>3. CASE Review(w)
      <4>1. PICK b : rows' = [rows EXCEPT ![task[w].row].qualified = b]
        BY <3>3 DEF Review
      <4> QED BY <1>0, <2>2, <3>3, <4>1 DEF Review, Present, Entry
    <3>4. CASE Mark(w)
      BY <1>0, <2>2, <3>4 DEF Mark, Present, Entry
    <3>5. CASE RecordAdded(w)
      BY <1>0, <2>2, <3>5 DEF RecordAdded, Present, Entry
    <3>6. CASE RecordFailed(w)
      BY <1>0, <2>2, <3>6 DEF RecordFailed, Present, Entry
    <3> QED BY <1>1, <3>1, <3>2, <3>3, <3>4, <3>5, <3>6
            DEF Request, StartCreate, ReadNumber, NumberTaken, SheetGone, StartEdit, RowGone,
                StartPromote, Upsert, StartRetry, ReadForStudio, Taken, CampaignGone, NoAnswer,
                RecordFails, sheets
  <2> QED BY <2>1, <2>2, HandlesSame
<1>2. ASSUME NEW w \in Worker, SaveLink(w) PROVE DInv'
  <2>1. /\ task[w].pc = "save" /\ w \in Editor /\ Present(task[w].row) /\ UNCHANGED warned
        /\ task[w].row \in Row
    BY <1>0, <1>2 DEF SaveLink, At, Good, PromoterStep, Worker
  <2>2. PICK s \in Row : s = task[w].row /\ rows[s] \in Entry
    BY <1>0, <2>1 DEF Present
  <2>3. PICK h \in Handle \cup {None} :
            /\ rows' = [rows EXCEPT ![s].handle = h]
            /\ Become(w, [task[w] EXCEPT !.pc = "check", !.handle = IF h # None THEN h ELSE @])
    BY <1>2, <2>2 DEF SaveLink
  <2>4. /\ \A v \in Worker \ {w} : task'[v] = task[v]
        /\ task'[w].pc = "check" /\ task'[w].row = s /\ (h # None => task'[w].handle = h)
    BY <1>0, <2>2, <2>3 DEF Become, Task
  <2>5. rows'[s].handle = h /\ \A r \in Row \ {s} : rows'[r] = rows[r]
    BY <1>0, <2>2, <2>3 DEF Entry
  <2> QED BY <2>1, <2>4, <2>5, HandleWritten DEF Checking
<1>3. ASSUME NEW w \in Worker, Insert(w) PROVE DInv'
  <2>1. task[w].pc = "insert" /\ w \in Editor /\ UNCHANGED warned
    BY <1>0, <1>3 DEF Insert, At, Good, PromoterStep, Worker
  <2>2. PICK s \in Row \ used :
            /\ rows' = [rows EXCEPT ![s] = NewEntry(task[w])]
            /\ Become(w, [Idle EXCEPT !.pc = "check", !.row = s, !.handle = task[w].handle])
    BY <1>3 DEF Insert
  <2>3. /\ \A v \in Worker \ {w} : task'[v] = task[v]
        /\ task'[w].pc = "check" /\ task'[w].row = s /\ task'[w].handle = task[w].handle
    BY <1>0, <2>2 DEF Become, Idle
  <2>4. rows'[s].handle = task[w].handle /\ \A r \in Row \ {s} : rows'[r] = rows[r]
    BY <1>0, <2>2 DEF NewEntry
  <2> QED BY <2>1, <2>3, <2>4, HandleWritten DEF Checking
<1>4. CASE Restart
  <2>1. /\ UNCHANGED rows
        /\ warned' = warned \cup {<<task[w].row, task[w].handle>> : w \in
                                    {v \in Editor : At(v, "check") /\ task[v].handle # None}}
    BY <1>4 DEF Restart
  <2> SUFFICES ASSUME NEW q \in Row, NEW r \in Row, Twins(q, r)
               PROVE  <<q, rows[q].handle>> \in warned' \/ <<r, rows[r].handle>> \in warned'
    BY <2>1 DEF DInv, Twins, Present
  <2>2. CASE \E v \in Editor : Checking(v, q) \/ Checking(v, r)
    BY <2>1, <2>2 DEF Checking, At, Twins
  <2> QED BY <2>1, <2>2 DEF DInv
<1>5. ASSUME UNCHANGED <<task, warned>>,
             \A r \in Row : Present(r)' => Present(r) /\ rows'[r].handle = rows[r].handle
      PROVE  DInv'
  BY <1>5 DEF DInv, Twins, Checking
<1>6. CASE Environment /\ ~Restart
  <2>1. UNCHANGED <<task, warned>>
    BY <1>6 DEF Environment, AssignCampaign, RemoveAccount, DeleteCreator, DeleteCampaign, sheets
  <2>2. ASSUME NEW r \in Row, Present(r)' PROVE Present(r) /\ rows'[r].handle = rows[r].handle
    BY <1>0, <1>6, <2>2
    DEF Environment, AssignCampaign, RemoveAccount, DeleteCreator, DeleteCampaign, sheets,
        Present, Entry
  <2> QED BY <1>5, <2>1, <2>2
<1>7. CASE UNCHANGED vars
  BY <1>5, <1>7 DEF vars, Present
<1>8. ASSUME NEW w \in Worker, CheckDuplicate(w) PROVE DInv'
  BY <1>8, LooksUp
<1> QED BY <1>1, <1>2, <1>3, <1>4, <1>6, <1>7, <1>8 DEF Next

\* Of two rows with one handle, at least one save was answered with a warning,
\* whatever the order of the saves, unless a restart cut it off.
\* (scouts.service.ts duplicateWarning)
THEOREM DuplicatesWarned == Spec => []DuplicateWarned
<1>1. Init => DInv
  BY DEF Init, DInv, Twins, Present
<1>2. DInv => DuplicateWarned
  BY DEF DInv, DuplicateWarned, Twins, Checking
<1> QED BY <1>1, <1>2, WarnsStep, AlwaysTyped, PTL DEF Spec


-----------------------------------------------------------------------------
(* Every request ends.                                                     *)

\* The attempt a request counts is one it has.
Counted(t) ==
    /\ t.pc \in {"number", "insert"} => t.attempt \in 1 .. MaxAttempts
    /\ t.pc = "call" => t.attempt \in 1 .. StudioAttempts

TriesCounted == \A w \in Worker : Counted(task[w])

\* The calls a request may still make, at most.
Left(t) ==
    CASE t.pc = "idle" -> 0
      [] t.pc \in {"check", "delete", "review", "fail"} -> 1
      [] t.pc \in {"save", "record"} -> 2
      [] t.pc = "insert" -> 2 * (MaxAttempts - t.attempt) + 2
      [] t.pc = "number" -> 2 * (MaxAttempts - t.attempt) + 3
      [] t.pc = "call" -> StudioAttempts - t.attempt + 3
      [] t.pc = "read" -> StudioAttempts + 3
      [] t.pc = "mark" -> StudioAttempts + 4
      [] t.pc = "upsert" -> StudioAttempts + 5

\* A request that has begun comes nearer to its end with whatever happens to it.
Shorten ==
    [][\A w \in Worker :
          /\ Left(task[w]) \in 0 .. 7
          /\ Left(task[w]) = 0 <=> task[w].pc = "idle"
          /\ task'[w] # task[w] /\ task[w].pc # "idle" => Left(task'[w]) < Left(task[w])]_vars

\* Left, step by step.
LEMMA LeftIs ==
    ASSUME NEW t \in Task, Counted(t)
    PROVE  /\ Left(t) \in 0 .. 7
           /\ Left(t) = 0 <=> t.pc = "idle"
           /\ t.pc \in {"check", "delete", "review", "fail"} => Left(t) = 1
           /\ t.pc \in {"save", "record"} => Left(t) = 2
           /\ t.pc = "insert" => Left(t) = 8 - 2 * t.attempt
           /\ t.pc = "number" => Left(t) = 9 - 2 * t.attempt
           /\ t.pc = "call" => Left(t) = 5 - t.attempt
           /\ t.pc = "read" => Left(t) = 5
           /\ t.pc = "mark" => Left(t) = 6
           /\ t.pc = "upsert" => Left(t) = 7
<1>1. t.attempt \in Int /\ t.pc \in Step
  BY DEF Task
<1>2. t.pc \in {"number", "insert"} => t.attempt \in {1, 2, 3}
  BY DEF Counted, MaxAttempts
<1>3. t.pc = "call" => t.attempt \in {1, 2}
  BY DEF Counted, StudioAttempts
<1>4. CASE t.pc \in {"number", "insert"}
  BY <1>2, <1>4 DEF Left, MaxAttempts
<1>5. CASE t.pc = "call"
  BY <1>3, <1>5 DEF Left, StudioAttempts
<1>6. CASE t.pc \notin {"number", "insert", "call"}
  BY <1>1, <1>6 DEF Left, Step, StudioAttempts
<1> QED BY <1>4, <1>5, <1>6

\* What a request becomes when it begins.
LEMMA BeginCounted ==
    ASSUME TInv, NEW w \in Worker,
           StartCreate(w) \/ StartEdit(w) \/ StartPromote(w) \/ StartRetry(w)
    PROVE  At(w, "idle") /\ \E u : Counted(u) /\ Become(w, u)
<1>1. CASE StartCreate(w)
  <2>1. PICK s \in Scout, h \in Handle \cup {None} :
            Become(w, [Idle EXCEPT !.pc = "number", !.scout = s, !.handle = h, !.attempt = 1])
    BY <1>1 DEF StartCreate
  <2>2. PICK u : u = [Idle EXCEPT !.pc = "number", !.scout = s, !.handle = h, !.attempt = 1]
    OBVIOUS
  <2>3. Counted(u)
    BY <2>2 DEF Counted, Idle, MaxAttempts
  <2> QED BY <1>1, <2>1, <2>2, <2>3 DEF StartCreate
<1>2. CASE StartEdit(w)
  <2>1. PICK r \in Row, step \in {"save", "delete", "review"} :
            Become(w, [Idle EXCEPT !.pc = step, !.row = r,
                                   !.handle = IF step = "save" THEN rows[r].handle ELSE None])
    BY <1>2 DEF StartEdit
  <2>2. PICK u : u = [Idle EXCEPT !.pc = step, !.row = r,
                                  !.handle = IF step = "save" THEN rows[r].handle ELSE None]
    OBVIOUS
  <2>3. Counted(u)
    BY <2>2 DEF Counted, Idle
  <2> QED BY <1>2, <2>1, <2>2, <2>3 DEF StartEdit
<1>3. CASE StartPromote(w)
  <2>1. PICK r \in Row :
            Become(w, [Idle EXCEPT !.pc = "upsert", !.row = r, !.handle = rows[r].handle])
    BY <1>3 DEF StartPromote
  <2>2. PICK u : u = [Idle EXCEPT !.pc = "upsert", !.row = r, !.handle = rows[r].handle]
    OBVIOUS
  <2>3. Counted(u)
    BY <2>2 DEF Counted, Idle
  <2> QED BY <1>3, <2>1, <2>2, <2>3 DEF StartPromote
<1>4. CASE StartRetry(w)
  <2>1. PICK r \in Row : Become(w, [Idle EXCEPT !.pc = "read", !.row = r])
    BY <1>4 DEF StartRetry
  <2>2. PICK u : u = [Idle EXCEPT !.pc = "read", !.row = r]
    OBVIOUS
  <2>3. Counted(u)
    BY <2>2 DEF Counted, Idle
  <2> QED BY <1>4, <2>1, <2>2, <2>3 DEF StartRetry
<1> QED BY <1>1, <1>2, <1>3, <1>4

\* What a request that has begun may be next.
Follows(t, u) ==
    \/ u = Idle /\ t.pc # "idle"
    \/ t.pc = "number" /\ u.pc = "insert" /\ u.attempt = t.attempt
    \/ t.pc = "insert" /\ t.attempt < MaxAttempts
          /\ u.pc = "number" /\ u.attempt = t.attempt + 1
    \/ t.pc \in {"insert", "save"} /\ u.pc = "check"
    \/ t.pc = "upsert" /\ u.pc = "mark"
    \/ t.pc = "mark" /\ u.pc = "read"
    \/ t.pc = "read" /\ u.pc = "call" /\ u.attempt = 1
    \/ t.pc = "call" /\ t.attempt < StudioAttempts
          /\ u.pc = "call" /\ u.attempt = t.attempt + 1
    \/ t.pc = "call" /\ u.pc \in {"record", "fail"}
    \/ t.pc = "record" /\ u.pc = "fail"

LEMMA IdleCounted == Counted(Idle) /\ Idle.pc = "idle"
  BY DEF Counted, Idle

\* It has fewer calls left then.
LEMMA FollowsShortens ==
    ASSUME NEW t \in Task, NEW u \in Task, Counted(t), Follows(t, u)
    PROVE  Counted(u) /\ Left(u) < Left(t)
<1>1. t.attempt \in Int /\ u.attempt \in Int
  BY DEF Task
<1>2. CASE u = Idle /\ t.pc # "idle"
  BY <1>2, IdleCounted, LeftIs
<1>3. CASE t.pc = "number" /\ u.pc = "insert" /\ u.attempt = t.attempt
  <2>1. Counted(u)
    BY <1>3 DEF Counted
  <2> QED BY <1>1, <1>3, <2>1, LeftIs
<1>4. CASE t.pc = "insert" /\ t.attempt < MaxAttempts
              /\ u.pc = "number" /\ u.attempt = t.attempt + 1
  <2>1. Counted(u)
    BY <1>1, <1>4 DEF Counted, MaxAttempts
  <2> QED BY <1>1, <1>4, <2>1, LeftIs
<1>5. CASE t.pc = "call" /\ t.attempt < StudioAttempts
              /\ u.pc = "call" /\ u.attempt = t.attempt + 1
  <2>1. Counted(u)
    BY <1>1, <1>5 DEF Counted, StudioAttempts
  <2> QED BY <1>1, <1>5, <2>1, LeftIs
<1>6. CASE t.pc = "read" /\ u.pc = "call" /\ u.attempt = 1
  <2>1. Counted(u)
    BY <1>6 DEF Counted, StudioAttempts
  <2> QED BY <1>6, <2>1, LeftIs
<1>7. CASE t.pc = "insert" /\ u.pc = "check"
  <2>1. Counted(u) /\ t.attempt <= 3
    BY <1>7 DEF Counted, MaxAttempts
  <2> QED BY <1>1, <1>7, <2>1, LeftIs
<1>8. CASE t.pc = "call" /\ u.pc \in {"record", "fail"}
  <2>1. Counted(u) /\ t.attempt <= 2
    BY <1>8 DEF Counted, StudioAttempts
  <2> QED BY <1>1, <1>8, <2>1, LeftIs
<1>9. CASE \/ t.pc = "save" /\ u.pc = "check"
           \/ t.pc = "upsert" /\ u.pc = "mark"
           \/ t.pc = "mark" /\ u.pc = "read"
           \/ t.pc = "record" /\ u.pc = "fail"
  <2>1. Counted(u)
    BY <1>9 DEF Counted
  <2> QED BY <1>9, <2>1, LeftIs
<1> QED BY <1>2, <1>3, <1>4, <1>5, <1>6, <1>7, <1>8, <1>9 DEF Follows

\* A request's step leads it there.
LEMMA RequestFollows ==
    ASSUME TInv, NEW w \in Worker, Request(w), ~At(w, "idle")
    PROVE  \E u : Follows(task[w], u) /\ Become(w, u)
<1>1. PICK t \in Task : t = task[w]
  BY DEF TInv, TypeOK
<1>2. CASE \/ SheetGone(w) \/ CheckDuplicate(w) \/ Delete(w) \/ Review(w) \/ RowGone(w)
           \/ RecordAdded(w) \/ RecordFailed(w)
  <2>1. Become(w, Idle)
    BY <1>2 DEF SheetGone, CheckDuplicate, Delete, Review, RowGone, RecordAdded, RecordFailed, End
  <2> QED BY <2>1 DEF Follows, At
<1>3. CASE ReadNumber(w)
  <2>1. PICK n : t.pc = "number" /\ Become(w, [t EXCEPT !.pc = "insert", !.number = n + 1])
    BY <1>1, <1>3 DEF ReadNumber, At
  <2>2. PICK u : u = [t EXCEPT !.pc = "insert", !.number = n + 1]
    OBVIOUS
  <2>3. u.pc = "insert" /\ u.attempt = t.attempt
    BY <2>2 DEF Task
  <2> QED BY <1>1, <2>1, <2>2, <2>3 DEF Follows
<1>4. CASE Insert(w)
  <2>1. PICK r : t.pc = "insert"
                   /\ Become(w, [Idle EXCEPT !.pc = "check", !.row = r, !.handle = t.handle])
    BY <1>1, <1>4 DEF Insert, At
  <2>2. PICK u : u = [Idle EXCEPT !.pc = "check", !.row = r, !.handle = t.handle]
    OBVIOUS
  <2>3. u.pc = "check"
    BY <2>2 DEF Idle
  <2> QED BY <1>1, <2>1, <2>2, <2>3 DEF Follows
<1>5. CASE NumberTaken(w)
  <2>1. /\ t.pc = "insert"
        /\ IF t.attempt < MaxAttempts
           THEN Become(w, [t EXCEPT !.pc = "number", !.attempt = @ + 1, !.number = 0])
           ELSE Become(w, Idle)
    BY <1>1, <1>5 DEF NumberTaken, At, End
  <2>2. PICK u : u = [t EXCEPT !.pc = "number", !.attempt = @ + 1, !.number = 0]
    OBVIOUS
  <2>3. u.pc = "number" /\ u.attempt = t.attempt + 1
    BY <2>2 DEF Task
  <2> QED BY <1>1, <2>1, <2>2, <2>3 DEF Follows
<1>6. CASE SaveLink(w)
  <2>1. PICK h : t.pc = "save" /\ Become(w, [t EXCEPT !.pc = "check", !.handle = h])
    BY <1>1, <1>6 DEF SaveLink, At
  <2>2. PICK u : u = [t EXCEPT !.pc = "check", !.handle = h]
    OBVIOUS
  <2>3. u.pc = "check"
    BY <2>2 DEF Task
  <2> QED BY <1>1, <2>1, <2>2, <2>3 DEF Follows
<1>7. CASE Upsert(w) \/ CampaignGone(w) \/ RecordFails(w)
  <2>1. PICK step : /\ \/ t.pc = "upsert" /\ step = "mark"
                       \/ t.pc \in {"call", "record"} /\ step = "fail"
                    /\ Become(w, [t EXCEPT !.pc = step])
    BY <1>1, <1>7 DEF Upsert, CampaignGone, RecordFails, Goto, At
  <2>2. PICK u : u = [t EXCEPT !.pc = step]
    OBVIOUS
  <2>3. u.pc = step
    BY <2>2 DEF Task
  <2> QED BY <1>1, <2>1, <2>2, <2>3 DEF Follows
<1>8. CASE Mark(w)
  <2>1. /\ t.pc = "mark"
        /\ Become(w, [t EXCEPT !.pc = "read", !.handle = None]) \/ Become(w, Idle)
    BY <1>1, <1>8 DEF Mark, At, End
  <2>2. PICK u : u = [t EXCEPT !.pc = "read", !.handle = None]
    OBVIOUS
  <2>3. u.pc = "read"
    BY <2>2 DEF Task
  <2> QED BY <1>1, <2>1, <2>2, <2>3 DEF Follows
<1>9. CASE ReadForStudio(w)
  <2>1. /\ t.pc = "read"
        /\ \/ Become(w, Idle)
           \/ \E h, c : Become(w, [t EXCEPT !.pc = "call", !.handle = h, !.attempt = 1,
                                            !.campaign = c])
    BY <1>1, <1>9 DEF ReadForStudio, Send, At, End
  <2>2. CASE Become(w, Idle)
    BY <1>1, <2>1, <2>2 DEF Follows
  <2>3. ASSUME NEW h, NEW c,
               Become(w, [t EXCEPT !.pc = "call", !.handle = h, !.attempt = 1, !.campaign = c])
        PROVE  \E u : Follows(t, u) /\ Become(w, u)
    <3>1. PICK u : u = [t EXCEPT !.pc = "call", !.handle = h, !.attempt = 1, !.campaign = c]
      OBVIOUS
    <3>2. u.pc = "call" /\ u.attempt = 1
      BY <3>1 DEF Task
    <3> QED BY <2>1, <2>3, <3>1, <3>2 DEF Follows
  <2> QED BY <1>1, <2>1, <2>2, <2>3
<1>10. CASE Taken(w)
  <2>1. t.pc = "call" /\ Become(w, [t EXCEPT !.pc = "record", !.took = TRUE, !.attempt = 0])
    BY <1>1, <1>10 DEF Taken, At
  <2>2. PICK u : u = [t EXCEPT !.pc = "record", !.took = TRUE, !.attempt = 0]
    OBVIOUS
  <2>3. u.pc = "record"
    BY <2>2 DEF Task
  <2> QED BY <1>1, <2>1, <2>2, <2>3 DEF Follows
<1>11. CASE NoAnswer(w)
  <2>1. PICK took, retryable \in BOOLEAN :
            /\ t.pc = "call"
            /\ Become(w, [t EXCEPT !.took = @ \/ took,
                                   !.pc = IF retryable /\ t.attempt < StudioAttempts
                                          THEN "call" ELSE "fail",
                                   !.attempt = @ + 1])
    BY <1>1, <1>11 DEF NoAnswer, At
  <2>2. PICK u : u = [t EXCEPT !.took = @ \/ took,
                               !.pc = IF retryable /\ t.attempt < StudioAttempts
                                      THEN "call" ELSE "fail",
                               !.attempt = @ + 1]
    OBVIOUS
  <2>3. /\ u.attempt = t.attempt + 1
        /\ u.pc = "fail" \/ (u.pc = "call" /\ t.attempt < StudioAttempts)
    BY <2>2 DEF Task
  <2> QED BY <1>1, <2>1, <2>2, <2>3 DEF Follows
<1>12. ~(StartCreate(w) \/ StartEdit(w) \/ StartPromote(w) \/ StartRetry(w))
  BY DEF StartCreate, StartEdit, StartPromote, StartRetry
<1> QED BY <1>2, <1>3, <1>4, <1>5, <1>6, <1>7, <1>8, <1>9, <1>10, <1>11, <1>12 DEF Request

\* A step of a request leaves the others' alone, and the rest of the system leaves them all
\* alone or stops them.
LEMMA CountedStep ==
    ASSUME TInv, TInv', TriesCounted, Next, NEW w \in Worker
    PROVE  /\ Counted(task'[w])
           /\ task'[w] # task[w] /\ task[w].pc # "idle" => Left(task'[w]) < Left(task[w])
<1>1. /\ task \in [Worker -> Task] /\ task' \in [Worker -> Task]
      /\ \A v \in Worker : Counted(task[v])
  BY DEF TInv, TypeOK, TriesCounted
<1>2. ASSUME NEW v \in Worker, Request(v)
      PROVE  /\ Counted(task'[w])
             /\ task'[w] # task[w] /\ task[w].pc # "idle" => Left(task'[w]) < Left(task[w])
  <2>1. CASE At(v, "idle")
    <3>1. StartCreate(v) \/ StartEdit(v) \/ StartPromote(v) \/ StartRetry(v)
      BY <1>2, <2>1 DEF Request, At, ReadNumber, Insert, NumberTaken, SheetGone, CheckDuplicate,
         SaveLink, Delete, Review, RowGone, Upsert, Mark, ReadForStudio, Taken, CampaignGone,
         NoAnswer, RecordAdded, RecordFails, RecordFailed
    <3>2. PICK u : Counted(u) /\ Become(v, u)
      BY <3>1, BeginCounted
    <3> QED BY <1>1, <2>1, <3>2 DEF Become, At
  <2>2. CASE ~At(v, "idle")
    <3>1. PICK u : Follows(task[v], u) /\ Become(v, u)
      BY <1>2, <2>2, RequestFollows
    <3>2. PICK t \in Task : t = task[v]
      BY <1>1
    <3>3. u = task'[v] /\ u \in Task
      BY <1>1, <3>1 DEF Become
    <3>4. Counted(u) /\ Left(u) < Left(t)
      BY <1>1, <3>1, <3>2, <3>3, FollowsShortens
    <3>5. CASE w = v
      BY <3>2, <3>3, <3>4, <3>5
    <3>6. CASE w # v
      BY <1>1, <3>1, <3>6 DEF Become
    <3> QED BY <3>5, <3>6
  <2> QED BY <2>1, <2>2
<1>3. ASSUME Restart
      PROVE  /\ Counted(task'[w])
             /\ task'[w] # task[w] /\ task[w].pc # "idle" => Left(task'[w]) < Left(task[w])
  <2>1. task'[w] = Idle
    BY <1>3 DEF Restart
  <2>2. PICK t \in Task : t = task[w]
    BY <1>1
  <2>3. t.pc # "idle" => Left(Idle) < Left(t)
    <3>1. t.pc # "idle" => Follows(t, Idle)
      BY DEF Follows
    <3> QED BY <1>1, <2>2, <3>1, FollowsShortens, IdleGood
  <2> QED BY <2>1, <2>2, <2>3, IdleCounted
<1>4. ASSUME Environment, ~Restart PROVE UNCHANGED task
  BY <1>4 DEF Environment, AssignCampaign, RemoveAccount, DeleteCreator, DeleteCampaign
<1> QED BY <1>1, <1>2, <1>3, <1>4 DEF Next

\* Every request ends after seven calls at most, whatever the other requests, the administrators and
\* Deal Studio do: a row number is tried three times, a POST to Deal Studio twice, and what fails
\* or finds no row ends it.
\* (scouts.service.ts create, promote, sendToDealStudio; deal-studio.client.ts)
THEOREM RequestsEnd == Spec => Shorten
<1>1. Init => TriesCounted
  BY IdleCounted DEF Init, TriesCounted
<1>2. TInv /\ TInv' /\ TriesCounted /\ [Next]_vars => TriesCounted'
  <2>1. CASE UNCHANGED vars
    BY <2>1 DEF vars, TriesCounted
  <2> QED BY <2>1, CountedStep DEF TriesCounted
<1>3. TInv /\ TInv' /\ TriesCounted /\ [Next]_vars =>
        [\A w \in Worker :
          /\ Left(task[w]) \in 0 .. 7
          /\ Left(task[w]) = 0 <=> task[w].pc = "idle"
          /\ task'[w] # task[w] /\ task[w].pc # "idle" => Left(task'[w]) < Left(task[w])]_vars
  <2>1. ASSUME TInv, \A v \in Worker : Counted(task[v]), NEW w \in Worker
        PROVE  Left(task[w]) \in 0 .. 7 /\ (Left(task[w]) = 0 <=> task[w].pc = "idle")
    <3>1. PICK t \in Task : t = task[w]
      BY <2>1 DEF TInv, TypeOK
    <3> QED BY <2>1, <3>1, LeftIs
  <2> QED BY <2>1, CountedStep DEF TriesCounted
<1>4. Spec => []TriesCounted
  BY <1>1, <1>2, AlwaysTyped, PTL DEF Spec
<1> QED BY <1>3, <1>4, AlwaysTyped, PTL DEF Spec, Shorten
=============================================================================
