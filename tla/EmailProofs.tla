---------------------------- MODULE EmailProofs ----------------------------
(***************************************************************************)
(* Proofs about EmailExtraction, for any number of messages, threads and   *)
(* runs in flight: type correctness, with the guard held by the runs of    *)
(* ticks and by nobody else; that runs start and end as JobRunner says,    *)
(* whatever the jobs do; and, while nobody triggers runs by hand, that     *)
(* Claude is called on threads with an unprocessed message and by one run  *)
(* at a time.  Every run ends.                                             *)
(*                                                                         *)
(* The argument.  A tick that starts a job found it unguarded, so no other *)
(* run of a tick has it, and only that run's end releases the guard.  With *)
(* ticks alone, one run at a time marks threads, and it marks the thread   *)
(* it took off its batch: the rest of the batch is pending as it was.      *)
(***************************************************************************)
EXTENDS EmailExtraction, FiniteSetTheorems, TLAPS

Extracting == {"list", "next", "claude", "mark", "error"}

\* The local variables of a run.
Good(t) ==
    /\ t.pc = "idle" => ~t.cron
    /\ t.pc # "idle" => t.job \in Job
    /\ t.pc \in Extracting => t.job = "claude-extraction"
    /\ t.pc = "write" => t.email \in Message \X Version
    /\ t.pc \in {"claude", "mark", "error"} => t.thread \in Thread
    /\ t.thread # None => t.pc # "idle" /\ t.job = "claude-extraction"

\* Two runs of ticks are of two jobs.
OneRunEach ==
    \A v, w \in Worker : task[v].cron /\ task[w].cron /\ task[v].job = task[w].job => v = w

\* The inductive invariant of type correctness.
TInv ==
    /\ TypeOK
    /\ \A w \in Worker : Good(task[w])
    /\ OneRunEach

-----------------------------------------------------------------------------
(* Steps of one run.                                                       *)

\* Nothing runs.
LEMMA IdleGood == Idle \in Task /\ Good(Idle) /\ ~Idle.cron
<1>1. NoRow \in [version : Version, pending : BOOLEAN]
  BY BoundAssumption DEF NoRow, Version
<1>2. Idle \in Task
  BY <1>1 DEF Idle, Task, Step
<1> QED BY <1>2 DEF Idle, Good, Extracting

\* A run that moves on keeps its job, its origin and the guard.
LEMMA RunStep ==
    ASSUME TInv, NEW w \in Worker, NEW t \in Task, Good(t),
           task' = [task EXCEPT ![w] = t], t.cron = task[w].cron, t.job = task[w].job,
           UNCHANGED running,
           sent' \in [Message -> Version],
           rows' \in [Message -> [version : Version, pending : BOOLEAN]],
           arrived' \in Seq(Message), dead' \subseteq Message \cup Thread,
           faults' \in 0 .. MaxFaults
    PROVE  TInv'
<1>1. /\ task' \in [Worker -> Task] /\ task'[w] = t
      /\ \A v \in Worker \ {w} : task'[v] = task[v]
  BY DEF TInv, TypeOK
<1>2. \A v \in Worker : task'[v].cron = task[v].cron /\ task'[v].job = task[v].job
  BY <1>1
<1>3. running' = {task'[v].job : v \in {u \in Worker : task'[u].cron}}
  BY <1>2 DEF TInv, TypeOK
<1>4. TypeOK'
  BY <1>1, <1>3 DEF TInv, TypeOK
<1>5. \A v \in Worker : Good(task'[v])
  BY <1>1 DEF TInv
<1>6. OneRunEach'
  BY <1>2 DEF TInv, OneRunEach
<1> QED BY <1>4, <1>5, <1>6 DEF TInv, Good

\* A fault is counted up to its bound.
LEMMA FaultStep == ASSUME TInv, Fault PROVE faults' \in 0 .. MaxFaults
  BY BoundAssumption DEF Fault, TInv, TypeOK

-----------------------------------------------------------------------------
(* Runs begin and end.                                                     *)

LEMMA BeginGood ==
    ASSUME TInv, NEW job \in Job, NEW cron \in BOOLEAN
    PROVE  /\ Begin(job, cron) \in Task /\ Good(Begin(job, cron))
           /\ Begin(job, cron).job = job /\ Begin(job, cron).cron = cron
           /\ Begin(job, cron).pc # "idle"
<1>1. Idle \in Task /\ Idle.thread = None
  BY IdleGood DEF Idle
<1>2. Begin(job, cron) \in Task
  BY <1>1 DEF Begin, Task, Step
<1> QED BY <1>1, <1>2 DEF Begin, Good, Extracting, Idle, Job, Task

LEMMA TickStep ==
    ASSUME TInv, NEW w \in CronWorker, NEW job \in Job, Tick(w, job)
    PROVE  TInv'
<1> DEFINE t == Begin(job, TRUE)
<1>1. /\ w \in Worker /\ task[w].pc = "idle" /\ job \notin running
      /\ running' = running \cup {job} /\ task' = [task EXCEPT ![w] = t]
      /\ UNCHANGED <<sent, rows, arrived, dead, faults>>
  BY DEF Tick, Worker, store, world
<1>2. t \in Task /\ Good(t) /\ t.job = job /\ t.cron
  BY BeginGood
<1> HIDE DEF t
<1>3. task' \in [Worker -> Task] /\ task'[w] = t /\ \A v \in Worker \ {w} : task'[v] = task[v]
  BY <1>1, <1>2 DEF TInv, TypeOK
<1>4. ~task[w].cron
  BY <1>1 DEF TInv, Good
<1>5. \A v \in Worker : task[v].cron => task[v].job # job
  BY <1>1 DEF TInv, TypeOK
<1>6. {u \in Worker : task'[u].cron} = {u \in Worker : task[u].cron} \cup {w}
  BY <1>1, <1>2, <1>3
<1>7. running' = {task'[v].job : v \in {u \in Worker : task'[u].cron}}
  BY <1>1, <1>2, <1>3, <1>4, <1>6 DEF TInv, TypeOK
<1>8. TypeOK'
  BY <1>1, <1>2, <1>3, <1>7 DEF TInv, TypeOK, Job
<1>9. \A v \in Worker : Good(task'[v])
  BY <1>2, <1>3 DEF TInv
<1>10. OneRunEach'
  BY <1>2, <1>3, <1>5 DEF TInv, OneRunEach
<1> QED BY <1>8, <1>9, <1>10 DEF TInv, Good

LEMMA TriggerStep ==
    ASSUME TInv, NEW w \in ManualWorker, NEW job \in Job, Trigger(w, job)
    PROVE  TInv'
<1> DEFINE t == Begin(job, FALSE)
<1>1. /\ w \in Worker /\ task[w].pc = "idle" /\ task' = [task EXCEPT ![w] = t]
      /\ UNCHANGED <<sent, rows, arrived, dead, faults, running>>
  BY DEF Trigger, Worker, store, world
<1>2. t \in Task /\ Good(t) /\ ~t.cron
  BY BeginGood
<1> HIDE DEF t
<1>3. task' \in [Worker -> Task] /\ task'[w] = t /\ \A v \in Worker \ {w} : task'[v] = task[v]
  BY <1>1, <1>2 DEF TInv, TypeOK
<1>4. ~task[w].cron
  BY <1>1 DEF TInv, Good
<1>5. {u \in Worker : task'[u].cron} = {u \in Worker : task[u].cron}
  BY <1>2, <1>3, <1>4
<1>6. running' = {task'[v].job : v \in {u \in Worker : task'[u].cron}}
  BY <1>1, <1>3, <1>4, <1>5 DEF TInv, TypeOK
<1>7. TypeOK'
  BY <1>1, <1>3, <1>6 DEF TInv, TypeOK
<1>8. \A v \in Worker : Good(task'[v])
  BY <1>2, <1>3 DEF TInv
<1>9. OneRunEach'
  BY <1>2, <1>3 DEF TInv, OneRunEach
<1> QED BY <1>7, <1>8, <1>9 DEF TInv, Good

LEMMA CloseStep ==
    ASSUME TInv, NEW w \in Worker, Close(w)
    PROVE  TInv'
<1>1. /\ task[w].pc = "close" /\ task' = [task EXCEPT ![w] = Idle]
      /\ running' = IF task[w].cron THEN running \ {task[w].job} ELSE running
      /\ UNCHANGED <<sent, rows, arrived, dead, faults>>
  BY DEF Close, store, world
<1>2. /\ task' \in [Worker -> Task] /\ task'[w] = Idle
      /\ \A v \in Worker \ {w} : task'[v] = task[v]
  BY <1>1, IdleGood DEF TInv, TypeOK
<1>3. \A v \in Worker \ {w} : task[v].cron /\ task[w].cron => task[v].job # task[w].job
  BY DEF TInv, OneRunEach
<1>4. {u \in Worker : task'[u].cron} = {u \in Worker : task[u].cron} \ {w}
  BY <1>2, IdleGood
<1>5. running' = {task'[v].job : v \in {u \in Worker : task'[u].cron}}
  <2>1. \A v \in {u \in Worker : task'[u].cron} : v # w /\ task'[v].job = task[v].job
    BY <1>2, <1>4
  <2>2. running = {task[v].job : v \in {u \in Worker : task[u].cron}}
    BY DEF TInv, TypeOK
  <2> QED BY <1>1, <1>3, <1>4, <2>1, <2>2
<1>6. TypeOK'
  BY <1>1, <1>2, <1>5 DEF TInv, TypeOK
<1>7. \A v \in Worker : Good(task'[v])
  BY <1>2, IdleGood DEF TInv
<1>8. OneRunEach'
  BY <1>2, IdleGood DEF TInv, OneRunEach
<1> QED BY <1>6, <1>7, <1>8 DEF TInv, Good

LEMMA CrashStep ==
    ASSUME TInv, Crash
    PROVE  TInv'
<1>1. /\ running' = {} /\ task' = [v \in Worker |-> Idle]
      /\ UNCHANGED <<sent, rows, arrived, dead>> /\ faults' \in 0 .. MaxFaults
  BY FaultStep DEF Crash, store
<1>2. /\ task' \in [Worker -> Task]
      /\ \A v \in Worker : Good(task'[v]) /\ ~task'[v].cron
  BY <1>1, IdleGood
<1>3. running' = {task'[v].job : v \in {u \in Worker : task'[u].cron}}
  BY <1>1, <1>2
<1> QED BY <1>1, <1>2, <1>3 DEF TInv, TypeOK, OneRunEach, Good

-----------------------------------------------------------------------------
(* The steps of the two jobs.                                              *)

\* The copy of the messages.
LEMMA SyncStep ==
    ASSUME TInv, NEW w \in Worker,
           \/ FetchPage(w) \/ NoMorePages(w) \/ FindMessage(w)
           \/ CreateMessage(w) \/ UpdateMessage(w) \/ MessageFails(w)
    PROVE  TInv'
<1> DEFINE t == task[w]
           done == [t EXCEPT !.pc = "page", !.email = None, !.found = NoRow]
<1>0. /\ t \in Task /\ Good(t) /\ task \in [Worker -> Task]
      /\ sent \in [Message -> Version] /\ dead \subseteq Message \cup Thread
      /\ rows \in [Message -> [version : Version, pending : BOOLEAN]]
      /\ arrived \in Seq(Message) /\ faults \in 0 .. MaxFaults
  BY DEF TInv, TypeOK
<1>1. CASE FetchPage(w)
  <2>1. PICK ms \in (SUBSET t.left) \ {{}} :
            task' = [task EXCEPT ![w].left = @ \ ms, ![w].page = {<<m, sent[m]>> : m \in ms}]
    BY <1>1 DEF FetchPage
  <2> DEFINE u == [t EXCEPT !.left = @ \ ms, !.page = {<<m, sent[m]>> : m \in ms}]
  <2>2. task' = [task EXCEPT ![w] = u]
    BY <1>0, <2>1
  <2>3. {<<m, sent[m]>> : m \in ms} \subseteq Message \X Version
    BY <1>0, <2>1 DEF Task
  <2>4. u \in Task /\ Good(u) /\ u.cron = t.cron /\ u.job = t.job
    BY <1>0, <1>1, <2>3 DEF Task, Good, FetchPage
  <2> HIDE DEF u
  <2> QED BY <1>0, <1>1, <2>2, <2>4, RunStep DEF FetchPage, store, world
<1>2. CASE NoMorePages(w)
  <2> DEFINE u == [t EXCEPT !.pc = "close"]
  <2>1. task' = [task EXCEPT ![w] = u]
    BY <1>0, <1>2 DEF NoMorePages
  <2>2. u \in Task /\ Good(u) /\ u.cron = t.cron /\ u.job = t.job
    BY <1>0, <1>2 DEF Task, Step, Good, Extracting, NoMorePages
  <2> HIDE DEF u
  <2> QED BY <1>0, <1>2, <2>1, <2>2, RunStep DEF NoMorePages, store, world
<1>3. CASE FindMessage(w)
  <2>1. PICK e \in t.page :
            task' = [task EXCEPT ![w].pc = "write", ![w].page = @ \ {e},
                                 ![w].email = e, ![w].found = rows[e[1]]]
    BY <1>3 DEF FindMessage
  <2> DEFINE u == [t EXCEPT !.pc = "write", !.page = @ \ {e}, !.email = e,
                            !.found = rows[e[1]]]
  <2>2. task' = [task EXCEPT ![w] = u]
    BY <1>0, <2>1
  <2>3. e \in Message \X Version /\ rows[e[1]] \in [version : Version, pending : BOOLEAN]
    BY <1>0, <2>1 DEF Task
  <2>4. u \in Task /\ Good(u) /\ u.cron = t.cron /\ u.job = t.job
    BY <1>0, <1>3, <2>3 DEF Task, Step, Good, Extracting, FindMessage
  <2> HIDE DEF u
  <2> QED BY <1>0, <1>3, <2>2, <2>4, RunStep DEF FindMessage, store, world
<1>4. t.pc = "write" => done \in Task /\ Good(done) /\ done.cron = t.cron /\ done.job = t.job
  <2>1. NoRow \in [version : Version, pending : BOOLEAN]
    BY IdleGood DEF Idle, Task
  <2> QED BY <1>0, <2>1 DEF Task, Step, Good, Extracting
<1>5. t.pc = "write" => t.email[1] \in Message /\ t.email[2] \in Version
  BY <1>0 DEF Good
<1>6. CASE CreateMessage(w)
  <2>1. t.pc = "write" /\ task' = [task EXCEPT ![w] = done]
    BY <1>0, <1>6 DEF CreateMessage
  <2>2. /\ rows' \in [Message -> [version : Version, pending : BOOLEAN]]
        /\ arrived' \in Seq(Message) /\ dead' \subseteq Message \cup Thread
    <3> DEFINE m == t.email[1]
               row == [version |-> t.email[2], pending |-> TRUE]
    <3>1. m \in Message /\ row \in [version : Version, pending : BOOLEAN]
      BY <1>5, <2>1
    <3>2. CASE rows[m].version = 0
      <4>1. rows' = [rows EXCEPT ![m] = row] /\ arrived' = Append(arrived, m) /\ dead' = dead
        BY <1>6, <3>2 DEF CreateMessage
      <4> HIDE DEF m, row
      <4> QED BY <1>0, <3>1, <4>1
    <3>3. CASE rows[m].version # 0
      <4>1. UNCHANGED <<rows, arrived>> /\ dead' = dead \cup {m}
        BY <1>6, <3>3 DEF CreateMessage
      <4> HIDE DEF m
      <4> QED BY <1>0, <3>1, <4>1
    <3> QED BY <3>2, <3>3
  <2> HIDE DEF done
  <2> QED BY <1>0, <1>4, <1>6, <2>1, <2>2, RunStep DEF CreateMessage, world
<1>7. CASE UpdateMessage(w)
  <2>1. t.pc = "write" /\ task' = [task EXCEPT ![w] = done]
    BY <1>0, <1>7 DEF UpdateMessage
  <2>2. rows' \in [Message -> [version : Version, pending : BOOLEAN]]
    BY <1>0, <1>5, <1>7 DEF UpdateMessage
  <2> HIDE DEF done
  <2> QED BY <1>0, <1>4, <1>7, <2>1, <2>2, RunStep DEF UpdateMessage, world
<1>8. CASE MessageFails(w)
  <2>1. t.pc = "write" /\ task' = [task EXCEPT ![w] = done]
    BY <1>0, <1>8 DEF MessageFails
  <2>2. dead' \subseteq Message \cup Thread /\ faults' \in 0 .. MaxFaults
    BY <1>0, <1>5, <1>8, FaultStep DEF MessageFails
  <2> HIDE DEF done
  <2> QED BY <1>0, <1>4, <1>8, <2>1, <2>2, RunStep DEF MessageFails
<1> QED BY <1>1, <1>2, <1>3, <1>6, <1>7, <1>8

\* The extraction, and a run that fails.
LEMMA ExtractionStep ==
    ASSUME TInv, NEW w \in Worker,
           \/ List(w) \/ ThreadsDone(w) \/ ReadThread(w) \/ Extract(w)
           \/ MarkThread(w) \/ ThreadFails(w) \/ RunFails(w)
    PROVE  TInv'
<1> DEFINE t == task[w]
<1>0. /\ t \in Task /\ Good(t) /\ task \in [Worker -> Task]
      /\ sent \in [Message -> Version] /\ dead \subseteq Message \cup Thread
      /\ rows \in [Message -> [version : Version, pending : BOOLEAN]]
      /\ arrived \in Seq(Message) /\ faults \in 0 .. MaxFaults
  BY DEF TInv, TypeOK
<1>1. CASE List(w)
  <2> DEFINE u == [t EXCEPT !.pc = "next", !.threads = Batch]
  <2>1. task' = [task EXCEPT ![w] = u]
    BY <1>0, <1>1 DEF List
  <2>2. Batch \subseteq Thread
    BY ThreadAssumption DEF Batch, Pending
  <2>3. u \in Task /\ Good(u) /\ u.cron = t.cron /\ u.job = t.job
    BY <1>0, <1>1, <2>2 DEF Task, Step, Good, Extracting, List
  <2> HIDE DEF u
  <2> QED BY <1>0, <1>1, <2>1, <2>3, RunStep DEF List, store, world
<1>2. CASE ThreadsDone(w) \/ RunFails(w)
  <2> DEFINE u == [t EXCEPT !.pc = "close"]
  <2>1. t.pc \in {"page", "next", "list", "error"} /\ task' = [task EXCEPT ![w] = u]
    BY <1>0, <1>2 DEF ThreadsDone, RunFails
  <2>2. u \in Task /\ Good(u) /\ u.cron = t.cron /\ u.job = t.job
    BY <1>0, <2>1 DEF Task, Step, Good, Extracting
  <2>3. faults' \in 0 .. MaxFaults
    BY <1>0, <1>2, FaultStep DEF ThreadsDone, RunFails, world
  <2> HIDE DEF u
  <2> QED BY <1>0, <1>2, <2>1, <2>2, <2>3, RunStep DEF ThreadsDone, RunFails, store, world
<1>3. CASE ReadThread(w)
  <2>1. PICK th \in t.threads :
            task' = [task EXCEPT ![w].pc = IF In(th) = {} THEN "mark" ELSE "claude",
                                 ![w].threads = @ \ {th}, ![w].thread = th]
    BY <1>3 DEF ReadThread
  <2> DEFINE u == [t EXCEPT !.pc = IF In(th) = {} THEN "mark" ELSE "claude",
                            !.threads = @ \ {th}, !.thread = th]
  <2>2. task' = [task EXCEPT ![w] = u]
    BY <1>0, <2>1
  <2>3. u \in Task /\ Good(u) /\ u.cron = t.cron /\ u.job = t.job
    BY <1>0, <1>3, <2>1 DEF Task, Step, Good, Extracting, ReadThread
  <2> HIDE DEF u
  <2> QED BY <1>0, <1>3, <2>2, <2>3, RunStep DEF ReadThread, store, world
<1>4. CASE Extract(w)
  <2> DEFINE u == [t EXCEPT !.pc = "mark"]
  <2>1. task' = [task EXCEPT ![w] = u]
    BY <1>0, <1>4 DEF Extract
  <2>2. u \in Task /\ Good(u) /\ u.cron = t.cron /\ u.job = t.job
    BY <1>0, <1>4 DEF Task, Step, Good, Extracting, Extract
  <2> HIDE DEF u
  <2> QED BY <1>0, <1>4, <2>1, <2>2, RunStep DEF Extract, store, world
<1>5. CASE MarkThread(w)
  <2> DEFINE u == [t EXCEPT !.pc = "next", !.thread = None]
  <2>1. task' = [task EXCEPT ![w] = u]
    BY <1>0, <1>5 DEF MarkThread
  <2>2. u \in Task /\ Good(u) /\ u.cron = t.cron /\ u.job = t.job
    BY <1>0, <1>5 DEF Task, Step, Good, Extracting, MarkThread
  <2>3. rows' \in [Message -> [version : Version, pending : BOOLEAN]]
    BY <1>0, <1>5 DEF MarkThread
  <2> HIDE DEF u
  <2> QED BY <1>0, <1>5, <2>1, <2>2, <2>3, RunStep DEF MarkThread, world
<1>6. CASE ThreadFails(w)
  <2> DEFINE u == [t EXCEPT !.pc = "error"]
  <2>1. t.pc \in {"claude", "mark"} /\ task' = [task EXCEPT ![w] = u]
    BY <1>0, <1>6 DEF ThreadFails
  <2>2. u \in Task /\ Good(u) /\ u.cron = t.cron /\ u.job = t.job
    BY <1>0, <2>1 DEF Task, Step, Good, Extracting
  <2>3. faults' \in 0 .. MaxFaults /\ dead' \subseteq Message \cup Thread
    BY <1>0, <1>6, <2>1, FaultStep DEF ThreadFails, Good
  <2> HIDE DEF u
  <2> QED BY <1>0, <1>6, <2>1, <2>2, <2>3, RunStep DEF ThreadFails
<1> QED BY <1>1, <1>2, <1>3, <1>4, <1>5, <1>6

LEMMA SendStep ==
    ASSUME TInv, NEW m \in Message, Send(m)
    PROVE  TInv'
<1>1. sent' \in [Message -> Version]
  BY BoundAssumption DEF Send, TInv, TypeOK, Version
<1> QED BY <1>1 DEF Send, TInv, TypeOK, store, OneRunEach, Good

-----------------------------------------------------------------------------
(* Type correctness.                                                       *)

LEMMA InitTyped == Init => TInv
<1> SUFFICES ASSUME Init PROVE TInv
  OBVIOUS
<1>1. task = [w \in Worker |-> Idle] /\ running = {}
  BY DEF Init
<1>2. task \in [Worker -> Task] /\ \A w \in Worker : Good(task[w]) /\ ~task[w].cron
  BY <1>1, IdleGood
<1>3. running = {task[w].job : w \in {v \in Worker : task[v].cron}}
  BY <1>1, <1>2
<1>4. NoRow \in [version : Version, pending : BOOLEAN] /\ 0 \in Version /\ 0 \in 0 .. MaxFaults
  BY BoundAssumption DEF NoRow, Version
<1>5. <<>> \in Seq(Message)
  OBVIOUS
<1> QED BY <1>2, <1>3, <1>4, <1>5 DEF Init, TInv, TypeOK, OneRunEach

LEMMA NextTyped == TInv /\ [Next]_vars => TInv'
<1> SUFFICES ASSUME TInv, [Next]_vars PROVE TInv'
  OBVIOUS
<1>1. CASE \E m \in Message : Send(m)
  BY <1>1, SendStep
<1>2. CASE \E w \in CronWorker, job \in Job : Tick(w, job)
  BY <1>2, TickStep
<1>3. CASE \E w \in ManualWorker, job \in Job : Trigger(w, job)
  BY <1>3, TriggerStep
<1>4. CASE \E w \in Worker : Continue(w) \/ RunFails(w) \/ MessageFails(w) \/ ThreadFails(w)
  BY <1>4, SyncStep, ExtractionStep, CloseStep DEF Continue
<1>5. CASE Crash
  BY <1>5, CrashStep
<1>6. CASE UNCHANGED vars
  BY <1>6 DEF TInv, TypeOK, Good, OneRunEach, vars
<1> QED BY <1>1, <1>2, <1>3, <1>4, <1>5, <1>6 DEF Next

LEMMA AlwaysTyped == Spec => []TInv
<1> QED BY InitTyped, NextTyped, PTL DEF Spec

\* Every run's state and the tables stay well typed, and the guard is held by
\* the runs that ticks started and by nobody else, whatever runs, fails or
\* restarts.  (sync.scheduler.ts runGuarded)
THEOREM TypeCorrect == Spec => []TypeOK
<1>1. TInv => TypeOK
  BY DEF TInv
<1> QED BY <1>1, AlwaysTyped, PTL

-----------------------------------------------------------------------------
(* The scheduler's promise.                                                *)

\* A run is none of the things a worker without one holds.
LEMMA RunIsNotNone == \A job \in Job, origin \in Origin : <<job, origin>> # None
  BY NoneAssumption

LEMMA RunnerInit == Init => Runner!Init
  BY IdleGood DEF Init, Runner!Init, active, Idle

\* A run that goes on keeps its job and its origin.
Onward(w) ==
    /\ task[w].pc # "idle" /\ task'[w].pc # "idle"
    /\ task'[w].job = task[w].job /\ task'[w].cron = task[w].cron
    /\ \A v \in Worker \ {w} : task'[v] = task[v]

LEMMA SyncOnward ==
    ASSUME TInv, NEW w \in Worker,
           \/ FetchPage(w) \/ NoMorePages(w) \/ FindMessage(w)
           \/ CreateMessage(w) \/ UpdateMessage(w) \/ MessageFails(w)
    PROVE  Onward(w)
<1>0. task \in [Worker -> Task] /\ task[w] \in Task
  BY DEF TInv, TypeOK
<1>1. CASE FetchPage(w)
  <2>1. PICK ms : task' = [task EXCEPT ![w].left = @ \ ms,
                                      ![w].page = {<<m, sent[m]>> : m \in ms}]
    BY <1>1 DEF FetchPage
  <2>2. task'[w] = [task[w] EXCEPT !.left = @ \ ms, !.page = {<<m, sent[m]>> : m \in ms}]
    BY <1>0, <2>1
  <2>3. \A v \in Worker \ {w} : task'[v] = task[v]
    BY <1>0, <2>1
  <2> QED BY <1>0, <1>1, <2>2, <2>3 DEF FetchPage, Onward, Task
<1>2. CASE NoMorePages(w)
  BY <1>0, <1>2 DEF NoMorePages, Onward, Task
<1>3. CASE FindMessage(w)
  <2>1. PICK e : task' = [task EXCEPT ![w].pc = "write", ![w].page = @ \ {e},
                                     ![w].email = e, ![w].found = rows[e[1]]]
    BY <1>3 DEF FindMessage
  <2>2. task'[w] = [task[w] EXCEPT !.pc = "write", !.page = @ \ {e}, !.email = e,
                                   !.found = rows[e[1]]]
    BY <1>0, <2>1
  <2>3. \A v \in Worker \ {w} : task'[v] = task[v]
    BY <1>0, <2>1
  <2> QED BY <1>0, <1>3, <2>2, <2>3 DEF FindMessage, Onward, Task
<1>4. CASE CreateMessage(w)
  BY <1>0, <1>4 DEF CreateMessage, Onward, Task
<1>5. CASE UpdateMessage(w)
  BY <1>0, <1>5 DEF UpdateMessage, Onward, Task
<1>6. CASE MessageFails(w)
  BY <1>0, <1>6 DEF MessageFails, Onward, Task
<1> QED BY <1>1, <1>2, <1>3, <1>4, <1>5, <1>6

LEMMA ExtractionOnward ==
    ASSUME TInv, NEW w \in Worker,
           \/ List(w) \/ ThreadsDone(w) \/ ReadThread(w) \/ Extract(w)
           \/ MarkThread(w) \/ ThreadFails(w) \/ RunFails(w)
    PROVE  Onward(w)
<1>0. task \in [Worker -> Task] /\ task[w] \in Task
  BY DEF TInv, TypeOK
<1>1. CASE List(w)
  BY <1>0, <1>1 DEF List, Onward, Task
<1>2. CASE ThreadsDone(w)
  BY <1>0, <1>2 DEF ThreadsDone, Onward, Task
<1>3. CASE ReadThread(w)
  <2>1. PICK th : task' = [task EXCEPT ![w].pc = IF In(th) = {} THEN "mark" ELSE "claude",
                                      ![w].threads = @ \ {th}, ![w].thread = th]
    BY <1>3 DEF ReadThread
  <2>2. task'[w] = [task[w] EXCEPT !.pc = IF In(th) = {} THEN "mark" ELSE "claude",
                                   !.threads = @ \ {th}, !.thread = th]
    BY <1>0, <2>1
  <2>3. \A v \in Worker \ {w} : task'[v] = task[v]
    BY <1>0, <2>1
  <2> QED BY <1>0, <1>3, <2>2, <2>3 DEF ReadThread, Onward, Task
<1>4. CASE Extract(w)
  BY <1>0, <1>4 DEF Extract, Onward, Task
<1>5. CASE MarkThread(w)
  BY <1>0, <1>5 DEF MarkThread, Onward, Task
<1>6. CASE ThreadFails(w)
  BY <1>0, <1>6 DEF ThreadFails, Onward, Task
<1>7. CASE RunFails(w)
  BY <1>0, <1>7 DEF RunFails, Onward, Task
<1> QED BY <1>1, <1>2, <1>3, <1>4, <1>5, <1>6, <1>7

\* Such a step is none of the scheduler's.
LEMMA SameRuns ==
    ASSUME NEW w \in Worker, Onward(w)
    PROVE  active' = active
<1>1. \A v \in Worker :
         (IF task'[v].pc = "idle" THEN None
          ELSE <<task'[v].job, IF task'[v].cron THEN "cron" ELSE "manual">>)
       = (IF task[v].pc = "idle" THEN None
          ELSE <<task[v].job, IF task[v].cron THEN "cron" ELSE "manual">>)
  BY DEF Onward
<1> QED BY <1>1 DEF active

\* A worker that took up a run, or left one.
LEMMA RunChanges ==
    ASSUME TInv, NEW w \in Worker, NEW t \in Task, task' = [task EXCEPT ![w] = t]
    PROVE  active' = [active EXCEPT ![w] =
                         IF t.pc = "idle" THEN None
                         ELSE <<t.job, IF t.cron THEN "cron" ELSE "manual">>]
<1>1. task'[w] = t /\ \A v \in Worker \ {w} : task'[v] = task[v]
  BY DEF TInv, TypeOK
<1> DEFINE Doing(u) == IF u.pc = "idle" THEN None
                       ELSE <<u.job, IF u.cron THEN "cron" ELSE "manual">>
<1>2. active = [v \in Worker |-> Doing(task[v])] /\ active' = [v \in Worker |-> Doing(task'[v])]
  BY DEF active
<1> HIDE DEF Doing
<1>3. active' = [active EXCEPT ![w] = Doing(t)]
  BY <1>1, <1>2
<1> QED BY <1>3 DEF Doing

LEMMA RunnerStep == TInv /\ [Next]_vars => [Runner!Next]_active
<1> SUFFICES ASSUME TInv, [Next]_vars PROVE [Runner!Next]_active
  OBVIOUS
<1>1. CASE \E m \in Message : Send(m)
  BY <1>1 DEF Send, active
<1>2. ASSUME NEW w \in CronWorker, NEW job \in Job, Tick(w, job)
      PROVE  Runner!Start(w, job, "cron")
  <2> DEFINE t == Begin(job, TRUE)
  <2>1. t \in Task /\ t.pc # "idle" /\ t.job = job /\ t.cron
    BY BeginGood
  <2>2. w \in Worker /\ task[w].pc = "idle" /\ task' = [task EXCEPT ![w] = t]
    BY <1>2 DEF Tick, Worker
  <2> HIDE DEF t
  <2>3. active' = [active EXCEPT ![w] = <<job, "cron">>]
    BY <2>1, <2>2, RunChanges
  <2>4. active[w] = None
    BY <2>2 DEF active
  <2>5. ASSUME NEW v \in Worker, active[v] = <<job, "cron">> PROVE FALSE
    <3>1. task[v].pc # "idle"
      BY <2>5, RunIsNotNone DEF active, Origin
    <3>2. task[v].job = job /\ task[v].cron
      BY <2>5, <3>1 DEF active
    <3>3. job \in running
      BY <3>2 DEF TInv, TypeOK
    <3> QED BY <1>2, <3>3 DEF Tick
  <2> QED BY <2>3, <2>4, <2>5 DEF Runner!Start, Runner!Runs
<1>3. ASSUME NEW w \in ManualWorker, NEW job \in Job, Trigger(w, job)
      PROVE  Runner!Start(w, job, "manual")
  <2> DEFINE t == Begin(job, FALSE)
  <2>1. t \in Task /\ t.pc # "idle" /\ t.job = job /\ ~t.cron
    BY BeginGood
  <2>2. w \in Worker /\ task[w].pc = "idle" /\ task' = [task EXCEPT ![w] = t]
    BY <1>3 DEF Trigger, Worker
  <2> HIDE DEF t
  <2>3. active' = [active EXCEPT ![w] = <<job, "manual">>]
    BY <2>1, <2>2, RunChanges
  <2>4. active[w] = None
    BY <2>2 DEF active
  <2> QED BY <2>3, <2>4 DEF Runner!Start
<1>4. ASSUME NEW w \in Worker, Close(w) PROVE Runner!Finish(w)
  <2>1. active' = [active EXCEPT ![w] = None]
    BY <1>4, IdleGood, RunChanges DEF Close, Idle
  <2>2. task[w].pc # "idle" /\ task[w].job \in Job
    BY <1>4 DEF Close, TInv, Good
  <2>3. active[w] # None
    BY <2>2, RunIsNotNone DEF active, Origin
  <2> QED BY <2>1, <2>3 DEF Runner!Finish
<1>5. CASE \E w \in Worker : Continue(w) \/ RunFails(w) \/ MessageFails(w) \/ ThreadFails(w)
  BY <1>4, <1>5, SyncOnward, ExtractionOnward, SameRuns DEF Continue, Runner!Next
<1>6. CASE Crash
  BY <1>6 DEF Crash, Idle, active, Runner!Next, Runner!Crash
<1>7. CASE UNCHANGED vars
  BY <1>7 DEF vars, active
<1> QED BY <1>1, <1>2, <1>3, <1>5, <1>6, <1>7 DEF Next, Runner!Next, Worker, Origin

\* The runs implement JobRunner but for its fairness: a tick starts a job only
\* when no cron run of it is in flight, whatever requests start, calls fail or
\* restarts cut off.  (sync.scheduler.ts runGuarded, sync.controller.ts)
THEOREM RunsAsPromised == Spec => Runner!Safety
<1> QED BY RunnerInit, RunnerStep, AlwaysTyped, PTL DEF Spec, Runner!Safety

-----------------------------------------------------------------------------
(* Calls to Claude, with ticks alone.                                      *)

TicksOnly == ManualWorker = {}

InBatch == {"next", "claude", "mark", "error"}

\* A run is a tick's; what is left of its batch is pending, and the thread at
\* hand is not among it.
Calling(t, pending) ==
    /\ t.pc # "idle" => t.cron
    /\ t.pc \in InBatch => t.threads \subseteq pending
    /\ t.pc \in {"claude", "mark", "error"} => t.thread \notin t.threads

\* The inductive invariant of the calls.
CInv == \A w \in Worker : Calling(task[w], Pending)

\* One run extracts at a time.
LEMMA OneExtracts ==
    ASSUME TInv, CInv, NEW v \in Worker, NEW w \in Worker,
           task[v].pc # "idle", task[w].pc # "idle",
           task[v].job = "claude-extraction", task[w].job = "claude-extraction"
    PROVE  v = w
  BY DEF TInv, CInv, Calling, OneRunEach

\* What the copy of messages and the failures leave pending.
LEMMA PendingGrows ==
    ASSUME TInv, \A m \in Message : rows[m].pending => rows'[m].pending
    PROVE  Pending \subseteq Pending'
  BY DEF Pending

LEMMA PendingSame ==
    ASSUME TInv, CInv, NEW w \in Worker, Pending \subseteq Pending',
           \A v \in Worker \ {w} : task'[v] = task[v], Calling(task'[w], Pending')
    PROVE  CInv'
<1>1. \A v \in Worker \ {w} : Calling(task'[v], Pending')
  BY DEF CInv, Calling
<1> QED BY <1>1 DEF CInv

LEMMA SyncCalls ==
    ASSUME TInv, CInv, NEW w \in Worker,
           \/ FetchPage(w) \/ NoMorePages(w) \/ FindMessage(w)
           \/ CreateMessage(w) \/ UpdateMessage(w) \/ MessageFails(w)
    PROVE  CInv'
<1>1. Onward(w)
  BY SyncOnward
<1>0. task \in [Worker -> Task] /\ task[w] \in Task
  BY DEF TInv, TypeOK
<1>2. task[w].pc \in {"page", "write"} /\ task'[w].pc \in {"page", "write", "close"}
  <2>1. CASE FetchPage(w)
    <3>1. PICK ms : task' = [task EXCEPT ![w].left = @ \ ms,
                                        ![w].page = {<<m, sent[m]>> : m \in ms}]
      BY <2>1 DEF FetchPage
    <3>2. task'[w] = [task[w] EXCEPT !.left = @ \ ms, !.page = {<<m, sent[m]>> : m \in ms}]
      BY <1>0, <3>1
    <3> QED BY <1>0, <2>1, <3>2 DEF FetchPage, Task
  <2>2. CASE FindMessage(w)
    <3>1. PICK e : task' = [task EXCEPT ![w].pc = "write", ![w].page = @ \ {e},
                                       ![w].email = e, ![w].found = rows[e[1]]]
      BY <2>2 DEF FindMessage
    <3>2. task'[w] = [task[w] EXCEPT !.pc = "write", !.page = @ \ {e}, !.email = e,
                                     !.found = rows[e[1]]]
      BY <1>0, <3>1
    <3> QED BY <1>0, <2>2, <3>2 DEF FindMessage, Task
  <2>3. CASE NoMorePages(w)
    BY <1>0, <2>3 DEF NoMorePages, Task
  <2>4. CASE CreateMessage(w)
    BY <1>0, <2>4 DEF CreateMessage, Task
  <2>5. CASE UpdateMessage(w)
    BY <1>0, <2>5 DEF UpdateMessage, Task
  <2>6. CASE MessageFails(w)
    BY <1>0, <2>6 DEF MessageFails, Task
  <2> QED BY <2>1, <2>2, <2>3, <2>4, <2>5, <2>6
<1>3. Calling(task'[w], Pending')
  BY <1>1, <1>2 DEF Onward, CInv, Calling, InBatch
<1>4. \A m \in Message : rows[m].pending => rows'[m].pending
  <2>1. CASE FetchPage(w) \/ NoMorePages(w) \/ FindMessage(w) \/ MessageFails(w)
    BY <2>1 DEF FetchPage, NoMorePages, FindMessage, MessageFails, store
  <2>2. CASE CreateMessage(w) \/ UpdateMessage(w)
    <3>1. \/ rows' = rows
          \/ rows' = [rows EXCEPT ![task[w].email[1]] =
                         [version |-> task[w].email[2], pending |-> TRUE]]
      BY <2>2 DEF CreateMessage, UpdateMessage
    <3> QED BY <3>1 DEF TInv, TypeOK
  <2> QED BY <2>1, <2>2
<1>5. Pending \subseteq Pending'
  BY <1>4, PendingGrows
<1> QED BY <1>1, <1>3, <1>5, PendingSame DEF Onward

LEMMA ExtractionCalls ==
    ASSUME TInv, CInv, NEW w \in Worker,
           \/ List(w) \/ ThreadsDone(w) \/ ReadThread(w) \/ Extract(w)
           \/ ThreadFails(w) \/ RunFails(w)
    PROVE  CInv'
<1>1. Onward(w)
  BY ExtractionOnward
<1>2. Pending' = Pending
  <2>1. rows' = rows
    BY DEF List, ThreadsDone, ReadThread, Extract, ThreadFails, RunFails, store
  <2> QED BY <2>1 DEF Pending
<1>3. /\ task \in [Worker -> Task] /\ task[w] \in Task /\ Calling(task[w], Pending)
  BY DEF TInv, TypeOK, CInv
<1>4. CASE List(w)
  <2>1. Batch \subseteq Pending
    BY DEF Batch
  <2>2. task'[w].pc = "next" /\ task'[w].threads = Batch
    BY <1>3, <1>4 DEF List, Task
  <2>3. Calling(task'[w], Pending)
    BY <1>1, <1>3, <2>1, <2>2 DEF Onward, Calling
  <2> QED BY <1>1, <1>2, <2>3, PendingSame DEF Onward
<1>5. CASE ThreadsDone(w) \/ RunFails(w)
  <2>1. task'[w].pc = "close"
    BY <1>3, <1>5 DEF ThreadsDone, RunFails, Task
  <2>2. Calling(task'[w], Pending)
    BY <1>1, <1>3, <2>1 DEF Onward, Calling, InBatch
  <2> QED BY <1>1, <1>2, <2>2, PendingSame DEF Onward
<1>6. CASE ReadThread(w)
  <2>1. PICK th : task' = [task EXCEPT ![w].pc = IF In(th) = {} THEN "mark" ELSE "claude",
                                      ![w].threads = @ \ {th}, ![w].thread = th]
    BY <1>6 DEF ReadThread
  <2>2. task'[w] = [task[w] EXCEPT !.pc = IF In(th) = {} THEN "mark" ELSE "claude",
                                   !.threads = @ \ {th}, !.thread = th]
    BY <1>3, <2>1
  <2>3. task[w].pc = "next" /\ task'[w].thread = th /\ task'[w].threads = task[w].threads \ {th}
    BY <1>3, <1>6, <2>2 DEF ReadThread, Task
  <2>4. Calling(task'[w], Pending)
    BY <1>1, <1>3, <2>3 DEF Onward, Calling, InBatch
  <2> QED BY <1>1, <1>2, <2>4, PendingSame DEF Onward
<1>7. CASE Extract(w) \/ ThreadFails(w)
  <2>1. /\ task[w].pc \in {"claude", "mark"} /\ task'[w].pc \in {"mark", "error"}
        /\ task'[w].thread = task[w].thread /\ task'[w].threads = task[w].threads
    BY <1>3, <1>7 DEF Extract, ThreadFails, Task
  <2>2. Calling(task'[w], Pending)
    BY <1>1, <1>3, <2>1 DEF Onward, Calling, InBatch
  <2> QED BY <1>1, <1>2, <2>2, PendingSame DEF Onward
<1> QED BY <1>4, <1>5, <1>6, <1>7

\* A run marks the thread at hand, which is not in its batch, and no other run
\* has one.
LEMMA MarkCalls ==
    ASSUME TInv, CInv, NEW w \in Worker, MarkThread(w)
    PROVE  CInv'
<1>1. Onward(w)
  BY ExtractionOnward
<1>2. /\ task \in [Worker -> Task] /\ task[w] \in Task /\ Good(task[w])
      /\ Calling(task[w], Pending)
  BY DEF TInv, TypeOK, CInv
<1>3. /\ task[w].pc \in {"mark", "error"} /\ task'[w].pc = "next"
      /\ task'[w].threads = task[w].threads
  BY <1>2 DEF MarkThread, Task
<1>4. Pending \ {task[w].thread} \subseteq Pending'
  <2>1. ASSUME NEW m \in Message, rows[m].pending, ThreadOf[m] # task[w].thread
        PROVE  rows'[m].pending
    BY <2>1 DEF MarkThread, In, TInv, TypeOK
  <2> QED BY <2>1 DEF Pending
<1>5. Calling(task'[w], Pending')
  BY <1>1, <1>2, <1>3, <1>4 DEF Onward, Calling, InBatch
<1>6. ASSUME NEW v \in Worker \ {w} PROVE Calling(task'[v], Pending')
  <2>1. task'[v] = task[v]
    BY <1>1 DEF Onward
  <2>2. task[v].pc \notin InBatch
    BY <1>2, <1>3, OneExtracts DEF TInv, Good, InBatch, Extracting
  <2> QED BY <2>1, <2>2 DEF CInv, Calling, InBatch
<1> QED BY <1>5, <1>6 DEF CInv

LEMMA NextCalls ==
    ASSUME TicksOnly, TInv, CInv, [Next]_vars
    PROVE  CInv'
<1>1. CASE \E m \in Message : Send(m)
  BY <1>1 DEF Send, store, CInv, Pending
<1>2. ASSUME NEW w \in CronWorker, NEW job \in Job, Tick(w, job)
      PROVE  CInv'
  <2>1. /\ Begin(job, TRUE).cron /\ Begin(job, TRUE).pc \notin InBatch
    BY DEF Begin, Idle, InBatch
  <2>2. task' = [task EXCEPT ![w] = Begin(job, TRUE)] /\ rows' = rows /\ w \in Worker
    BY <1>2 DEF Tick, store, Worker
  <2>3. task'[w] = Begin(job, TRUE) /\ \A v \in Worker \ {w} : task'[v] = task[v]
    BY <2>2 DEF TInv, TypeOK
  <2>4. Pending' = Pending
    BY <2>2 DEF Pending
  <2>5. Calling(task'[w], Pending')
    BY <2>1, <2>3 DEF Calling, InBatch
  <2> QED BY <2>2, <2>3, <2>4, <2>5, PendingSame
<1>3. CASE \E w \in ManualWorker, job \in Job : Trigger(w, job)
  BY <1>3 DEF TicksOnly
<1>4. ASSUME NEW w \in Worker, Close(w) PROVE CInv'
  <2>1. task'[w] = Idle /\ \A v \in Worker \ {w} : task'[v] = task[v]
    BY <1>4 DEF Close, TInv, TypeOK
  <2>2. Pending' = Pending
    BY <1>4 DEF Close, store, Pending
  <2>3. Calling(task'[w], Pending')
    BY <2>1 DEF Calling, InBatch, Idle
  <2> QED BY <2>1, <2>2, <2>3, PendingSame
<1>5. CASE \E w \in Worker : Continue(w) \/ RunFails(w) \/ MessageFails(w) \/ ThreadFails(w)
  BY <1>4, <1>5, SyncCalls, ExtractionCalls, MarkCalls DEF Continue
<1>6. CASE Crash
  BY <1>6 DEF Crash, Idle, CInv, Calling, InBatch
<1>7. CASE UNCHANGED vars
  BY <1>7 DEF vars, CInv, Pending
<1> QED BY <1>1, <1>2, <1>3, <1>5, <1>6, <1>7 DEF Next

\* The call itself.
LEMMA CallStep ==
    ASSUME TInv, CInv, [Next]_vars, NEW w \in Worker,
           task[w].pc = "next", task'[w].pc = "claude"
    PROVE  /\ task'[w].thread \in Pending
           /\ \A v \in Worker \ {w} : task[v].thread # task'[w].thread
<1>0. task \in [Worker -> Task] /\ task[w] \in Task /\ Good(task[w])
  BY DEF TInv, TypeOK
<1>1. ReadThread(w)
  <2>1. ASSUME NEW v \in Worker \ {w}, Onward(v) PROVE FALSE
    BY <2>1 DEF Onward
  <2>2. ASSUME NEW v \in Worker, Close(v) PROVE FALSE
    BY <1>0, <2>2 DEF Close, Idle
  <2>3. ASSUME NEW v \in Worker, NEW t, task[v].pc = "idle", task' = [task EXCEPT ![v] = t]
        PROVE  FALSE
    BY <1>0, <2>3
  <2>4. CASE \E m \in Message : Send(m)
    BY <2>4 DEF Send
  <2>5. CASE \E v \in CronWorker, job \in Job : Tick(v, job)
    BY <2>3, <2>5 DEF Tick, Worker
  <2>6. CASE \E v \in ManualWorker, job \in Job : Trigger(v, job)
    BY <2>3, <2>6 DEF Trigger, Worker
  <2>7. CASE Crash
    BY <2>7 DEF Crash, Idle
  <2>8. CASE UNCHANGED vars
    BY <2>8 DEF vars
  <2>9. CASE \E v \in Worker : Continue(v) \/ RunFails(v) \/ MessageFails(v) \/ ThreadFails(v)
    <3>1. Continue(w) \/ RunFails(w) \/ MessageFails(w) \/ ThreadFails(w)
      BY <2>1, <2>2, <2>9, SyncOnward, ExtractionOnward DEF Continue
    <3>2. ~ThreadsDone(w)
      BY <1>0 DEF ThreadsDone, Task
    <3> QED BY <2>2, <3>1, <3>2
            DEF Continue, FetchPage, NoMorePages, FindMessage, CreateMessage, UpdateMessage,
                List, Extract, MarkThread, RunFails, MessageFails, ThreadFails
  <2> QED BY <2>4, <2>5, <2>6, <2>7, <2>8, <2>9 DEF Next
<1>2. PICK th \in task[w].threads :
          task' = [task EXCEPT ![w].pc = IF In(th) = {} THEN "mark" ELSE "claude",
                               ![w].threads = @ \ {th}, ![w].thread = th]
  BY <1>1 DEF ReadThread
<1>3. task'[w] = [task[w] EXCEPT !.pc = IF In(th) = {} THEN "mark" ELSE "claude",
                                 !.threads = @ \ {th}, !.thread = th]
  BY <1>0, <1>2
<1>4. task'[w].thread = th
  BY <1>0, <1>3 DEF Task
<1>5. th \in Pending /\ th \in Thread
  BY <1>0, <1>2 DEF CInv, Calling, InBatch, Task
<1>6. ASSUME NEW v \in Worker \ {w}, task[v].thread = th PROVE FALSE
  <2>1. task[v].pc # "idle" /\ task[v].job = "claude-extraction"
    BY <1>5, <1>6, NoneAssumption DEF TInv, Good
  <2>2. task[w].job = "claude-extraction"
    BY <1>0 DEF Good, Extracting
  <2> QED BY <2>1, <2>2, OneExtracts
<1> QED BY <1>4, <1>5, <1>6

LEMMA CallsInit == Init => CInv
  BY DEF Init, CInv, Calling, InBatch, Idle

\* While runs are only started by ticks, Claude is called on threads that have
\* an unprocessed message, and no other run is at work on the thread.
\* (claude-extraction.service.ts run, sync.scheduler.ts runGuarded)
THEOREM CallsNotWasted == TicksOnly /\ Spec => ClaudeOnlyWhenPending
<1>1. TInv /\ CInv /\ [Next]_vars =>
        [\A w \in Worker : task[w].pc = "next" /\ task'[w].pc = "claude" =>
            /\ task'[w].thread \in Pending
            /\ \A v \in Worker \ {w} : task[v].thread # task'[w].thread]_vars
  BY CallStep
<1> SUFFICES ASSUME TicksOnly PROVE Spec => ClaudeOnlyWhenPending
  OBVIOUS
<1>2. TInv /\ CInv /\ [Next]_vars => CInv'
  BY NextCalls
<1> QED BY <1>1, <1>2, CallsInit, AlwaysTyped, PTL DEF Spec, ClaudeOnlyWhenPending

-----------------------------------------------------------------------------
(* Every run ends.                                                         *)

\* The calls a run makes after this one for the message or thread at hand, and to close.
Rank(pc) ==
    CASE pc = "close" -> 1
      [] pc \in {"page", "next"} -> 2
      [] pc \in {"write", "error"} -> 3
      [] pc = "mark" -> 4
      [] pc = "claude" -> 5
      [] pc = "list" -> 4 * Cardinality(Thread) + 3

\* The calls a run may still make, at most: a message not yet fetched costs it three, one of
\* the page at hand two, a thread four.
Left(t) ==
    IF t.pc = "idle" THEN 0
    ELSE 3 * Cardinality(t.left) + 2 * Cardinality(t.page) + 4 * Cardinality(t.threads)
           + Rank(t.pc)

\* A run begins with so many calls as there are messages and threads for, and comes nearer to
\* its end with whatever happens to it.
Shorten ==
    [][\A w \in Worker :
          /\ Left(task[w]) \in Nat
          /\ Left(task[w]) = 0 <=> task[w].pc = "idle"
          /\ task[w].pc = "idle" =>
                Left(task'[w]) <= 3 * Cardinality(Message) + 4 * Cardinality(Thread) + 3
          /\ task'[w] # task[w] /\ task[w].pc # "idle" => Left(task'[w]) < Left(task[w])]_vars

\* There are finitely many messages and threads.
FiniteMail == IsFiniteSet(Message) /\ IsFiniteSet(Thread)

\* The sets of a run are finite.
LEMMA SetsFinite ==
    ASSUME FiniteMail, NEW t \in Task
    PROVE  /\ IsFiniteSet(t.left) /\ IsFiniteSet(t.page) /\ IsFiniteSet(t.threads)
           /\ Cardinality(t.left) \in Nat /\ Cardinality(t.page) \in Nat
           /\ Cardinality(t.threads) \in Nat /\ Cardinality(Thread) \in Nat
<1>1. t.left \in SUBSET Message /\ t.threads \in SUBSET Thread
      /\ t.page \in SUBSET (Message \X Version)
  BY DEF Task
<1>2. IsFiniteSet(Version)
  BY FS_Interval, BoundAssumption DEF Version
<1>3. IsFiniteSet(Message \X Version)
  BY <1>2, FS_Product DEF FiniteMail
<1>4. IsFiniteSet(t.left) /\ IsFiniteSet(t.page) /\ IsFiniteSet(t.threads)
  BY <1>1, <1>3, FS_Subset DEF FiniteMail
<1> QED BY <1>4, FS_CardinalityType DEF FiniteMail

\* Left as a sum.
LEMMA LeftIs ==
    ASSUME FiniteMail, NEW t \in Task, NEW a, NEW b, NEW c,
           a = Cardinality(t.left), b = Cardinality(t.page), c = Cardinality(t.threads)
    PROVE  /\ a \in Nat /\ b \in Nat /\ c \in Nat /\ Cardinality(Thread) \in Nat
           /\ Rank(t.pc) \in Nat \ {0} \/ t.pc = "idle"
           /\ Left(t) = IF t.pc = "idle" THEN 0 ELSE 3 * a + 2 * b + 4 * c + Rank(t.pc)
<1>1. a \in Nat /\ b \in Nat /\ c \in Nat /\ Cardinality(Thread) \in Nat
  BY SetsFinite
<1>2. t.pc \in Step
  BY DEF Task
<1>3. Rank(t.pc) \in Nat \ {0} \/ t.pc = "idle"
  BY <1>1, <1>2 DEF Rank, Step
<1> QED BY <1>1, <1>3 DEF Left

\* What a run that has begun may be next.
SameSets(t, u) == u.left = t.left /\ u.page = t.page /\ u.threads = t.threads
Follows(t, u) ==
    \/ u = Idle
    \/ t.pc \in {"page", "next", "list", "error"} /\ u.pc = "close" /\ SameSets(t, u)
    \/ /\ t.pc = "page" /\ u.pc = "page" /\ u.threads = t.threads /\ t.page = {}
       /\ \E ms \in (SUBSET t.left) \ {{}} :
             u.left = t.left \ ms /\ u.page = {<<m, sent[m]>> : m \in ms}
    \/ /\ t.pc = "page" /\ u.pc = "write" /\ u.left = t.left /\ u.threads = t.threads
       /\ \E e \in t.page : u.page = t.page \ {e}
    \/ t.pc = "write" /\ u.pc = "page" /\ SameSets(t, u)
    \/ t.pc = "list" /\ u.pc = "next" /\ u.left = t.left /\ u.page = t.page
    \/ /\ t.pc = "next" /\ u.pc \in {"mark", "claude"} /\ u.left = t.left /\ u.page = t.page
       /\ \E th \in t.threads : u.threads = t.threads \ {th}
    \/ t.pc = "claude" /\ u.pc \in {"mark", "error"} /\ SameSets(t, u)
    \/ t.pc = "mark" /\ u.pc = "error" /\ SameSets(t, u)
    \/ t.pc \in {"mark", "error"} /\ u.pc = "next" /\ SameSets(t, u)

\* It has fewer calls left then.
LEMMA FollowsShortens ==
    ASSUME FiniteMail, NEW t \in Task, NEW u \in Task, t.pc # "idle", Follows(t, u)
    PROVE  Left(u) < Left(t)
<1>1. PICK a, b, c :
          a = Cardinality(t.left) /\ b = Cardinality(t.page) /\ c = Cardinality(t.threads)
  OBVIOUS
<1>2. PICK d, e, f :
          d = Cardinality(u.left) /\ e = Cardinality(u.page) /\ f = Cardinality(u.threads)
  OBVIOUS
<1>3. /\ a \in Nat /\ b \in Nat /\ c \in Nat
      /\ Rank(t.pc) \in Nat \ {0} /\ Left(t) = 3 * a + 2 * b + 4 * c + Rank(t.pc)
  BY <1>1, LeftIs
<1>4. /\ d \in Nat /\ e \in Nat /\ f \in Nat /\ (Rank(u.pc) \in Nat \ {0} \/ u.pc = "idle")
      /\ Left(u) = IF u.pc = "idle" THEN 0 ELSE 3 * d + 2 * e + 4 * f + Rank(u.pc)
  BY <1>2, LeftIs
<1>5. PICK n \in Nat : n = Cardinality(Thread)
  BY SetsFinite
<1>6. CASE u = Idle
  BY <1>3, <1>4, <1>6 DEF Idle
<1>7. CASE SameSets(t, u) /\ u.pc # "idle"
  <2>1. d = a /\ e = b /\ f = c
    BY <1>1, <1>2, <1>7 DEF SameSets
  <2>2. CASE Rank(u.pc) < Rank(t.pc)
    BY <1>3, <1>4, <1>7, <2>1, <2>2
  <2>3. CASE ~(Rank(u.pc) < Rank(t.pc))
    <3>1. ~\E x \in t.page : u.page = t.page \ {x}
      BY <1>7 DEF SameSets
    <3>2. ~\E th \in t.threads : u.threads = t.threads \ {th}
      BY <1>7 DEF SameSets
    <3>3. ~\E ms \in (SUBSET t.left) \ {{}} :
              u.left = t.left \ ms /\ u.page = {<<m, sent[m]>> : m \in ms}
      BY <1>7 DEF SameSets
    <3>4. \/ t.pc \in {"page", "next", "list", "error"} /\ u.pc = "close"
          \/ t.pc = "write" /\ u.pc = "page"
          \/ t.pc = "claude" /\ u.pc \in {"mark", "error"}
          \/ t.pc = "mark" /\ u.pc = "error"
          \/ t.pc \in {"mark", "error"} /\ u.pc = "next"
          \/ t.pc = "list" /\ u.pc = "next"
      <4>1. u # Idle
        BY <1>7 DEF Idle
      <4> QED BY <3>1, <3>2, <3>3, <4>1, Zenon DEF Follows
    <3>5. Rank(u.pc) < Rank(t.pc)
      BY <1>5, <3>4 DEF Rank
    <3> QED BY <2>3, <3>5
  <2> QED BY <2>2, <2>3
<1>8. CASE /\ t.pc = "page" /\ u.pc = "page" /\ u.threads = t.threads /\ t.page = {}
           /\ \E ms \in (SUBSET t.left) \ {{}} :
                 u.left = t.left \ ms /\ u.page = {<<m, sent[m]>> : m \in ms}
  <2>1. PICK ms \in (SUBSET t.left) \ {{}} :
            u.left = t.left \ ms /\ u.page = {<<m, sent[m]>> : m \in ms}
    BY <1>8
  <2>2. IsFiniteSet(t.left)
    BY SetsFinite
  <2>3. IsFiniteSet(ms) /\ Cardinality(ms) \in Nat \ {0}
    BY <2>1, <2>2, FS_Subset, FS_EmptySet, FS_CardinalityType
  <2>4. d = a - Cardinality(ms)
    <3>1. t.left \cap ms = ms
      BY <2>1
    <3> QED BY <1>1, <1>2, <2>1, <2>2, <3>1, FS_Difference
  <2>5. e <= Cardinality(ms)
    <3>1. PICK g : g = [m \in ms |-> <<m, sent[m]>>]
      OBVIOUS
    <3>2. g \in Surjection(ms, u.page)
      BY <2>1, <3>1 DEF Surjection
    <3>3. Cardinality(u.page) <= Cardinality(ms)
      BY <2>3, <3>2, FS_Surjection
    <3> QED BY <1>2, <3>3
  <2>6. b = 0 /\ c = f
    BY <1>1, <1>2, <1>8, FS_EmptySet
  <2>7. PICK k : k \in Nat \ {0} /\ d = a - k /\ e <= k
    BY <2>3, <2>4, <2>5
  <2>8. Rank(t.pc) = 2 /\ Rank(u.pc) = 2
    BY <1>8 DEF Rank
  <2>9. Left(t) = 3 * a + 2 + 4 * c /\ Left(u) = 3 * d + 2 * e + 4 * c + 2
    BY <1>3, <1>4, <1>8, <2>6, <2>8
  <2> QED BY <1>3, <1>4, <2>7, <2>9
<1>9. CASE /\ t.pc = "page" /\ u.pc = "write" /\ u.left = t.left /\ u.threads = t.threads
           /\ \E x \in t.page : u.page = t.page \ {x}
  <2>1. PICK x \in t.page : u.page = t.page \ {x}
    BY <1>9
  <2>2. e = b - 1
    <3>1. PICK S, R : S = t.page /\ R = u.page
      OBVIOUS
    <3>2. IsFiniteSet(S) /\ x \in S /\ R = S \ {x}
      BY <2>1, <3>1, SetsFinite
    <3>3. Cardinality(S \ {x}) = Cardinality(S) - 1
      BY <3>2, FS_RemoveElement
    <3>4. b = Cardinality(S) /\ e = Cardinality(R)
      BY <1>1, <1>2, <3>1
    <3> QED BY <3>2, <3>3, <3>4
  <2>3. d = a /\ f = c
    BY <1>1, <1>2, <1>9
  <2>4. Rank(t.pc) = 2 /\ Rank(u.pc) = 3
    BY <1>9 DEF Rank
  <2> QED BY <1>3, <1>4, <1>9, <2>2, <2>3, <2>4
<1>10. CASE t.pc = "list" /\ u.pc = "next" /\ u.left = t.left /\ u.page = t.page
  <2>1. f <= n
    BY <1>2, <1>5, FS_Subset DEF Task, FiniteMail
  <2>2. Rank(t.pc) = 4 * n + 3 /\ Rank(u.pc) = 2
    BY <1>5, <1>10 DEF Rank
  <2>3. d = a /\ e = b
    BY <1>1, <1>2, <1>10
  <2> QED BY <1>3, <1>4, <1>5, <1>10, <2>1, <2>2, <2>3
<1>11. CASE /\ t.pc = "next" /\ u.pc \in {"mark", "claude"} /\ u.left = t.left /\ u.page = t.page
            /\ \E th \in t.threads : u.threads = t.threads \ {th}
  <2>1. PICK th \in t.threads : u.threads = t.threads \ {th}
    BY <1>11
  <2>2. f = c - 1
    <3>1. PICK S, R : S = t.threads /\ R = u.threads
      OBVIOUS
    <3>2. IsFiniteSet(S) /\ th \in S /\ R = S \ {th}
      BY <2>1, <3>1, SetsFinite
    <3>3. Cardinality(S \ {th}) = Cardinality(S) - 1
      BY <3>2, FS_RemoveElement
    <3>4. c = Cardinality(S) /\ f = Cardinality(R)
      BY <1>1, <1>2, <3>1
    <3> QED BY <3>2, <3>3, <3>4
  <2>3. d = a /\ e = b
    BY <1>1, <1>2, <1>11
  <2>4. Rank(t.pc) = 2 /\ Rank(u.pc) \in {4, 5}
    BY <1>11 DEF Rank
  <2> QED BY <1>3, <1>4, <1>11, <2>2, <2>3, <2>4
<1> QED BY <1>6, <1>7, <1>8, <1>9, <1>10, <1>11 DEF Follows

\* A run's step leads it there.
LEMMA RunFollows ==
    ASSUME TInv, NEW w \in Worker, Continue(w) \/ RunFails(w) \/ MessageFails(w) \/ ThreadFails(w)
    PROVE  /\ task[w].pc # "idle"
           /\ \E u : Follows(task[w], u) /\ task' = [task EXCEPT ![w] = u]
<1>1. PICK t \in Task : t = task[w]
  BY DEF TInv, TypeOK
<1>2. task \in [Worker -> Task]
  BY DEF TInv, TypeOK
<1>3. CASE NoMorePages(w) \/ ThreadsDone(w) \/ RunFails(w)
  <2>1. t.pc \in {"page", "next", "list", "error"} /\ task' = [task EXCEPT ![w].pc = "close"]
    BY <1>1, <1>3 DEF NoMorePages, ThreadsDone, RunFails
  <2>2. PICK u : u = [t EXCEPT !.pc = "close"]
    OBVIOUS
  <2>3. u.pc = "close" /\ SameSets(t, u) /\ task' = [task EXCEPT ![w] = u]
    BY <1>1, <1>2, <2>1, <2>2 DEF Task, SameSets
  <2> QED BY <1>1, <2>1, <2>3 DEF Follows
<1>4. CASE Close(w)
  BY <1>4 DEF Close, Follows
<1>5. CASE FetchPage(w)
  <2>1. PICK ms \in (SUBSET t.left) \ {{}} :
            task' = [task EXCEPT ![w].left = @ \ ms, ![w].page = {<<m, sent[m]>> : m \in ms}]
    BY <1>1, <1>5 DEF FetchPage
  <2>2. PICK u : u = [t EXCEPT !.left = @ \ ms, !.page = {<<m, sent[m]>> : m \in ms}]
    OBVIOUS
  <2>3. task' = [task EXCEPT ![w] = u]
    BY <1>1, <1>2, <2>1, <2>2
  <2>4. /\ u.pc = t.pc /\ u.threads = t.threads
        /\ u.left = t.left \ ms /\ u.page = {<<m, sent[m]>> : m \in ms}
    BY <2>2 DEF Task
  <2>5. t.pc = "page" /\ t.page = {}
    BY <1>1, <1>5 DEF FetchPage
  <2> QED BY <1>1, <2>3, <2>4, <2>5 DEF Follows
<1>6. CASE FindMessage(w)
  <2>1. PICK e \in t.page :
            task' = [task EXCEPT ![w].pc = "write", ![w].page = @ \ {e},
                                 ![w].email = e, ![w].found = rows[e[1]]]
    BY <1>1, <1>6 DEF FindMessage
  <2>2. PICK u : u = [t EXCEPT !.pc = "write", !.page = @ \ {e}, !.email = e,
                               !.found = rows[e[1]]]
    OBVIOUS
  <2>3. task' = [task EXCEPT ![w] = u]
    BY <1>1, <1>2, <2>1, <2>2
  <2>4. u.pc = "write" /\ u.threads = t.threads /\ u.left = t.left /\ u.page = t.page \ {e}
    BY <2>2 DEF Task
  <2>5. t.pc = "page"
    BY <1>1, <1>6 DEF FindMessage
  <2> QED BY <1>1, <2>3, <2>4, <2>5 DEF Follows
<1>7. CASE CreateMessage(w) \/ UpdateMessage(w) \/ MessageFails(w)
  <2>1. /\ t.pc = "write"
        /\ task' = [task EXCEPT ![w].pc = "page", ![w].email = None, ![w].found = NoRow]
    BY <1>1, <1>7 DEF CreateMessage, UpdateMessage, MessageFails
  <2>2. PICK u : u = [t EXCEPT !.pc = "page", !.email = None, !.found = NoRow]
    OBVIOUS
  <2>3. task' = [task EXCEPT ![w] = u]
    BY <1>1, <1>2, <2>1, <2>2
  <2>4. u.pc = "page" /\ SameSets(t, u)
    BY <2>2 DEF Task, SameSets
  <2> QED BY <1>1, <2>1, <2>3, <2>4 DEF Follows
<1>8. CASE List(w)
  <2>1. t.pc = "list" /\ task' = [task EXCEPT ![w].pc = "next", ![w].threads = Batch]
    BY <1>1, <1>8 DEF List
  <2>2. PICK u : u = [t EXCEPT !.pc = "next", !.threads = Batch]
    OBVIOUS
  <2>3. task' = [task EXCEPT ![w] = u]
    BY <1>1, <1>2, <2>1, <2>2
  <2>4. u.pc = "next" /\ u.left = t.left /\ u.page = t.page
    BY <2>2 DEF Task
  <2> QED BY <1>1, <2>1, <2>3, <2>4 DEF Follows
<1>9. CASE ReadThread(w)
  <2>1. PICK th \in t.threads, step \in {"mark", "claude"} :
            task' = [task EXCEPT ![w].pc = step, ![w].threads = @ \ {th}, ![w].thread = th]
    BY <1>1, <1>9 DEF ReadThread
  <2>2. PICK u : u = [t EXCEPT !.pc = step, !.threads = @ \ {th}, !.thread = th]
    OBVIOUS
  <2>3. task' = [task EXCEPT ![w] = u]
    BY <1>1, <1>2, <2>1, <2>2
  <2>4. u.pc = step /\ u.left = t.left /\ u.page = t.page /\ u.threads = t.threads \ {th}
    BY <2>2 DEF Task
  <2>5. t.pc = "next"
    BY <1>1, <1>9 DEF ReadThread
  <2> QED BY <1>1, <2>1, <2>3, <2>4, <2>5 DEF Follows
<1>10. CASE Extract(w) \/ ThreadFails(w)
  <2>1. PICK step : /\ \/ t.pc = "claude" /\ step \in {"mark", "error"}
                       \/ t.pc = "mark" /\ step = "error"
                    /\ task' = [task EXCEPT ![w].pc = step]
    BY <1>1, <1>10 DEF Extract, ThreadFails
  <2>2. PICK u : u = [t EXCEPT !.pc = step]
    OBVIOUS
  <2>3. task' = [task EXCEPT ![w] = u]
    BY <1>1, <1>2, <2>1, <2>2
  <2>4. u.pc = step /\ SameSets(t, u)
    BY <2>2 DEF Task, SameSets
  <2> QED BY <1>1, <2>1, <2>3, <2>4 DEF Follows
<1>11. CASE MarkThread(w)
  <2>1. t.pc \in {"mark", "error"} /\ task' = [task EXCEPT ![w].pc = "next", ![w].thread = None]
    BY <1>1, <1>11 DEF MarkThread
  <2>2. PICK u : u = [t EXCEPT !.pc = "next", !.thread = None]
    OBVIOUS
  <2>3. task' = [task EXCEPT ![w] = u]
    BY <1>1, <1>2, <2>1, <2>2
  <2>4. u.pc = "next" /\ SameSets(t, u)
    BY <2>2 DEF Task, SameSets
  <2> QED BY <1>1, <2>1, <2>3, <2>4 DEF Follows
<1> QED BY <1>3, <1>4, <1>5, <1>6, <1>7, <1>8, <1>9, <1>10, <1>11 DEF Continue

\* A run begins with the messages there are, or with a batch to come.
LEMMA BeginLeft ==
    ASSUME FiniteMail, TInv, NEW job \in Job, NEW cron \in BOOLEAN
    PROVE  Left(Begin(job, cron)) <= 3 * Cardinality(Message) + 4 * Cardinality(Thread) + 3
<1>1. PICK u \in Task : u = Begin(job, cron)
  BY BeginGood
<1>2. /\ u.page = {} /\ u.threads = {} /\ u.left \in SUBSET Message
      /\ u.pc = "page" \/ (u.pc = "list" /\ u.left = {})
  BY <1>1 DEF Begin, Idle
<1>3. PICK a, b, c :
          a = Cardinality(u.left) /\ b = Cardinality(u.page) /\ c = Cardinality(u.threads)
  OBVIOUS
<1>4. PICK m, n : m = Cardinality(Message) /\ n = Cardinality(Thread) /\ m \in Nat /\ n \in Nat
  BY FS_CardinalityType DEF FiniteMail
<1>5. b = 0 /\ c = 0 /\ a \in Nat /\ a <= m /\ (u.left = {} => a = 0)
  BY <1>2, <1>3, <1>4, FS_EmptySet, FS_Subset, SetsFinite DEF FiniteMail
<1>6. Left(u) = 3 * a + Rank(u.pc)
  BY <1>2, <1>3, <1>5, LeftIs DEF Left
<1>7. IF u.pc = "page" THEN Rank(u.pc) = 2 ELSE Rank(u.pc) = 4 * n + 3
  BY <1>2, <1>4 DEF Rank
<1> QED BY <1>1, <1>2, <1>4, <1>5, <1>6, <1>7

\* Every run of either job ends: it starts with at most as many calls as there are messages and
\* threads for, and each change of it leaves fewer, whatever else runs, fails or is sent
\* meanwhile.  A message that keeps failing is dead-lettered and passed over.
\* (email-sync.service.ts run, claude-extraction.service.ts run; sync-run.service.ts)
THEOREM RunsEnd == ASSUME FiniteMail PROVE Spec => Shorten
<1>1. ASSUME TInv, TInv', NEW w \in Worker, Next
      PROVE  /\ task[w].pc = "idle" =>
                  Left(task'[w]) <= 3 * Cardinality(Message) + 4 * Cardinality(Thread) + 3
             /\ task'[w] # task[w] /\ task[w].pc # "idle" => Left(task'[w]) < Left(task[w])
  <2>1. task \in [Worker -> Task] /\ task' \in [Worker -> Task]
    BY <1>1 DEF TInv, TypeOK
  <2>2. PICK m, n : m = Cardinality(Message) /\ n = Cardinality(Thread) /\ m \in Nat /\ n \in Nat
    BY FS_CardinalityType DEF FiniteMail
  <2>3. CASE task'[w] = task[w]
    <3>1. task[w].pc = "idle" => Left(task'[w]) = 0
      BY <2>3 DEF Left
    <3> QED BY <2>2, <2>3, <3>1
  <2>4. ASSUME NEW v \in Worker, NEW job \in Job, NEW cron \in BOOLEAN, task[v].pc = "idle",
               task' = [task EXCEPT ![v] = Begin(job, cron)], task'[w] # task[w]
        PROVE  /\ task[w].pc = "idle"
               /\ Left(task'[w]) <= 3 * Cardinality(Message) + 4 * Cardinality(Thread) + 3
    <3>1. w = v /\ task'[w] = Begin(job, cron)
      BY <2>1, <2>4
    <3> QED BY <1>1, <2>4, <3>1, BeginLeft
  <2>5. ASSUME NEW v \in Worker, task'[w] # task[w],
               Continue(v) \/ RunFails(v) \/ MessageFails(v) \/ ThreadFails(v)
        PROVE  task[w].pc # "idle" /\ Left(task'[w]) < Left(task[w])
    <3>1. PICK u : Follows(task[v], u) /\ task' = [task EXCEPT ![v] = u]
      BY <1>1, <2>5, RunFollows
    <3>2. w = v
      BY <2>1, <2>5, <3>1
    <3>3. PICK t \in Task : t = task[v]
      BY <2>1
    <3>4. u = task'[w] /\ u \in Task /\ t.pc # "idle"
      BY <1>1, <2>1, <2>5, <3>1, <3>2, <3>3, RunFollows
    <3>5. Left(u) < Left(t)
      BY <3>1, <3>3, <3>4, FollowsShortens
    <3> QED BY <3>2, <3>3, <3>4, <3>5
  <2>6. ASSUME Crash, task'[w] # task[w]
        PROVE  task[w].pc # "idle" => Left(task'[w]) < Left(task[w])
    <3>1. PICK t \in Task : t = task[w]
      BY <2>1
    <3>2. task'[w] = Idle /\ Follows(t, Idle)
      BY <2>6 DEF Crash, Follows
    <3> QED BY <3>1, <3>2, IdleGood, FollowsShortens
  <2>7. Crash => Left(task'[w]) = 0
    BY DEF Crash, Left, Idle
  <2>8. ASSUME task'[w] # task[w], ~Crash
        PROVE  \/ \E v \in Worker, job \in Job, cron \in BOOLEAN :
                     task[v].pc = "idle" /\ task' = [task EXCEPT ![v] = Begin(job, cron)]
               \/ \E v \in Worker :
                     Continue(v) \/ RunFails(v) \/ MessageFails(v) \/ ThreadFails(v)
    BY <1>1, <2>8 DEF Next, Send, Tick, Trigger, Worker
  <2> QED BY <2>2, <2>3, <2>4, <2>5, <2>6, <2>7, <2>8
<1>2. ASSUME TInv, NEW w \in Worker
      PROVE  Left(task[w]) \in Nat /\ (Left(task[w]) = 0 <=> task[w].pc = "idle")
  <2>1. PICK t \in Task : t = task[w]
    BY <1>2 DEF TInv, TypeOK
  <2>2. PICK a, b, c :
            a = Cardinality(t.left) /\ b = Cardinality(t.page) /\ c = Cardinality(t.threads)
    OBVIOUS
  <2> QED BY <2>1, <2>2, LeftIs
<1>3. TInv /\ TInv' /\ [Next]_vars =>
        [\A w \in Worker :
          /\ Left(task[w]) \in Nat
          /\ Left(task[w]) = 0 <=> task[w].pc = "idle"
          /\ task[w].pc = "idle" =>
                Left(task'[w]) <= 3 * Cardinality(Message) + 4 * Cardinality(Thread) + 3
          /\ task'[w] # task[w] /\ task[w].pc # "idle" => Left(task'[w]) < Left(task[w])]_vars
  BY <1>1, <1>2
<1> QED BY <1>3, AlwaysTyped, PTL DEF Spec, Shorten
=============================================================================
