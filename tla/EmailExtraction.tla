--------------------------- MODULE EmailExtraction ---------------------------
(***************************************************************************)
(* The email pipeline: the job that copies messages from the mail provider *)
(* into email_history, the job that sends the threads with unprocessed     *)
(* messages to Claude, the cron guard and the manual triggers that start   *)
(* them, failing calls and restarts of the process.                        *)
(*                                                                         *)
(* The two jobs share nothing but the email_history table.  One action is  *)
(* one awaited call, a database statement or a request to a service, with  *)
(* the code that runs up to the next await.  A message's content is its    *)
(* version; the creator a message is linked to is not modelled.            *)
(***************************************************************************)
EXTENDS Naturals, Sequences, FiniteSets

CONSTANTS
    Message,      \* provider message ids, all within the pages a run reads
    Thread,
    ThreadOf,     \* ThreadOf[m]: the thread of message m
    BatchSize,    \* threads one extraction run takes
    CronWorker,   \* runs in flight at once, started by a tick
    ManualWorker, \* and by POST /sync/...
    MaxVersion,   \* bound: versions a message goes through
    MaxFaults,    \* bound: calls that fail and restarts of the process
    None

ASSUME ThreadAssumption == ThreadOf \in [Message -> Thread]
ASSUME BoundAssumption ==
    /\ BatchSize \in Nat \ {0}
    /\ MaxVersion \in Nat /\ MaxFaults \in Nat

Job == {"email-sync", "claude-extraction"}
Origin == {"cron", "manual"}
Worker == CronWorker \cup ManualWorker
Version == 0 .. MaxVersion     \* 0: the message, or its row, does not exist yet

ASSUME NoneAssumption == None \notin Thread /\ None \notin Job \X Origin

VARIABLES
    sent,      \* the provider: the version of each message
    rows,      \* email_history, by messageId; pending is processedAt = null
    arrived,   \* the message ids in the order their rows were created
    dead,      \* failed_jobs: the messages and threads that were dead-lettered
    running,   \* SyncScheduler.running: the guarded jobs in flight
    task,      \* the local variables of each run in flight
    faults

vars == <<sent, rows, arrived, dead, running, task, faults>>
store == <<rows, arrived, dead>>
world == <<sent, faults>>

NoRow == [version |-> 0, pending |-> FALSE]

Idle == [pc |-> "idle", job |-> None, cron |-> FALSE, left |-> {}, page |-> {},
         email |-> None, found |-> NoRow, threads |-> {}, thread |-> None]

Step == {"idle", "page", "write", "list", "next", "claude", "mark", "error", "close"}

Task == [pc : Step, job : Job \cup {None}, cron : BOOLEAN,
         left : SUBSET Message, page : SUBSET (Message \X Version),
         email : (Message \X Version) \cup {None},
         found : [version : Version, pending : BOOLEAN],
         threads : SUBSET Thread, thread : Thread \cup {None}]

\* Types, and what ties a run to its worker: a tick's worker holds the guard.
TypeOK ==
    /\ sent \in [Message -> Version]
    /\ rows \in [Message -> [version : Version, pending : BOOLEAN]]
    /\ arrived \in Seq(Message)
    /\ dead \subseteq Message \cup Thread
    /\ running \subseteq Job
    /\ task \in [Worker -> Task]
    /\ faults \in 0 .. MaxFaults
    /\ running = {task[w].job : w \in {v \in Worker : task[v].cron}}

Init ==
    /\ sent = [m \in Message |-> 0]
    /\ rows = [m \in Message |-> NoRow]
    /\ arrived = <<>>
    /\ dead = {}
    /\ running = {}
    /\ task = [w \in Worker |-> Idle]
    /\ faults = 0

Fault == faults < MaxFaults /\ faults' = faults + 1

-----------------------------------------------------------------------------
(* The provider, the scheduler and the process.                            *)

\* A new message, or an edit of one.
Send(m) ==
    /\ sent[m] < MaxVersion
    /\ sent' = [sent EXCEPT ![m] = @ + 1]
    /\ UNCHANGED <<store, running, task, faults>>

Begin(job, cron) ==
    IF job = "email-sync"
    THEN [Idle EXCEPT !.pc = "page", !.job = job, !.cron = cron,
                      !.left = {m \in Message : sent[m] > 0}]
    ELSE [Idle EXCEPT !.pc = "list", !.job = job, !.cron = cron]

\* The worker a tick or a request is given: which one makes no difference.
Free(ws) == CHOOSE w \in ws : task[w].pc = "idle"

\* Mutant of Tick: the guard is not consulted.
TickUnguarded(w, job) ==
    /\ task[w].pc = "idle" /\ w = Free(CronWorker)
    /\ running' = running \cup {job}
    /\ task' = [task EXCEPT ![w] = Begin(job, TRUE)]
    /\ UNCHANGED <<store, world>>

\* runGuarded: a tick is skipped while the previous run is in flight.
Tick(w, job) ==
    /\ task[w].pc = "idle" /\ w = Free(CronWorker)
    /\ job \notin running
    /\ running' = running \cup {job}
    /\ task' = [task EXCEPT ![w] = Begin(job, TRUE)]
    /\ UNCHANGED <<store, world>>

\* POST /sync/emails and POST /sync/claude call the job itself.
Trigger(w, job) ==
    /\ task[w].pc = "idle" /\ w = Free(ManualWorker)
    /\ task' = [task EXCEPT ![w] = Begin(job, FALSE)]
    /\ UNCHANGED <<store, running, world>>

\* Mutant of Close: the guard is kept.
CloseGuarded(w) ==
    /\ task[w].pc = "close"
    /\ task' = [task EXCEPT ![w] = Idle]
    /\ UNCHANGED <<store, running, world>>

\* Mutant of Close: any run's end releases the guard.
CloseReleasing(w) ==
    /\ task[w].pc = "close"
    /\ running' = running \ {task[w].job}
    /\ task' = [task EXCEPT ![w] = Idle]
    /\ UNCHANGED <<store, world>>

\* The run's record is closed, or that fails too; a tick then releases the guard.
Close(w) ==
    /\ task[w].pc = "close"
    /\ running' = IF task[w].cron THEN running \ {task[w].job} ELSE running
    /\ task' = [task EXCEPT ![w] = Idle]
    /\ UNCHANGED <<store, world>>

\* A call outside the per-item handler fails: the run is closed as FAILED.
RunFails(w) ==
    /\ \/ task[w].pc \in {"list", "error"}
       \/ task[w].pc = "page" /\ task[w].page = {}
    /\ Fault
    /\ task' = [task EXCEPT ![w].pc = "close"]
    /\ UNCHANGED <<store, running, sent>>

\* The process restarts: guard and runs are lost, the tables stay.
Crash ==
    /\ Fault
    /\ running' = {}
    /\ task' = [w \in Worker |-> Idle]
    /\ UNCHANGED <<store, sent>>

-----------------------------------------------------------------------------
(* EmailSyncService.run over iterateEmails.                                *)

\* listEmails returns some of the messages not yet returned, as they are now.
FetchPage(w) ==
    /\ task[w].pc = "page"
    /\ task[w].page = {}
    /\ \E ms \in (SUBSET task[w].left) \ {{}} :
          task' = [task EXCEPT ![w].left = @ \ ms,
                               ![w].page = {<<m, sent[m]>> : m \in ms}]
    /\ UNCHANGED <<store, running, world>>

NoMorePages(w) ==
    /\ task[w].pc = "page"
    /\ task[w].page = {} /\ task[w].left = {}
    /\ task' = [task EXCEPT ![w].pc = "close"]
    /\ UNCHANGED <<store, running, world>>

\* upsertMessage looks the message up by its id.
FindMessage(w) ==
    /\ task[w].pc = "page"
    /\ \E e \in task[w].page :
          task' = [task EXCEPT ![w].pc = "write", ![w].page = @ \ {e},
                               ![w].email = e, ![w].found = rows[e[1]]]
    /\ UNCHANGED <<store, running, world>>

\* The message is stored, or refused when another run created its row since.
CreateMessage(w) ==
    LET m == task[w].email[1]
        v == task[w].email[2]
    IN /\ task[w].pc = "write"
       /\ task[w].found.version = 0
       /\ IF rows[m].version = 0
          THEN /\ rows' = [rows EXCEPT ![m] = [version |-> v, pending |-> TRUE]]
               /\ arrived' = Append(arrived, m)
               /\ UNCHANGED dead
          ELSE dead' = dead \cup {m} /\ UNCHANGED <<rows, arrived>>
       /\ task' = [task EXCEPT ![w].pc = "page", ![w].email = None, ![w].found = NoRow]
       /\ UNCHANGED <<running, world>>

\* Mutant of UpdateMessage: messages already stored are skipped.
SkipMessage(w) ==
    /\ task[w].pc = "write"
    /\ task[w].found.version > 0
    /\ task' = [task EXCEPT ![w].pc = "page", ![w].email = None, ![w].found = NoRow]
    /\ UNCHANGED <<store, running, world>>

\* Content that differs from the row as it was found is written and pending.
UpdateMessage(w) ==
    LET m == task[w].email[1]
        v == task[w].email[2]
    IN /\ task[w].pc = "write"
       /\ task[w].found.version > 0
       /\ rows' = IF task[w].found.version = v THEN rows
                  ELSE [rows EXCEPT ![m] = [version |-> v, pending |-> TRUE]]
       /\ task' = [task EXCEPT ![w].pc = "page", ![w].email = None, ![w].found = NoRow]
       /\ UNCHANGED <<arrived, dead, running, world>>

\* One message fails: it is dead-lettered and the run goes on.
MessageFails(w) ==
    /\ task[w].pc = "write"
    /\ Fault
    /\ dead' = dead \cup {task[w].email[1]}
    /\ task' = [task EXCEPT ![w].pc = "page", ![w].email = None, ![w].found = NoRow]
    /\ UNCHANGED <<rows, arrived, running, sent>>

-----------------------------------------------------------------------------
(* ClaudeExtractionService.run.                                            *)

In(t) == {m \in Message : ThreadOf[m] = t /\ rows[m].version > 0}
Pending == {ThreadOf[m] : m \in {n \in Message : rows[n].pending}}

\* When the oldest pending message of thread t arrived.
Oldest(t) == CHOOSE i \in DOMAIN arrived :
    /\ arrived[i] \in In(t) /\ rows[arrived[i]].pending
    /\ \A j \in 1 .. i - 1 : ~(arrived[j] \in In(t) /\ rows[arrived[j]].pending)

\* Mutant of Batch: threads with a dead letter are left to an administrator.
BatchAlive ==
    {t \in Pending \ dead : Cardinality({u \in Pending : Oldest(u) < Oldest(t)}) < BatchSize}

\* findThreadIdsNeedingExtraction: those whose pending messages are oldest.
Batch ==
    {t \in Pending : Cardinality({u \in Pending : Oldest(u) < Oldest(t)}) < BatchSize}

List(w) ==
    /\ task[w].pc = "list"
    /\ task' = [task EXCEPT ![w].pc = "next", ![w].threads = Batch]
    /\ UNCHANGED <<store, running, world>>

ThreadsDone(w) ==
    /\ task[w].pc = "next"
    /\ task[w].threads = {}
    /\ task' = [task EXCEPT ![w].pc = "close"]
    /\ UNCHANGED <<store, running, world>>

\* The messages of the next thread are read into the prompt.
ReadThread(w) ==
    /\ task[w].pc = "next"
    /\ \E t \in task[w].threads :
          task' = [task EXCEPT ![w].pc = IF In(t) = {} THEN "mark" ELSE "claude",
                               ![w].threads = @ \ {t}, ![w].thread = t]
    /\ UNCHANGED <<store, running, world>>

\* extractFromThread, upsertFromSource and linkThreadToCreator succeed: none of
\* them reads or writes what is modelled here.
Extract(w) ==
    /\ task[w].pc = "claude"
    /\ task' = [task EXCEPT ![w].pc = "mark"]
    /\ UNCHANGED <<store, running, world>>

\* markThreadProcessed: every message of the thread that is stored by now, with
\* the extraction or with the error.
MarkThread(w) ==
    /\ task[w].pc \in {"mark", "error"}
    /\ rows' = [m \in Message |->
                   IF m \in In(task[w].thread) THEN [rows[m] EXCEPT !.pending = FALSE]
                                               ELSE rows[m]]
    /\ task' = [task EXCEPT ![w].pc = "next", ![w].thread = None]
    /\ UNCHANGED <<arrived, dead, running, world>>

\* Claude, the upsert, the link or the mark fails: dead-letter the thread.
ThreadFails(w) ==
    /\ task[w].pc \in {"claude", "mark"}
    /\ Fault
    /\ dead' = dead \cup {task[w].thread}
    /\ task' = [task EXCEPT ![w].pc = "error"]
    /\ UNCHANGED <<rows, arrived, running, sent>>

-----------------------------------------------------------------------------

\* What a run does next when its calls succeed.
Continue(w) ==
    \/ FetchPage(w) \/ NoMorePages(w) \/ FindMessage(w)
    \/ CreateMessage(w) \/ UpdateMessage(w)
    \/ List(w) \/ ThreadsDone(w) \/ ReadThread(w) \/ Extract(w)
    \/ MarkThread(w) \/ Close(w)

Next ==
    \/ \E m \in Message : Send(m)
    \/ \E w \in CronWorker, job \in Job : Tick(w, job)
    \/ \E w \in ManualWorker, job \in Job : Trigger(w, job)
    \/ \E w \in Worker : Continue(w) \/ RunFails(w) \/ MessageFails(w) \/ ThreadFails(w)
    \/ Crash

\* The event loop resumes every run whose call has answered, and the cron timers
\* keep firing.
Fairness ==
    /\ \A w \in Worker : WF_vars(Continue(w))
    /\ \A job \in Job : WF_vars(\E w \in CronWorker : Tick(w, job))

Spec == Init /\ [][Next]_vars /\ Fairness

-----------------------------------------------------------------------------
(* Properties.                                                             *)

\* Job 3 spends a Claude call only on a thread with an unprocessed message, and
\* the run that makes the call is the only one at work on that thread.
ClaudeOnlyWhenPending ==
    [][\A w \in Worker : task[w].pc = "next" /\ task'[w].pc = "claude" =>
          /\ task'[w].thread \in Pending
          /\ \A v \in Worker \ {w} : task[v].thread # task'[w].thread]_vars

\* The pipeline catches up: every pending message is processed in the end, with
\* its extraction or with an error, no thread being starved by older ones or lost
\* in a crash; and whatever pages, retries and overlapping runs write, the table
\* ends up with the newest version of every message.
Converges ==
    \A m \in Message :
        /\ rows[m].pending ~> ~rows[m].pending
        /\ <>[](rows[m].version = sent[m])

\* The job and the origin of each run in flight.
active == [w \in Worker |->
              IF task[w].pc = "idle" THEN None
              ELSE <<task[w].job, IF task[w].cron THEN "cron" ELSE "manual">>]

\* Runs start and end as JobRunner says.
Runner == INSTANCE JobRunner
RunsGuarded == Runner!Spec
=============================================================================
