---------------------------- MODULE InstagramDm ----------------------------
(***************************************************************************)
(* Instagram DMs filed onto the scouts' sheets: the webhook, the inbox     *)
(* poller and an admin's manual sync deliver messages; setting a handle or *)
(* assigning a sender links an Instagram id to a scout and files what was  *)
(* waiting; Meta may ask to forget a sender.                               *)
(*                                                                         *)
(* One action is one awaited call, a database statement or a request to    *)
(* Meta, with the code that runs up to the next await.  A message carries  *)
(* at most one profile and one reel; a sheet cell holds the message its    *)
(* link came from.  Rows of a sheet are only written here: the scouts' own *)
(* edits are not modelled.                                                 *)
(***************************************************************************)
EXTENDS Naturals, Sequences, FiniteSets

CONSTANTS
    Scout, Handle,
    Sender,       \* Instagram-scoped ids
    UsernameOf,   \* UsernameOf[i]: what Meta answers for sender i
    Message,
    SenderOf,     \* SenderOf[m]: who sent m
    Shares,       \* Shares[m]: the kinds of link m carries
    Dropped,      \* messages stored as NO_LINKS before shares were read by type
    Forgettable,  \* senders who may ask to be erased
    Poller,       \* runs of the inbox poller
    Handler,      \* requests in flight at once, and the re-file after boot
    MaxRequests,  \* bound: admin and scout requests, and erasures
    MaxAged,      \* bound: rows of the sheet that ever leave the pairing window
    MaxFaults,    \* bound: calls that fail and restarts of the process
    None

Kind == {"profile", "reel"}
Worker == Poller \cup Handler

ASSUME MessageAssumption ==
    /\ UsernameOf \in [Sender -> Handle]
    /\ SenderOf \in [Message -> Sender]
    /\ Shares \in [Message -> SUBSET Kind]
    /\ Dropped \subseteq {m \in Message : Shares[m] # {}} /\ IsFiniteSet(Dropped)
    /\ Poller \cap Handler = {}
ASSUME BoundAssumption ==
    /\ MaxRequests \in Nat /\ MaxAged \in Nat /\ MaxFaults \in Nat
ASSUME NoneAssumption == None \notin Scout \cup Handle \cup Sender \cup Message

VARIABLES
    sent,      \* Meta: the messages in the account's inbox
    users,     \* each scout's instagramHandle and instagramUserId; own is history:
               \* the scout set the handle, an admin did not, nor an assignment
    ledger,    \* instagram_messages; ids grow with receivedAt and are not reused
    serial,    \* the last id given
    sheet,     \* scout_entries, by createdAt; fresh is inside the pairing window
    running,   \* InstagramInboxScheduler.running
    boot,      \* the one-off re-file after boot is still due
    task,      \* the local variables of each request or run
    entitled,  \* history: <<scout, sender, "handle" or "assigned">>, why a scout
               \* may get a sender's shares
    requests, faults

vars == <<sent, users, ledger, serial, sheet, running, boot, task, entitled,
          requests, faults>>
tables == <<users, ledger, serial, sheet>>
world == <<sent, boot, entitled, requests, faults>>

Status == {"APPLIED", "UNMATCHED_SENDER", "NO_LINKS", "FAILED"}
LedgerRow == [id : Nat, message : Message, status : Status,
              username : Handle \cup {None}, scout : Scout \cup {None}, entry : Nat]
Entry == [scout : Scout, profile : Message \cup {None}, reel : Message \cup {None},
          fresh : BOOLEAN]
\* A message to ingest, with the id of the ledger row to clear first, or 0.
Item == [id : Nat, message : Message]

\* The local variables of ingest.
NoItem == [id |-> 0, message |-> None, scout |-> None, username |-> None,
           kinds |-> {}, row |-> 0, attempt |-> 0]

Idle == [pc |-> "idle", mode |-> None, todo |-> {}, cur |-> NoItem,
         owner |-> None, handle |-> None, had |-> None, sender |-> None,
         senders |-> {}]

Step == {"idle", "handle", "claim", "waiting", "release", "link", "pending",
         "fetch", "drop", "seen", "cached", "lookup", "cache", "half", "fill",
         "number", "create", "unmatched", "nolinks", "applied", "failed"}
Mode == {"hook", "poll", "refile", "sync", "inbox", "own", "admin", "assign"}

Cur == [id : Nat, message : Message \cup {None}, scout : Scout \cup {None},
        username : Handle \cup {None}, kinds : SUBSET Kind, row : Nat, attempt : 0 .. 3]
Task == [pc : Step, mode : Mode \cup {None}, todo : SUBSET Item, cur : Cur,
         owner : Scout \cup {None}, handle : Handle \cup {None},
         had : Handle \cup {None}, sender : Sender \cup {None},
         senders : SUBSET Sender]

\* Types, unique keys, and what ties the poll guard to the poll.
TypeOK ==
    /\ sent \subseteq Message
    /\ users \in [Scout -> [handle : Handle \cup {None}, igId : Sender \cup {None},
                            own : BOOLEAN]]
    /\ \A s, z \in Scout : s # z =>
          /\ users[s].handle = users[z].handle => users[s].handle = None
          /\ users[s].igId = users[z].igId => users[s].igId = None
    /\ ledger \subseteq LedgerRow
    /\ \A q, r \in ledger : q.message = r.message \/ q.id = r.id => q = r
    /\ serial \in Nat /\ \A r \in ledger : r.id <= serial
    /\ sheet \in Seq(Entry)
    /\ boot \in BOOLEAN
    /\ task \in [Worker -> Task]
    /\ \A w \in Worker : task[w].pc = "fill" => task[w].cur.row \in DOMAIN sheet
    /\ running = (\E w \in Poller : task[w].pc # "idle")
    /\ entitled \subseteq Scout \X Sender \X {"handle", "assigned"}
    /\ requests \in 0 .. MaxRequests /\ faults \in 0 .. MaxFaults

DroppedRow(m, n) ==
    [id |-> n, message |-> m, status |-> "NO_LINKS", username |-> None,
     scout |-> None, entry |-> 0]

\* A store to which an earlier version may have written NO_LINKS rows.
Init ==
    /\ sent = Dropped
    /\ users = [s \in Scout |-> [handle |-> None, igId |-> None, own |-> FALSE]]
    /\ serial = Cardinality(Dropped)
    /\ \E order \in [Dropped -> 1 .. Cardinality(Dropped)] :
          /\ \A m, n \in Dropped : order[m] = order[n] => m = n
          /\ ledger = {DroppedRow(m, order[m]) : m \in Dropped}
    /\ sheet = <<>>
    /\ running = FALSE
    /\ boot = TRUE
    /\ task = [w \in Worker |-> Idle]
    /\ entitled = {}
    /\ requests = 0 /\ faults = 0

-----------------------------------------------------------------------------
(* What the statements read.                                               *)

Known(m) == \E r \in ledger : r.message = m
Waiting == {r \in ledger : r.status = "UNMATCHED_SENDER"}
Holding(f, v) == {s \in Scout : users[s][f] = v}
Items(rows) == {[id |-> r.id, message |-> r.message] : r \in rows}
Inbox == {[id |-> 0, message |-> m] : m \in sent}
Oldest(todo) == {i \in todo : \A j \in todo : i.id <= j.id}

\* Mutant of Halves: also rows that already have this half.
HalvesFilled(s, kind) ==
    {n \in DOMAIN sheet :
        /\ sheet[n].scout = s /\ sheet[n].fresh
        /\ \E k \in Kind : sheet[n][k] # None}

\* Mutant of Halves: the cutoff compared the wrong way round.
HalvesStale(s, kind) ==
    {n \in DOMAIN sheet :
        /\ sheet[n].scout = s /\ ~sheet[n].fresh
        /\ sheet[n][kind] = None
        /\ \E k \in Kind : sheet[n][k] # None}

\* The rows of scout s that have the other half and lack this one.
Halves(s, kind) ==
    {n \in DOMAIN sheet :
        /\ sheet[n].scout = s /\ sheet[n].fresh
        /\ sheet[n][kind] = None
        /\ \E k \in Kind : sheet[n][k] # None}
LastRowNumber(s) == Cardinality({n \in DOMAIN sheet : sheet[n].scout = s})

-----------------------------------------------------------------------------
(* Control flow.                                                           *)

At(w, step) == task[w].pc = step

\* Mutant of Become: no finally clause.
BecomeHolding(w, t) ==
    /\ task' = [task EXCEPT ![w] = t]
    /\ UNCHANGED running

\* The poll's finally clause releases the guard.
Become(w, t) ==
    /\ task' = [task EXCEPT ![w] = t]
    /\ running' = (running /\ (w \in Poller => t # Idle))

Goto(w, step) == Become(w, [task[w] EXCEPT !.pc = step])

\* Where the loops go when a message is finished: the next message, oldest
\* first if they come from the ledger; the inbox; the next sender; the end.
After(t) ==
    IF t.todo # {}
    THEN {[t EXCEPT !.pc = IF i.id = 0 THEN "seen" ELSE "drop",
                    !.todo = @ \ {i},
                    !.cur = [NoItem EXCEPT !.id = i.id, !.message = i.message]]
            : i \in Oldest(t.todo)}
    ELSE IF t.mode = "sync" THEN {[t EXCEPT !.pc = "fetch", !.cur = NoItem]}
    ELSE IF t.senders # {} THEN {[t EXCEPT !.pc = "release", !.cur = NoItem]}
    ELSE {Idle}

Resume(w, t) == \E u \in After(t) : Become(w, u)

\* ingest throws: the webhook and the re-file go on, other callers give up.
Throw(w) ==
    IF task[w].mode \in {"hook", "refile", "sync"} THEN Resume(w, task[w]) ELSE Become(w, Idle)

Request == requests < MaxRequests /\ requests' = requests + 1
Fault == faults < MaxFaults /\ faults' = faults + 1

-----------------------------------------------------------------------------
(* What starts a run.                                                      *)

\* External: a scout sends a message to the company account.
Send(m) ==
    /\ m \notin sent
    /\ sent' = sent \cup {m}
    /\ UNCHANGED <<tables, running, boot, task, entitled, requests, faults>>

\* POST webhook: a batch of messages, perhaps delivered before.
Deliver(w) ==
    /\ At(w, "idle") /\ w \in Handler
    /\ \E batch \in SUBSET Inbox :
          batch # {} /\ Resume(w, [Idle EXCEPT !.mode = "hook", !.todo = batch])
    /\ UNCHANGED <<tables, world>>

\* The poller's tick; the read of the inbox is merged with it.
Tick(w) ==
    /\ At(w, "idle") /\ w \in Poller
    /\ ~running
    /\ sent # {}
    /\ \E u \in After([Idle EXCEPT !.mode = "poll", !.todo = Inbox]) :
          task' = [task EXCEPT ![w] = u]
    /\ running' = TRUE
    /\ UNCHANGED <<tables, world>>

\* Re-filing of NO_LINKS rows that now yield links, once after boot, or by an
\* admin's POST sync, which then reads the inbox.
Refile(w, mode) ==
    /\ At(w, "idle") /\ w \in Handler
    /\ LET rows == {r \in ledger : r.status = "NO_LINKS" /\ Shares[r.message] # {}}
       IN Resume(w, [Idle EXCEPT !.mode = mode, !.todo = Items(rows)])
    /\ UNCHANGED <<tables, sent, entitled, faults>>

RefileAtBoot(w) ==
    /\ boot /\ boot' = FALSE
    /\ Refile(w, "refile")
    /\ UNCHANGED requests

ManualSync(w) ==
    /\ Request
    /\ Refile(w, "sync")
    /\ UNCHANGED boot

FetchInbox(w) ==
    /\ At(w, "fetch")
    /\ Resume(w, [task[w] EXCEPT !.mode = "inbox", !.todo = Inbox])
    /\ UNCHANGED <<tables, world>>

\* A scout sets their own handle, or an admin edits it: the record is read.
StartSetHandle(w, mode) ==
    /\ At(w, "idle") /\ w \in Handler
    /\ Request
    /\ \E s \in Scout, h \in Handle \cup {None} :
          Become(w, [Idle EXCEPT !.mode = mode, !.pc = "handle", !.owner = s,
                                 !.handle = h, !.had = users[s].handle])
    /\ UNCHANGED <<tables, sent, boot, entitled, faults>>

\* An admin assigns the sender of a recorded message to a scout.
Assign(w) ==
    /\ At(w, "idle") /\ w \in Handler
    /\ Request
    /\ \E r \in ledger, s \in Scout :
          LET i == SenderOf[r.message] IN
          /\ Become(w, [Idle EXCEPT !.mode = "assign", !.pc = "release", !.owner = s,
                                    !.handle = r.username, !.senders = {i}])
          /\ entitled' = entitled \cup {<<s, i, "assigned">>}
    /\ UNCHANGED <<tables, sent, boot, faults>>

\* deauthorize and data deletion: one transaction.
Forget(i) ==
    /\ i \in Forgettable
    /\ Request
    /\ ledger' = {r \in ledger : SenderOf[r.message] # i}
    /\ users' = [s \in Scout |-> IF users[s].igId = i THEN [users[s] EXCEPT !.igId = None]
                                                      ELSE users[s]]
    /\ UNCHANGED <<sent, serial, sheet, running, boot, task, entitled, faults>>

\* Time passes: the rows up to n leave the pairing window.
Age(n) ==
    /\ n <= MaxAged
    /\ sheet[n].fresh
    /\ sheet' = [k \in DOMAIN sheet |-> IF k <= n THEN [sheet[k] EXCEPT !.fresh = FALSE]
                                                  ELSE sheet[k]]
    /\ UNCHANGED <<users, ledger, serial, running, task, world>>

-----------------------------------------------------------------------------
(* Linking a sender to a scout.                                            *)

\* What a scout with handle h may get.
Entitle(s, h) ==
    entitled' = entitled \cup ({s} \X {i \in Sender : UsernameOf[i] = h} \X {"handle"})

\* Mutant of PutHandle: the cached Instagram id stays.
PutHandleKeepingId(w) ==
    LET t == task[w]
        s == t.owner IN
    /\ At(w, "handle")
    /\ t.handle = None \/ Holding("handle", t.handle) \subseteq {s}
    /\ users' = [users EXCEPT ![s].handle = t.handle, ![s].own = (t.mode = "own")]
    /\ Entitle(s, t.handle)
    /\ IF t.mode = "own" THEN Goto(w, "claim") ELSE Become(w, Idle)
    /\ UNCHANGED <<sent, ledger, serial, sheet, boot, requests, faults>>

\* The handle is stored; a different one clears the cached Instagram id.
PutHandle(w) ==
    LET t == task[w]
        s == t.owner IN
    /\ At(w, "handle")
    /\ t.handle = None \/ Holding("handle", t.handle) \subseteq {s}
    /\ users' = [users EXCEPT ![s] = [handle |-> t.handle,
                                      igId |-> IF t.handle = t.had THEN @.igId ELSE None,
                                      own |-> t.mode = "own"]]
    /\ Entitle(s, t.handle)
    /\ IF t.mode = "own" THEN Become(w, [t EXCEPT !.pc = "claim", !.handle = None, !.had = None])
                         ELSE Become(w, Idle)
    /\ UNCHANGED <<sent, ledger, serial, sheet, boot, requests, faults>>

HandleTaken(w) ==
    /\ At(w, "handle")
    /\ task[w].handle # None /\ ~ Holding("handle", task[w].handle) \subseteq {task[w].owner}
    /\ Become(w, Idle)
    /\ UNCHANGED <<tables, world>>

\* claimForScout: the handle is read again, then the messages it may claim.
ReadHandle(w) ==
    LET h == users[task[w].owner].handle IN
    /\ At(w, "claim")
    /\ IF h = None THEN Become(w, Idle)
                   ELSE Become(w, [task[w] EXCEPT !.pc = "waiting", !.handle = h])
    /\ UNCHANGED <<tables, world>>

\* Mutant of FindWaiting: the username Meta answers is not compared.
FindWaitingAny(w) ==
    LET t == task[w]
        By(u) == {SenderOf[r.message] : r \in {q \in Waiting : q.username = u}} IN
    /\ At(w, "waiting")
    /\ Resume(w, [t EXCEPT !.senders = By(t.handle) \cup By(None)])
    /\ UNCHANGED <<tables, world>>

\* Senders already resolved to the handle, and those Meta now resolves to it;
\* a look-up may fail.
FindWaiting(w) ==
    LET t == task[w]
        By(u) == {SenderOf[r.message] : r \in {q \in Waiting : q.username = u}}
        Resolved == {i \in By(None) : UsernameOf[i] = t.handle}
    IN
    /\ At(w, "waiting")
    /\ \E found \in SUBSET Resolved :
          /\ \/ found = Resolved /\ UNCHANGED faults
             \/ found # Resolved /\ Fault
          /\ Resume(w, [t EXCEPT !.senders = By(t.handle) \cup found])
    /\ UNCHANGED <<tables, sent, boot, entitled, requests>>

\* relinkAndReprocess: take the id from whoever holds it,
Release(w) ==
    LET t == task[w] IN
    /\ At(w, "release")
    /\ \E i \in t.senders :
          /\ Become(w, [t EXCEPT !.pc = "link", !.sender = i, !.senders = @ \ {i},
                                 !.had = users[t.owner].handle])
          /\ users' = [s \in Scout |-> IF users[s].igId = i /\ s # t.owner
                                       THEN [users[s] EXCEPT !.igId = None] ELSE users[s]]
    /\ UNCHANGED <<ledger, serial, sheet, world>>

\* the handle the scout adopts if the record read had none;
Adopted(t) == IF t.had # None \/ t.handle = None THEN users[t.owner].handle ELSE t.handle

LinkClash(t) ==
    \/ ~ Holding("igId", t.sender) \subseteq {t.owner}
    \/ Adopted(t) # None /\ ~ Holding("handle", Adopted(t)) \subseteq {t.owner}

\* then give it to the scout, unless a unique key is taken;
Link(w) ==
    LET t == task[w] IN
    /\ At(w, "link")
    /\ ~LinkClash(t)
    /\ users' = [users EXCEPT ![t.owner] = [handle |-> Adopted(t), igId |-> t.sender,
                                            own |-> @.own /\ Adopted(t) = @.handle]]
    /\ Entitle(t.owner, Adopted(t))
    /\ Become(w, [t EXCEPT !.pc = "pending", !.had = None])
    /\ UNCHANGED <<sent, ledger, serial, sheet, boot, requests, faults>>

LinkRefused(w) ==
    /\ At(w, "link")
    /\ LinkClash(task[w])
    /\ Become(w, Idle)
    /\ UNCHANGED <<tables, world>>

\* then read what waits for that sender.
ReadPending(w) ==
    LET t == task[w]
        rows == {r \in Waiting : SenderOf[r.message] = t.sender} IN
    /\ At(w, "pending")
    /\ Resume(w, [t EXCEPT !.todo = Items(rows), !.sender = None])
    /\ UNCHANGED <<tables, world>>

\* Mutant of Drop: deletes whatever row the message has now.
DropByMessage(w) ==
    /\ At(w, "drop")
    /\ ledger' = {r \in ledger : r.message # task[w].cur.message}
    /\ Goto(w, "seen")
    /\ UNCHANGED <<users, serial, sheet, world>>

\* The ledger row of a message to be re-filed is cleared; it may be gone.
Drop(w) ==
    /\ At(w, "drop")
    /\ \E r \in ledger : r.id = task[w].cur.id /\ ledger' = ledger \ {r}
    /\ Become(w, [task[w] EXCEPT !.pc = "seen", !.cur.id = 0])
    /\ UNCHANGED <<users, serial, sheet, world>>

DropMissing(w) ==
    /\ At(w, "drop")
    /\ \A r \in ledger : r.id # task[w].cur.id
    /\ Throw(w)
    /\ UNCHANGED <<tables, world>>

-----------------------------------------------------------------------------
(* ingest: is the message known, and whose is it?                          *)

\* Mutant of SkipSeen: a known message ends the run.
StopAtSeen(w) ==
    /\ At(w, "seen")
    /\ Known(task[w].cur.message)
    /\ Become(w, Idle)
    /\ UNCHANGED <<tables, world>>

SkipSeen(w) ==
    /\ At(w, "seen")
    /\ Known(task[w].cur.message)
    /\ Resume(w, task[w])
    /\ UNCHANGED <<tables, world>>

\* Mutant of NotSeen: the ledger is not consulted.
NotLooked(w) ==
    /\ At(w, "seen")
    /\ Goto(w, "cached")
    /\ UNCHANGED <<tables, world>>

NotSeen(w) ==
    /\ At(w, "seen")
    /\ ~Known(task[w].cur.message)
    /\ Goto(w, "cached")
    /\ UNCHANGED <<tables, world>>

\* The scout is settled: on to the shares, if there are any.
Place(w, s, username) ==
    LET m == task[w].cur.message IN
    Become(w, [task[w] EXCEPT !.pc = IF Shares[m] = {} THEN "nolinks" ELSE "half",
                              !.cur.scout = s, !.cur.username = username,
                              !.cur.kinds = Shares[m]])

FindCached(w) ==
    /\ At(w, "cached")
    /\ \E s \in Holding("igId", SenderOf[task[w].cur.message]) : Place(w, s, users[s].handle)
    /\ UNCHANGED <<tables, world>>

NotCached(w) ==
    /\ At(w, "cached")
    /\ Holding("igId", SenderOf[task[w].cur.message]) = {}
    /\ Goto(w, "lookup")
    /\ UNCHANGED <<tables, world>>

\* The look-up of the username answers, and a scout has it or not.
MatchHandle(w) ==
    LET t == task[w]
        username == UsernameOf[SenderOf[t.cur.message]]
        scouts == Holding("handle", username) IN
    /\ At(w, "lookup")
    /\ \/ \E s \in scouts :
             Become(w, [t EXCEPT !.pc = "cache", !.cur.scout = s, !.cur.username = username])
       \/ /\ scouts = {}
          /\ Become(w, [t EXCEPT !.pc = "unmatched", !.cur.username = username])
    /\ UNCHANGED <<tables, world>>

LookupFails(w) ==
    /\ At(w, "lookup")
    /\ Fault
    /\ Goto(w, "unmatched")
    /\ UNCHANGED <<tables, sent, boot, entitled, requests>>

\* The id is cached on the scout; a refusal or an error is ignored.
CacheId(w) ==
    LET c == task[w].cur
        i == SenderOf[c.message] IN
    /\ At(w, "cache")
    /\ users' = IF Holding("igId", i) \subseteq {c.scout}
                THEN [users EXCEPT ![c.scout].igId = i] ELSE users
    /\ Place(w, c.scout, c.username)
    /\ UNCHANGED <<ledger, serial, sheet, world>>

-----------------------------------------------------------------------------
(* ingest: filing the shares and recording the message.                    *)

\* Profiles first.
NextKind(kinds) == IF "profile" \in kinds THEN "profile" ELSE "reel"

Newest(rows) == {n \in rows : \A k \in rows : k <= n}

\* The newest row that waits for this half, or none.
FindHalf(w) ==
    LET c == task[w].cur
        rows == Halves(c.scout, NextKind(c.kinds)) IN
    /\ At(w, "half")
    /\ IF rows = {} THEN Goto(w, "number")
       ELSE \E n \in Newest(rows) : Become(w, [task[w] EXCEPT !.pc = "fill", !.cur.row = n])
    /\ UNCHANGED <<tables, world>>

\* A share is on row n: the next one, or the ledger.
Filed(w, n) ==
    LET rest == task[w].cur.kinds \ {NextKind(task[w].cur.kinds)} IN
    Become(w, [task[w] EXCEPT !.pc = IF rest = {} THEN "applied" ELSE "half",
                              !.cur.kinds = rest, !.cur.row = n, !.cur.attempt = 0])

FillHalf(w) ==
    LET c == task[w].cur IN
    /\ At(w, "fill")
    /\ sheet' = [sheet EXCEPT ![c.row][NextKind(c.kinds)] = c.message]
    /\ Filed(w, c.row)
    /\ UNCHANGED <<users, ledger, serial, world>>

\* createRow: read the last row number, then create the next, up to three times.
ReadRowNumber(w) ==
    /\ At(w, "number")
    /\ Become(w, [task[w] EXCEPT !.pc = "create", !.cur.attempt = @ + 1,
                                 !.cur.row = LastRowNumber(task[w].cur.scout)])
    /\ UNCHANGED <<tables, world>>

CreateRow(w) ==
    LET c == task[w].cur
        blank == [scout |-> c.scout, profile |-> None, reel |-> None, fresh |-> TRUE] IN
    /\ At(w, "create")
    /\ LastRowNumber(c.scout) = c.row
    /\ sheet' = Append(sheet, [blank EXCEPT ![NextKind(c.kinds)] = c.message])
    /\ Filed(w, Len(sheet) + 1)
    /\ UNCHANGED <<users, ledger, serial, world>>

RowClash(w) ==
    /\ At(w, "create")
    /\ LastRowNumber(task[w].cur.scout) # task[w].cur.row
    /\ Goto(w, IF task[w].cur.attempt = 3 THEN "failed" ELSE "number")
    /\ UNCHANGED <<tables, world>>

Outcome(pc) == CASE pc = "unmatched" -> "UNMATCHED_SENDER"
                 [] pc = "nolinks" -> "NO_LINKS"
                 [] pc = "applied" -> "APPLIED"
                 [] pc = "failed" -> "FAILED"
Recording == {"unmatched", "nolinks", "applied", "failed"}

LedgerEntry(t) ==
    [id |-> serial + 1, message |-> t.cur.message, status |-> Outcome(t.pc),
     username |-> t.cur.username, scout |-> t.cur.scout,
     entry |-> IF t.pc = "applied" THEN t.cur.row ELSE 0]

Record(w) ==
    LET t == task[w] IN
    /\ t.pc \in Recording
    /\ ~Known(t.cur.message)
    /\ ledger' = ledger \cup {LedgerEntry(t)}
    /\ serial' = serial + 1
    /\ Resume(w, t)
    /\ UNCHANGED <<users, sheet, world>>

\* messageId is unique: a clash while recording APPLIED is caught and recorded
\* as FAILED, which clashes too.
RecordClash(w) ==
    /\ task[w].pc \in Recording
    /\ Known(task[w].cur.message)
    /\ IF At(w, "applied") THEN Goto(w, "failed") ELSE Throw(w)
    /\ UNCHANGED <<tables, world>>

-----------------------------------------------------------------------------
(* Failures.                                                               *)

\* A call fails: while filing, the message is recorded as FAILED; caching the id
\* goes on; anything else throws.
CallFails(w) ==
    /\ task[w].pc # "idle"
    /\ Fault
    /\ IF task[w].pc \in {"half", "fill", "number", "create", "applied"}
       THEN Goto(w, "failed")
       ELSE IF At(w, "cache") THEN Place(w, task[w].cur.scout, task[w].cur.username)
       ELSE IF task[w].pc \in {"handle", "claim", "waiting", "release", "link", "pending", "fetch"}
       THEN Become(w, Idle)
       ELSE Throw(w)
    /\ UNCHANGED <<tables, sent, boot, entitled, requests>>

\* The process is restarted: every handler is lost.
Restart ==
    /\ Fault
    /\ task' = [w \in Worker |-> Idle]
    /\ running' = FALSE
    /\ boot' = TRUE
    /\ UNCHANGED <<tables, sent, entitled, requests>>

-----------------------------------------------------------------------------
Ingest(w) ==
    \/ SkipSeen(w) \/ NotSeen(w) \/ FindCached(w) \/ NotCached(w)
    \/ MatchHandle(w) \/ LookupFails(w) \/ CacheId(w)
    \/ FindHalf(w) \/ FillHalf(w) \/ ReadRowNumber(w) \/ CreateRow(w) \/ RowClash(w)
    \/ Record(w) \/ RecordClash(w)

Continue(w) ==
    \/ Ingest(w) \/ FetchInbox(w) \/ Drop(w) \/ DropMissing(w)
    \/ PutHandle(w) \/ HandleTaken(w) \/ ReadHandle(w) \/ FindWaiting(w)
    \/ Release(w) \/ Link(w) \/ LinkRefused(w) \/ ReadPending(w)
    \/ CallFails(w)

Next ==
    \/ \E m \in Message : Send(m)
    \/ \E i \in Sender : Forget(i)
    \/ \E n \in DOMAIN sheet : Age(n)
    \/ \E w \in Worker :
          \/ Deliver(w) \/ Tick(w) \/ RefileAtBoot(w) \/ ManualSync(w) \/ Assign(w)
          \/ \E mode \in {"own", "admin"} : StartSetHandle(w, mode)
          \/ Continue(w)
    \/ Restart

\* Safety alone, and with the fairness the event loop and the timer give.
SafeSpec == Init /\ [][Next]_vars
Spec ==
    /\ SafeSpec
    /\ \A w \in Worker : WF_vars(Continue(w))
    /\ \A w \in Poller : WF_vars(Tick(w))

-----------------------------------------------------------------------------
(* Under any interleaving.                                                 *)

\* A share is only ever on the sheet of a scout whose handle was the sender's at
\* some time, or to whom an admin assigned the sender (resolveScout, relink).
OnEntitledSheet ==
    \A n \in DOMAIN sheet, k \in Kind :
        sheet[n][k] # None =>
            \E why \in {"handle", "assigned"} :
                <<sheet[n].scout, SenderOf[sheet[n][k]], why>> \in entitled

\* Re-filing, which deletes ledger rows to ingest their messages again, never
\* takes or changes one that was filed, whatever it read before: only an erasure,
\* which is no step of a worker, does.
AppliedKept ==
    [][task' # task =>
          \A r \in ledger : r.status = "APPLIED" => r \in ledger']_vars

\* No message stays out of the ledger: one whose row was deleted to be re-filed by
\* a request that then died is found again by the poll.
Recorded == \A m \in Message : m \in sent ~> Known(m)

-----------------------------------------------------------------------------
(* With one handler at a time.                                             *)

Quiet == \A w \in Worker : task[w].pc = "idle"
Cells(m, kind) == {n \in DOMAIN sheet : sheet[n][kind] = m}

\* A message seen by both routes is filed once: no share is in two cells.
FiledOnce == \A m \in Message, k \in Kind : Cardinality(Cells(m, k)) <= 1

\* The ledger tells the truth: the shares of an APPLIED message are on its scout's
\* sheet, the last on the row it names, and no other message has any.
AppliedOnSheet ==
    Quiet => \A r \in ledger, k \in Kind :
        LET cells == Cells(r.message, k) IN
        IF r.status = "APPLIED" /\ k \in Shares[r.message]
        THEN /\ cells # {} /\ \A n \in cells : sheet[n].scout = r.scout
             /\ r.message \in {sheet[r.entry][j] : j \in Kind}
        ELSE cells = {}

\* A profile and a reel within the window of each other never wait side by side:
\* whichever comes second completes the row (applyProfile, applyReel).
HalvesPaired ==
    Quiet => \A s \in Scout :
        Halves(s, "profile") = {} \/ Halves(s, "reel") = {}

\* A handle decides what follows: the cached id is that of the scout's handle
\* unless an admin assigned it, so that the old account's shares stop coming, and
\* of the handle a scout set nothing stays unmatched, whenever it came.
HandleRules ==
    Quiet => \A s \in Scout :
        /\ \A i \in Sender : users[s].igId = i =>
              UsernameOf[i] = users[s].handle \/ <<s, i, "assigned">> \in entitled
        /\ \A r \in Waiting : users[s].own =>
              users[s].handle # UsernameOf[SenderOf[r.message]]

=============================================================================
