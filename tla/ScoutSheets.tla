---------------------------- MODULE ScoutSheets ----------------------------
(***************************************************************************)
(* The scouting sheets: scouts and admins add, edit, delete and review     *)
(* rows; an admin promotes a qualified row into the Creator Database and   *)
(* then adds it to the scout's campaign in Deal Studio, a system of its    *)
(* own.  One action is one awaited call (a database statement, a request   *)
(* to Deal Studio) with the code up to the next await.                     *)
(*                                                                         *)
(* The Creator Database is the set of handles with a record (Creators has  *)
(* the upsert itself).  Notes, age, country and the other columns that no  *)
(* decision reads are left out, and so is a deployment without Deal Studio *)
(* (promote then stops after the local record).                            *)
(***************************************************************************)
EXTENDS Integers, FiniteSets

CONSTANTS
    Scout, Handle, Campaign,
    Row,          \* row ids; an id is not reused
    Editor,       \* requests in flight that edit or review rows
    Promoter,     \* requests in flight that promote a row or retry Deal Studio
    MaxEdits,     \* bound: edits and reviews of existing rows
    MaxAdmin,     \* bound: campaign changes, deleted accounts, campaigns, creators
    MaxFaults,    \* bound: failed or unanswered calls and restarts
    None

Worker == Editor \cup Promoter
MaxAttempts == 3       \* create: tries for a row number
StudioAttempts == 2    \* a POST to Deal Studio: tries

ASSUME WorkerAssumption == Editor \cap Promoter = {}
ASSUME NoneAssumption == None \notin Scout \cup Handle \cup Campaign \cup Row
ASSUME BoundAssumption == MaxEdits \in Nat /\ MaxAdmin \in Nat /\ MaxFaults \in Nat

VARIABLES
    rows,       \* scout_entries, None where there is no row
    used,       \* the ids given so far
    campaignOf, \* users.dealStudioCampaignId
    accounts,   \* the scouts that still have an account
    creators,   \* the handles in the Creator Database
    studio,     \* Deal Studio: its campaigns
    task,       \* the local variables of each request
    sentTo,     \* history: <<campaign, handle>> that Deal Studio took for a row
    lost,       \* history: rows taken by Deal Studio by a request that did not record it
    crossed,    \* history: rows that two requests were sending at once
    warned,     \* history: <<row, handle>> a warning was answered for, or a restart
                \* cut off the request before its look-up
    edits, admin, faults

vars == <<rows, used, campaignOf, accounts, creators, studio, task, sentTo,
          lost, crossed, warned, edits, admin, faults>>
sheets == <<rows, used, warned>>
people == <<campaignOf, accounts>>
promotion == <<creators, studio, sentTo, lost, crossed>>
bounds == <<edits, admin, faults>>

Entry == [scout : Scout, number : Nat \ {0}, handle : Handle \cup {None},
          qualified : BOOLEAN,
          promoted : Handle \cup {None},   \* promotedCreatorId, by its handle
          campaign : Campaign \cup {None}, \* dealStudioCampaignId
          addedAt : BOOLEAN,               \* dealStudioAddedAt is set
          error : BOOLEAN]                 \* dealStudioError is set

Idle == [pc |-> "idle", row |-> None, scout |-> None, handle |-> None,
         number |-> 0, attempt |-> 0, campaign |-> None, took |-> FALSE]

Step == {"idle", "number", "insert", "check", "save", "delete", "review",
         "upsert", "mark", "read", "call", "record", "fail"}

Task == [pc : Step, row : Row \cup {None}, scout : Scout \cup {None},
         handle : Handle \cup {None}, number : Nat, attempt : Nat,
         campaign : Campaign \cup {None}, took : BOOLEAN]

Present(r) == rows[r] # None

\* Types, the unique row numbers, and rows of accounts that exist.
TypeOK ==
    /\ rows \in [Row -> Entry \cup {None}]
    /\ used \subseteq Row
    /\ campaignOf \in [Scout -> Campaign \cup {None}]
    /\ accounts \subseteq Scout
    /\ creators \subseteq Handle
    /\ studio \subseteq Campaign
    /\ task \in [Worker -> Task]
    /\ sentTo \in [Row -> SUBSET (Campaign \X Handle)]
    /\ lost \subseteq Row /\ crossed \subseteq Row
    /\ warned \subseteq Row \X Handle
    /\ edits \in Nat /\ admin \in Nat /\ faults \in Nat
    /\ \A q, r \in Row :
          Present(q) /\ Present(r) /\ rows[q].scout = rows[r].scout
            /\ rows[q].number = rows[r].number => q = r
    /\ \A r \in Row : Present(r) => r \in used /\ rows[r].scout \in accounts

Init ==
    /\ rows = [r \in Row |-> None]
    /\ used = {}
    /\ campaignOf \in [Scout -> Campaign \cup {None}]
    /\ accounts = Scout
    /\ creators = {}
    /\ studio = Campaign
    /\ task = [w \in Worker |-> Idle]
    /\ sentTo = [r \in Row |-> {}]
    /\ lost = {} /\ crossed = {}
    /\ warned = {}
    /\ edits = 0 /\ admin = 0 /\ faults = 0

-----------------------------------------------------------------------------
(* Control flow.                                                           *)

At(w, step) == task[w].pc = step
Become(w, t) == task' = [task EXCEPT ![w] = t]
Goto(w, step) == Become(w, [task[w] EXCEPT !.pc = step])

\* The request is answered, with an error or not.
End(w) == Become(w, Idle)

Edit == edits < MaxEdits /\ edits' = edits + 1
Admin == admin < MaxAdmin /\ admin' = admin + 1
Fault == faults < MaxFaults /\ faults' = faults + 1

-----------------------------------------------------------------------------
(* POST entries.                                                           *)

StartCreate(w) ==
    /\ w \in Editor /\ At(w, "idle")
    /\ used # Row
    /\ \E s \in Scout, h \in Handle \cup {None} :
          Become(w, [Idle EXCEPT !.pc = "number", !.scout = s, !.handle = h,
                                 !.attempt = 1])
    /\ UNCHANGED <<sheets, people, promotion, bounds>>

Numbers(s) == {rows[r].number : r \in {q \in Row : Present(q) /\ rows[q].scout = s}}
LastNumber(s, n) == \A m \in Numbers(s) : m <= n

ReadNumber(w) ==
    /\ At(w, "number")
    /\ \E n \in Numbers(task[w].scout) \cup {0} :
          /\ LastNumber(task[w].scout, n)
          /\ Become(w, [task[w] EXCEPT !.pc = "insert", !.number = n + 1])
    /\ UNCHANGED <<sheets, people, promotion, bounds>>

NewEntry(t) == [scout |-> t.scout, number |-> t.number, handle |-> t.handle,
                qualified |-> FALSE, promoted |-> None, campaign |-> None,
                addedAt |-> FALSE, error |-> FALSE]

\* The row is written; its handle is looked up among the others afterwards.
Insert(w) ==
    LET t == task[w] IN
    /\ At(w, "insert")
    /\ t.scout \in accounts
    /\ t.number \notin Numbers(t.scout)
    /\ \E r \in Row \ used :
          /\ rows' = [rows EXCEPT ![r] = NewEntry(t)]
          /\ used' = used \cup {r}
          /\ Become(w, [Idle EXCEPT !.pc = "check", !.row = r, !.handle = t.handle])
    /\ UNCHANGED <<warned, people, promotion, bounds>>

\* P2002: the number was taken in between.
NumberTaken(w) ==
    LET t == task[w] IN
    /\ At(w, "insert")
    /\ t.number \in Numbers(t.scout)
    /\ IF t.attempt < MaxAttempts
       THEN Become(w, [t EXCEPT !.pc = "number", !.attempt = @ + 1, !.number = 0])
       ELSE End(w)
    /\ UNCHANGED <<sheets, people, promotion, bounds>>

\* The account is gone: the foreign key refuses the row.
SheetGone(w) ==
    /\ At(w, "insert")
    /\ task[w].scout \notin accounts
    /\ End(w)
    /\ UNCHANGED <<sheets, people, promotion, bounds>>

Elsewhere(h, r) == \E q \in Row \ {r} : Present(q) /\ rows[q].handle = h

\* duplicateWarning, after the write.
CheckDuplicate(w) ==
    LET t == task[w] IN
    /\ At(w, "check")
    /\ warned' = IF t.handle # None /\ (t.handle \in creators \/ Elsewhere(t.handle, t.row))
                 THEN warned \cup {<<t.row, t.handle>>} ELSE warned
    /\ End(w)
    /\ UNCHANGED <<rows, used, people, promotion, bounds>>

-----------------------------------------------------------------------------
(* PATCH and DELETE entries/:id, PATCH entries/:id/review.                 *)

\* loadOwned: the row is there and the caller may touch it (its scout or an
\* admin).  An edit changes the link, to one with handle h or with none.
StartEdit(w) ==
    /\ w \in Editor /\ At(w, "idle")
    /\ Edit
    /\ \E r \in Row, step \in {"save", "delete", "review"} :
          /\ Present(r)
          /\ Become(w, [Idle EXCEPT !.pc = step, !.row = r,
                                 !.handle = IF step = "save" THEN rows[r].handle ELSE None])
    /\ UNCHANGED <<sheets, people, promotion, admin, faults>>

\* Mutant of SaveLink: the handle is looked up before the write.
SaveLinkUnchecked(w) ==
    LET t == task[w] IN
    /\ At(w, "save")
    /\ Present(t.row)
    /\ \E h \in Handle \cup {None} :
          /\ rows' = [rows EXCEPT ![t.row].handle = h]
          /\ warned' = IF h # None /\ (h \in creators \/ (t.handle = h /\ Elsewhere(h, t.row)))
                       THEN warned \cup {<<t.row, h>>} ELSE warned
    /\ End(w)
    /\ UNCHANGED <<used, people, promotion, bounds>>

\* An unreadable link leaves the handle read before to look up.
SaveLink(w) ==
    LET t == task[w] IN
    /\ At(w, "save")
    /\ Present(t.row)
    /\ \E h \in Handle \cup {None} :
          /\ rows' = [rows EXCEPT ![t.row].handle = h]
          /\ Become(w, [t EXCEPT !.pc = "check", !.handle = IF h # None THEN h ELSE @])
    /\ UNCHANGED <<used, warned, people, promotion, bounds>>

Delete(w) ==
    /\ At(w, "delete")
    /\ Present(task[w].row)
    /\ rows' = [rows EXCEPT ![task[w].row] = None]
    /\ End(w)
    /\ UNCHANGED <<used, warned, people, promotion, bounds>>

Review(w) ==
    /\ At(w, "review")
    /\ Present(task[w].row)
    /\ \E q \in BOOLEAN : rows' = [rows EXCEPT ![task[w].row].qualified = q]
    /\ End(w)
    /\ UNCHANGED <<used, warned, people, promotion, bounds>>

\* The statement finds no row: the request fails.
RowGone(w) ==
    /\ task[w].pc \in {"save", "delete", "review", "mark", "read"}
    /\ ~Present(task[w].row)
    /\ End(w)
    /\ UNCHANGED <<sheets, people, promotion, bounds>>

-----------------------------------------------------------------------------
(* POST entries/:id/promote and entries/:id/deal-studio.                   *)

StartPromote(w) ==
    /\ w \in Promoter /\ At(w, "idle")
    /\ \E r \in Row :
          /\ Present(r) /\ rows[r].qualified /\ rows[r].handle # None
          /\ Become(w, [Idle EXCEPT !.pc = "upsert", !.row = r, !.handle = rows[r].handle])
    /\ UNCHANGED <<sheets, people, promotion, bounds>>

Upsert(w) ==
    /\ At(w, "upsert")
    /\ creators' = creators \cup {task[w].handle}
    /\ Goto(w, "mark")
    /\ UNCHANGED <<sheets, people, studio, sentTo, lost, crossed, bounds>>

\* The row gets the creator's id, unless the creator is gone again.
Mark(w) ==
    LET t == task[w] IN
    /\ At(w, "mark")
    /\ Present(t.row)
    /\ IF t.handle \in creators
       THEN /\ rows' = [rows EXCEPT ![t.row].promoted = t.handle]
            /\ Become(w, [t EXCEPT !.pc = "read", !.handle = None])
       ELSE /\ UNCHANGED rows
            /\ End(w)
    /\ UNCHANGED <<used, warned, people, creators, studio, sentTo, lost, crossed, bounds>>

StartRetry(w) ==
    /\ w \in Promoter /\ At(w, "idle")
    /\ \E r \in Row :
          /\ Present(r) /\ rows[r].promoted # None
          /\ Become(w, [Idle EXCEPT !.pc = "read", !.row = r])
    /\ UNCHANGED <<sheets, people, promotion, bounds>>

\* The requests that are sending row r.
Senders(r) == {w \in Promoter : task[w].row = r /\ task[w].pc \in {"call", "record", "fail"}}

\* The POST that carries the handle of row e to its scout's campaign.
Send(w, e) ==
    LET t == task[w] IN
    /\ Become(w, [t EXCEPT !.pc = "call", !.handle = e.handle, !.attempt = 1,
                           !.campaign = campaignOf[e.scout]])
    /\ crossed' = IF Senders(t.row) # {} THEN crossed \cup {t.row} ELSE crossed

\* Mutant of ReadForStudio: rows that were added are sent again.
ReadForStudioAlways(w) ==
    LET t == task[w]
        e == rows[t.row] IN
    /\ At(w, "read")
    /\ Present(t.row)
    /\ IF e.handle # None /\ campaignOf[e.scout] # None
       THEN Send(w, e)
       ELSE End(w) /\ UNCHANGED crossed
    /\ UNCHANGED <<sheets, people, creators, studio, sentTo, lost, bounds>>

\* sendToDealStudio reads the row again: an added row is not sent again.
ReadForStudio(w) ==
    LET t == task[w]
        e == rows[t.row] IN
    /\ At(w, "read")
    /\ Present(t.row)
    /\ IF ~e.addedAt /\ e.handle # None /\ campaignOf[e.scout] # None
       THEN Send(w, e)
       ELSE End(w) /\ UNCHANGED crossed
    /\ UNCHANGED <<sheets, people, creators, studio, sentTo, lost, bounds>>

\* Deal Studio takes the creator; a creator the campaign already has is a success.
Take(t) == sentTo' = [sentTo EXCEPT ![t.row] = @ \cup {<<t.campaign, t.handle>>}]

Taken(w) ==
    LET t == task[w] IN
    /\ At(w, "call")
    /\ t.campaign \in studio
    /\ Take(t)
    /\ Become(w, [t EXCEPT !.pc = "record", !.took = TRUE, !.attempt = 0])
    /\ UNCHANGED <<sheets, people, creators, studio, lost, crossed, bounds>>

\* 404: no retry.
CampaignGone(w) ==
    /\ At(w, "call")
    /\ task[w].campaign \notin studio
    /\ Goto(w, "fail")
    /\ UNCHANGED <<sheets, people, promotion, bounds>>

\* 5xx, 429, no connection, no answer in time (tried again), or an answer that
\* is refused or unreadable (not tried again); the creator may have been taken.
NoAnswer(w) ==
    LET t == task[w] IN
    /\ At(w, "call")
    /\ Fault
    /\ \E took \in {FALSE, t.campaign \in studio}, retryable \in BOOLEAN :
          /\ IF took THEN Take(t) ELSE UNCHANGED sentTo
          /\ Become(w, [t EXCEPT !.took = @ \/ took,
                                 !.pc = IF retryable /\ t.attempt < StudioAttempts
                                        THEN "call" ELSE "fail",
                                 !.attempt = @ + 1])
    /\ UNCHANGED <<sheets, people, creators, studio, lost, crossed, edits, admin>>

\* Mutant of RecordAdded: the campaign is read from the scout again.
RecordAddedNow(w) ==
    LET t == task[w] IN
    /\ At(w, "record")
    /\ Present(t.row)
    /\ rows' = [rows EXCEPT ![t.row].campaign = campaignOf[rows[t.row].scout],
                            ![t.row].addedAt = TRUE, ![t.row].error = FALSE]
    /\ End(w)
    /\ UNCHANGED <<used, warned, people, promotion, bounds>>

RecordAdded(w) ==
    LET t == task[w] IN
    /\ At(w, "record")
    /\ Present(t.row)
    /\ rows' = [rows EXCEPT ![t.row].campaign = t.campaign, ![t.row].addedAt = TRUE,
                            ![t.row].error = FALSE]
    /\ End(w)
    /\ UNCHANGED <<used, warned, people, promotion, bounds>>

\* The statement fails, or finds no row: it is inside the try.
RecordFails(w) ==
    /\ At(w, "record")
    /\ \/ ~Present(task[w].row) /\ UNCHANGED faults
       \/ Fault
    /\ Goto(w, "fail")
    /\ UNCHANGED <<sheets, people, promotion, edits, admin>>

\* The rows that the requests in ws leave behind, taken but not recorded.
Unrecorded(ws) == {task[w].row : w \in {v \in ws : task[v].took}}

RecordFailed(w) ==
    LET t == task[w] IN
    /\ At(w, "fail")
    /\ rows' = IF Present(t.row)
               THEN [rows EXCEPT ![t.row].campaign = t.campaign, ![t.row].error = TRUE]
               ELSE rows
    /\ lost' = lost \cup Unrecorded({w})
    /\ End(w)
    /\ UNCHANGED <<used, warned, people, creators, studio, sentTo, crossed, bounds>>

-----------------------------------------------------------------------------
(* What the rest of the system and Deal Studio do meanwhile.               *)

\* PATCH users/:id: a campaign Deal Studio has, or none.
AssignCampaign(s) ==
    /\ s \in accounts
    /\ Admin
    /\ \E c \in studio \cup {None} :
          c # campaignOf[s] /\ campaignOf' = [campaignOf EXCEPT ![s] = c]
    /\ UNCHANGED <<sheets, accounts, promotion, task, edits, faults>>

\* Mutant of RemoveAccount: the rows stay.
RemoveAccountOnly(s) ==
    /\ s \in accounts
    /\ Admin
    /\ accounts' = accounts \ {s}
    /\ UNCHANGED <<rows, used, warned, campaignOf, promotion, task, edits, faults>>

\* DELETE users/:id: the rows go with the account.
RemoveAccount(s) ==
    /\ s \in accounts
    /\ Admin
    /\ accounts' = accounts \ {s}
    /\ rows' = [r \in Row |-> IF Present(r) /\ rows[r].scout = s THEN None ELSE rows[r]]
    /\ UNCHANGED <<used, warned, campaignOf, promotion, task, edits, faults>>

\* A creator is deleted: the rows promoted to it forget it.
DeleteCreator(h) ==
    /\ h \in creators
    /\ Admin
    /\ creators' = creators \ {h}
    /\ rows' = [r \in Row |-> IF Present(r) /\ rows[r].promoted = h
                              THEN [rows[r] EXCEPT !.promoted = None] ELSE rows[r]]
    /\ UNCHANGED <<used, warned, people, studio, sentTo, lost, crossed, task,
                   edits, faults>>

\* External: a campaign is deleted in Deal Studio.
DeleteCampaign(c) ==
    /\ c \in studio
    /\ Admin
    /\ studio' = studio \ {c}
    /\ UNCHANGED <<sheets, people, creators, sentTo, lost, crossed, task, edits, faults>>

\* The process stops: every request ends where it is.
Restart ==
    /\ Fault
    /\ lost' = lost \cup Unrecorded(Worker)
    /\ warned' = warned \cup {<<task[w].row, task[w].handle>> : w \in
                               {v \in Editor : At(v, "check") /\ task[v].handle # None}}
    /\ task' = [w \in Worker |-> Idle]
    /\ UNCHANGED <<rows, used, people, creators, studio, sentTo, crossed, edits, admin>>

Request(w) ==
    \/ StartCreate(w) \/ ReadNumber(w) \/ Insert(w) \/ NumberTaken(w) \/ SheetGone(w)
    \/ CheckDuplicate(w)
    \/ StartEdit(w) \/ SaveLink(w) \/ Delete(w) \/ Review(w) \/ RowGone(w)
    \/ StartPromote(w) \/ Upsert(w) \/ Mark(w) \/ StartRetry(w)
    \/ ReadForStudio(w) \/ Taken(w) \/ CampaignGone(w) \/ NoAnswer(w)
    \/ RecordAdded(w) \/ RecordFails(w) \/ RecordFailed(w)

Environment ==
    \/ \E s \in Scout : AssignCampaign(s) \/ RemoveAccount(s)
    \/ \E h \in Handle : DeleteCreator(h)
    \/ \E c \in Campaign : DeleteCampaign(c)
    \/ Restart

Next == (\E w \in Worker : Request(w)) \/ Environment

Spec == Init /\ [][Next]_vars

-----------------------------------------------------------------------------
(* Properties.                                                             *)

\* Of two rows with one handle, at least one save was answered with a
\* warning, whatever the order of the saves (unless a restart cut it off): the
\* look-up follows the write.
\* (scouts.service.ts duplicateWarning)
DuplicateWarned ==
    \A q, r \in Row :
        LET h == rows[q].handle IN
        /\ q # r /\ Present(q) /\ Present(r)
        /\ h # None /\ h = rows[r].handle
        /\ \A w \in Editor : task[w].row \notin {q, r}
        => <<q, h>> \in warned \/ <<r, h>> \in warned

Campaigns(r) == {p[1] : p \in sentTo[r]}

\* A row Deal Studio is recorded to have is in the campaign recorded with it,
\* and is not shown as failed.  Nothing keeps two requests from sending one row
\* at once; the one that fails last then leaves its error, and the campaign it
\* tried, on a row the other has recorded as added.
\* (scouts.service.ts sendToDealStudio, schema.prisma "this is where the
\* creator actually went")
AddedWhereRecorded ==
    \A r \in Row :
        Present(r) /\ rows[r].addedAt =>
            \/ rows[r].campaign \in Campaigns(r) /\ ~rows[r].error
            \/ r \in crossed /\ rows[r].error

\* A row only gets to a second campaign when the request that took it to the
\* first never recorded it, or two requests were sending it at once.
\* (scouts.service.ts sendToDealStudio)
SecondCampaignOnlyIfLost ==
    \A r \in Row \ (lost \cup crossed) : \A c, d \in Campaigns(r) : c = d
=============================================================================
