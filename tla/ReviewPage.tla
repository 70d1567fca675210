----------------------------- MODULE ReviewPage -----------------------------
(***************************************************************************)
(* The scouts page of the administrators' console (public/app.js), one     *)
(* browser tab: the rows of the scouting sheets under a filter, their      *)
(* review, the dialog that promotes a row, the sending of a promoted row   *)
(* to Deal Studio, and the scout's account with its campaign.  One action  *)
(* is one event handler up to its fetch, the server's answer to one        *)
(* request, or the handler of one answer; answers come in any order.       *)
(*                                                                         *)
(* The rows are those of one scout.  ScoutSheets has the server's side of  *)
(* a promotion in full, here it is one step.  Notes, the counters and the  *)
(* notices above the table, rows without a handle (their dialog only says  *)
(* so) and a deployment without Deal Studio are left out.                  *)
(***************************************************************************)
EXTENDS Naturals, FiniteSets, Bags, BagsExt

CONSTANTS
    Row, Campaign,
    MaxEvents,    \* bound: what the administrator clicks, others change, and fails, together
    Gone,         \* no account in the list
    None

Verdict == {"PENDING", "QUALIFIED", "REJECTED"}
Filter == {"any"} \cup Verdict
Kind == {"rows", "users", "campaigns", "review", "promote", "send", "pick", "active",
         "remove", "create", "sync"}

ASSUME BoundAssumption == MaxEvents \in Nat

VARIABLES
    page,     \* state
    net,      \* the requests in flight, a bag
    rows,     \* scout_entries
    user,     \* the scout's account, Gone once it is deleted
    session,  \* the cookie is good
    events,
    crossed   \* history: the rows two requests in flight at a time were about,
              \* or somebody else changed

vars == <<page, net, rows, user, session, events, crossed>>
server == <<rows, user, session>>

Entry == [verdict : Verdict, promoted : BOOLEAN,
          sent : Campaign \cup {None},   \* the campaign of dealStudioAddedAt
          failed : BOOLEAN]              \* dealStudioError is set
User == [campaign : Campaign \cup {None}, active : BOOLEAN]

\* The rows of an answer, each with its scout's campaign; None: not listed.
ListRow == [entry : Entry, campaign : Campaign \cup {None}]
List == [Row -> ListRow \cup {None}]
Nothing == [r \in Row |-> None]

ASSUME NoneAssumption ==
    /\ {None, Gone} \cap (Row \cup Campaign \cup Filter \cup User) = {} /\ Gone # None
    /\ None \notin Entry \cup ListRow \cup {"ok", "error", "401"} /\ None \notin List

Page == [view : {"login", "app"}, filter : Filter,
         entries : List \cup {None}, error : BOOLEAN,   \* scoutEntries, None: loading
         users : User \cup {Gone, None},                \* scoutUsers, None: loading
         campaigns : {"ok", "error", None},             \* dsCampaigns
         picking : BOOLEAN, saving : BOOLEAN,           \* dsEditingUser, dsSavingUser
         dialog : Row \cup {None}, named : Campaign \cup {None},   \* promoteEntry
         promoting : BOOLEAN, sending : Row \cup {None},           \* scoutDsBusyId
         syncing : BOOLEAN, creating : BOOLEAN]

\* `value`: the filter, verdict, campaign or flag sent, or the campaign the dialog named.
Request(kind, row, value) == [kind |-> kind, row |-> row, value |-> value,
                              answer |-> None, list |-> Nothing, user |-> None]

InFlight(kind, queue) == {m \in BagToSet(queue) : m.kind = kind}

\* One request of the kind is in flight, once.
Alone(kind, queue) ==
    \E m \in InFlight(kind, queue) : InFlight(kind, queue) = {m} /\ queue[m] = 1
Awaits(flag, kind, queue) == IF flag THEN Alone(kind, queue) ELSE InFlight(kind, queue) = {}

\* Types; and what is shown as under way is: one request for each button that
\* waits, never two for one button, and rows to come where the page is loading.
TypeOK ==
    /\ page \in Page
    /\ IsABag(net)
    /\ \A m \in BagToSet(net) :
          /\ m.kind \in Kind /\ m.row \in Row \cup {None} /\ m.list \in List
          /\ m.answer \in {None, "ok", "error", "401"} /\ m.user \in User \cup {Gone, None}
    /\ rows \in [Row -> Entry \cup {None}]
    /\ user \in User \cup {Gone}
    /\ session \in BOOLEAN /\ events \in 0 .. MaxEvents /\ crossed \subseteq Row
    /\ Awaits(page.sending # None, "send", net)
    /\ Awaits(page.syncing, "sync", net)
    /\ Awaits(page.creating, "create", net)
    /\ Awaits(page.saving, "pick", net)
    /\ InFlight("promote", net) # {} => page.promoting /\ Alone("promote", net)
    /\ page.view = "app" /\ page.entries = None => InFlight("rows", net) # {}
    /\ page.view = "app" /\ page.users = None => InFlight("users", net) # {}

-----------------------------------------------------------------------------
(* Requests.                                                               *)

\* The rows a request is about.
About(m) ==
    CASE m.kind \in {"rows", "pick", "remove", "sync"} -> Row
      [] m.kind \in {"review", "promote", "send"} -> {m.row}
      [] m.kind \in {"users", "campaigns", "active", "create"} -> {}
AboutAny(queue) == UNION {About(m) : m \in BagToSet(queue)}

Event == events < MaxEvents /\ events' = events + 1
Cross(rs) == crossed' = crossed \cup rs
Send(m) == net' = BagAdd(net, m) /\ Cross(About(m) \cap AboutAny(net))

Users == Request("users", None, None)
Campaigns == Request("campaigns", None, None)

\* loadScouts: the rows, and what else is not there yet.
Loads(p) ==
    SetToBag({Request("rows", None, p.filter)}
                \cup (IF p.campaigns = None THEN {Campaigns} ELSE {})
                \cup (IF p.users = None THEN {Users} ELSE {}))

LoadScouts(p, queue) ==
    /\ page' = [p EXCEPT !.entries = None, !.error = FALSE]
    /\ net' = queue (+) Loads(p)
    /\ Cross(AboutAny(queue))

NewEntry == [verdict |-> "PENDING", promoted |-> FALSE, sent |-> None, failed |-> FALSE]
QualifiedEntry == [NewEntry EXCEPT !.verdict = "QUALIFIED"]
FailedEntry == [QualifiedEntry EXCEPT !.promoted = TRUE, !.failed = TRUE]

\* The page is opened.
Init ==
    /\ page = [view |-> "app", filter |-> "any", entries |-> None, error |-> FALSE,
               users |-> None, campaigns |-> None, picking |-> FALSE, saving |-> FALSE,
               dialog |-> None, named |-> None, promoting |-> FALSE, sending |-> None,
               syncing |-> FALSE, creating |-> FALSE]
    /\ net = Loads(page)
    /\ rows \in [Row -> {None, QualifiedEntry, FailedEntry}]
    /\ user \in [campaign : Campaign \cup {None}, active : {TRUE}]
    /\ session = TRUE
    /\ events = 0 /\ crossed = {}

-----------------------------------------------------------------------------
(* What the administrator does.                                            *)

\* The page without the dialog that covers it.
Shown == page.view = "app" /\ page.dialog = None
Listed(r) == Shown /\ page.entries # None /\ page.entries[r] # None
Account == Shown /\ page.users \notin {None, Gone}

\* A filter, the search, or the link to the page.
ChangeFilter(f) ==
    /\ Shown
    /\ Event
    /\ LoadScouts([page EXCEPT !.filter = f], net)
    /\ UNCHANGED server

\* The verdict that is active is taken back by its button; None: the notes.
ReviewRow(r, want) ==
    /\ Listed(r)
    /\ Event
    /\ Send(Request("review", r,
                    IF page.entries[r].entry.verdict = want THEN "PENDING" ELSE want))
    /\ UNCHANGED <<page, server>>

\* The dialog keeps the row as it is listed now.
OpenPromote(r) ==
    /\ Listed(r)
    /\ page.entries[r].entry.verdict = "QUALIFIED" /\ ~page.entries[r].entry.promoted
    /\ page' = [page EXCEPT !.dialog = r, !.named = page.entries[r].campaign]
    /\ Cross({r} \cap AboutAny(net))
    /\ UNCHANGED <<net, server, events>>

ClosePromote ==
    /\ page.view = "app" /\ page.dialog # None /\ ~page.promoting
    /\ page' = [page EXCEPT !.dialog = None, !.named = None]
    /\ UNCHANGED <<net, server, events, crossed>>

ConfirmPromote ==
    /\ page.view = "app" /\ page.dialog # None /\ ~page.promoting
    /\ Event
    /\ page' = [page EXCEPT !.promoting = TRUE]
    /\ Send(Request("promote", page.dialog, page.named))
    /\ UNCHANGED server

\* "Retry" and "Send to Deal Studio".
SendToStudio(r) ==
    LET e == page.entries[r] IN
    /\ Listed(r)
    /\ e.entry.promoted /\ e.entry.sent = None /\ (e.entry.failed \/ e.campaign # None)
    /\ page.sending = None
    /\ Event
    /\ page' = [page EXCEPT !.sending = r]
    /\ Send(Request("send", r, None))
    /\ UNCHANGED server

\* editCampaign and "Try again" load the campaigns where they are not there.
EditCampaign ==
    /\ Account
    /\ \/ ~page.picking /\ page' = [page EXCEPT !.picking = TRUE]
       \/ page.picking /\ page.campaigns = "error" /\ page' = [page EXCEPT !.campaigns = None]
    /\ IF page.campaigns = "ok" THEN UNCHANGED <<net, events, crossed>>
                                ELSE Event /\ Send(Campaigns)
    /\ UNCHANGED server

\* A click elsewhere; Escape and the loss of the focus only while nothing is saved.
StopEditing ==
    /\ Shown /\ page.picking
    /\ page' = [page EXCEPT !.picking = FALSE]
    /\ UNCHANGED <<net, server, events, crossed>>

PickCampaign(c) ==
    /\ Account
    /\ page.picking /\ page.campaigns = "ok" /\ ~page.saving /\ c # page.users.campaign
    /\ Event
    /\ page' = [page EXCEPT !.saving = TRUE]
    /\ Send(Request("pick", None, c))
    /\ UNCHANGED server

\* Disable or enable the account, delete it.
ChangeAccount ==
    /\ Account
    /\ Event
    /\ \/ Send(Request("active", None, ~page.users.active))
       \/ Send(Request("remove", None, None))
    /\ UNCHANGED <<page, server>>

CreateAccount ==
    /\ Shown /\ ~page.creating
    /\ Event
    /\ page' = [page EXCEPT !.creating = TRUE]
    /\ Send(Request("create", None, None))
    /\ UNCHANGED server

\* "Manage scouters" loads the accounts and the campaigns.
OpenAccounts ==
    /\ Shown
    /\ Event
    /\ net' = net (+) SetToBag({Users, Campaigns})
    /\ UNCHANGED <<page, server, crossed>>

SyncInbox ==
    /\ Shown /\ ~page.syncing
    /\ Event
    /\ page' = [page EXCEPT !.syncing = TRUE]
    /\ Send(Request("sync", None, None))
    /\ UNCHANGED server

\* The sign-in, which Console has, ends on this page again.
SignIn ==
    /\ page.view = "login"
    /\ Event
    /\ LoadScouts([page EXCEPT !.view = "app"], net)
    /\ session' = TRUE
    /\ UNCHANGED <<rows, user>>

-----------------------------------------------------------------------------
(* The server, and what else changes the sheets.                           *)

Due(m) == BagIn(m, net) /\ m.answer = None
Answer(m, a) == net' = BagAdd(BagRemove(net, m), a)
Ok(m) == [m EXCEPT !.answer = "ok"]

View(r) == IF rows[r] = None THEN None ELSE [entry |-> rows[r], campaign |-> user.campaign]
Matches(r, f) == rows[r] # None /\ (f = "any" \/ rows[r].verdict = f)
Matching(f) == [r \in Row |-> IF Matches(r, f) THEN View(r) ELSE None]

ServeRead(m) ==
    /\ Due(m) /\ session /\ m.kind \in {"rows", "users", "campaigns"}
    /\ Answer(m, CASE m.kind = "rows" -> [Ok(m) EXCEPT !.list = Matching(m.value)]
                   [] m.kind = "users" -> [Ok(m) EXCEPT !.user = user]
                   [] m.kind = "campaigns" -> Ok(m))
    /\ UNCHANGED <<page, server, events, crossed>>

\* sendToDealStudio: a row that is there already is not sent again.
Studio(e, took) ==
    IF e.sent # None \/ user.campaign = None THEN e
    ELSE IF took THEN [e EXCEPT !.sent = user.campaign, !.failed = FALSE]
                 ELSE [e EXCEPT !.failed = TRUE]

\* The requests about a row, which answer with the row; Deal Studio may fail.
ServeRow(m) ==
    LET e == rows[m.row]
        Becomes(new) ==
            /\ rows' = [rows EXCEPT ![m.row] = new]
            /\ Answer(m, [Ok(m) EXCEPT !.list[m.row] = [entry |-> new, campaign |-> user.campaign]]) IN
    /\ Due(m) /\ session /\ m.kind \in {"review", "promote", "send"}
    /\ e # None
    /\ \/ /\ m.kind = "review"
          /\ Becomes(IF m.value = None THEN e ELSE [e EXCEPT !.verdict = m.value])
          /\ UNCHANGED events
       \/ /\ \/ m.kind = "promote" /\ e.verdict = "QUALIFIED"
             \/ m.kind = "send" /\ e.promoted
          /\ \E took \in BOOLEAN :
                /\ Becomes(Studio([e EXCEPT !.promoted = TRUE], took))
                /\ IF took THEN UNCHANGED events ELSE Event
    /\ UNCHANGED <<page, user, session, crossed>>

\* The requests about the account and the inbox, which may file a link.
ServeAccount(m) ==
    /\ Due(m) /\ session /\ m.kind \in {"pick", "active", "remove", "create", "sync"}
    /\ m.kind \in {"pick", "active", "remove"} => user # Gone
    /\ CASE m.kind = "pick" -> user' = [user EXCEPT !.campaign = m.value] /\ UNCHANGED rows
         [] m.kind = "active" -> user' = [user EXCEPT !.active = m.value] /\ UNCHANGED rows
         [] m.kind = "remove" -> user' = Gone /\ rows' = Nothing
         [] m.kind = "create" -> UNCHANGED <<user, rows>>
         [] m.kind = "sync" ->
              /\ \/ UNCHANGED rows
                 \/ user # Gone /\ \E r \in Row : rows[r] = None /\ rows' = [rows EXCEPT ![r] = NewEntry]
              /\ UNCHANGED user
    /\ Answer(m, Ok(m))
    /\ UNCHANGED <<page, session, events, crossed>>

\* No session, or not what the request is about any more.
Refuse(m) ==
    /\ Due(m)
    /\ \/ ~session /\ Answer(m, [m EXCEPT !.answer = "401"])
       \/ /\ session
          /\ \/ m.kind \in {"pick", "active", "remove"} /\ user = Gone
             \/ m.kind \in {"review", "promote", "send"} /\ rows[m.row] = None
             \/ m.kind = "promote" /\ rows[m.row] # None /\ rows[m.row].verdict # "QUALIFIED"
          /\ Answer(m, [m EXCEPT !.answer = "error"])
    /\ UNCHANGED <<page, server, events, crossed>>

\* The request fails, or its answer is lost.
Fail(m) ==
    /\ BagIn(m, net) /\ m.answer \in {None, "ok"}
    /\ Event
    /\ Answer(m, [m EXCEPT !.answer = "error"])
    /\ Cross(IF m.answer = "ok" THEN About(m) ELSE {})
    /\ UNCHANGED <<page, server>>

\* The scout deletes a row, another administrator assigns a campaign.
Elsewhere ==
    /\ Event
    /\ \/ /\ \E r \in Row : rows[r] # None /\ rows' = [rows EXCEPT ![r] = None] /\ Cross({r})
          /\ UNCHANGED user
       \/ /\ user # Gone
          /\ \E c \in Campaign : c # user.campaign /\ user' = [user EXCEPT !.campaign = c]
          /\ Cross(Row) /\ UNCHANGED rows
    /\ UNCHANGED <<page, net, session>>

Expire ==
    /\ session
    /\ Event
    /\ session' = FALSE
    /\ UNCHANGED <<page, net, rows, user, crossed>>

-----------------------------------------------------------------------------
(* The answers.                                                            *)

Answered(m, kinds) == BagIn(m, net) /\ m.kind \in kinds /\ m.answer # None
Rest(m) == BagRemove(net, m)
SignedOut(p) == [p EXCEPT !.view = "login"]

\* The handler of an answer that sends nothing: the page after a success, after
\* an error, and the flags that a 401 clears on the way to the sign-in.
Handle(m, ok, error, refused) ==
    /\ page' = CASE m.answer = "ok" -> ok
                 [] m.answer = "error" -> error
                 [] m.answer = "401" -> SignedOut(refused)
    /\ net' = Rest(m)
    /\ UNCHANGED <<server, events, crossed>>

\* The first time or not, an answer fills the page whatever the filter is by now.
LoadAnswer(m) ==
    \/ /\ Answered(m, {"rows"})
       /\ Handle(m, [page EXCEPT !.entries = m.list],
                    [page EXCEPT !.entries = Nothing, !.error = TRUE], page)
    \/ /\ Answered(m, {"users"})
       /\ LET none == [page EXCEPT !.users = Gone] IN
          Handle(m, [page EXCEPT !.users = m.user], none, none)
    \/ /\ Answered(m, {"campaigns"})
       /\ LET broken == [page EXCEPT !.campaigns = "error"] IN
          Handle(m, [page EXCEPT !.campaigns = "ok"], broken, broken)

\* Mutant of Refreshed: the row is left as it was listed.
Unrefreshed(p, m) == [p EXCEPT !.entries = IF @ = None THEN Nothing ELSE @]

\* refreshScoutRow: the row of the answer, if it is listed; a list that is still
\* loading is empty from here on.
Refreshed(p, m) ==
    [p EXCEPT !.entries =
        IF @ = None THEN Nothing
        ELSE [r \in Row |-> IF @[r] # None /\ m.list[r] # None THEN m.list[r] ELSE @[r]]]

ReviewAnswer(m) ==
    /\ Answered(m, {"review"})
    /\ Handle(m, Refreshed(page, m), page, page)

\* After an error the dialog stays, after a 401 it stays busy.
PromoteAnswer(m) ==
    LET p == [page EXCEPT !.promoting = FALSE] IN
    /\ Answered(m, {"promote"})
    /\ Handle(m, Refreshed([p EXCEPT !.dialog = None, !.named = None], m), p, page)

\* Mutant of SendAnswer: a failed request leaves the row busy.
SendAnswerStuck(m) ==
    LET p == [page EXCEPT !.sending = None] IN
    /\ Answered(m, {"send"})
    /\ Handle(m, Refreshed(p, m), page, p)

SendAnswer(m) ==
    LET p == [page EXCEPT !.sending = None] IN
    /\ Answered(m, {"send"})
    /\ Handle(m, Refreshed(p, m), p, p)

Picked(p, c) == [p EXCEPT !.users = IF @ \in {None, Gone} THEN Gone ELSE [@ EXCEPT !.campaign = c]]

\* Mutant of PickAnswer: only the account is updated.
PickAnswerOnly(m) ==
    LET p == [page EXCEPT !.saving = FALSE] IN
    /\ Answered(m, {"pick"})
    /\ Handle(m, Picked([p EXCEPT !.picking = FALSE], m.value), p, p)

\* The rows are loaded again, with the new campaign.
PickAnswer(m) ==
    LET p == [page EXCEPT !.saving = FALSE] IN
    /\ Answered(m, {"pick"})
    /\ IF m.answer = "ok"
       THEN /\ LoadScouts(Picked([p EXCEPT !.picking = FALSE], m.value), Rest(m))
            /\ UNCHANGED <<server, events>>
       ELSE Handle(m, page, p, p)

\* The accounts are loaded again, and with one deleted the rows too.
AccountAnswer(m) ==
    LET p == [page EXCEPT !.creating = @ /\ m.kind # "create"] IN
    /\ Answered(m, {"active", "remove", "create"})
    /\ CASE m.answer = "ok" /\ m.kind = "remove" ->
              /\ LoadScouts(p, BagAdd(Rest(m), Users))
              /\ UNCHANGED <<server, events>>
         [] m.answer = "ok" /\ m.kind # "remove" ->
              /\ page' = p
              /\ net' = BagAdd(Rest(m), Users)
              /\ UNCHANGED <<server, events, crossed>>
         [] m.answer # "ok" -> Handle(m, p, p, p)

SyncAnswer(m) ==
    LET p == [page EXCEPT !.syncing = FALSE] IN
    /\ Answered(m, {"sync"})
    /\ IF m.answer = "ok"
       THEN LoadScouts(p, Rest(m)) /\ UNCHANGED <<server, events>>
       ELSE Handle(m, p, p, p)

-----------------------------------------------------------------------------

Administrator ==
    \/ \E f \in Filter : ChangeFilter(f)
    \/ \E r \in Row :
          \/ OpenPromote(r) \/ SendToStudio(r)
          \/ \E want \in {"QUALIFIED", "REJECTED", None} : ReviewRow(r, want)
    \/ ClosePromote \/ ConfirmPromote
    \/ EditCampaign \/ StopEditing \/ \E c \in Campaign \cup {None} : PickCampaign(c)
    \/ ChangeAccount \/ CreateAccount \/ OpenAccounts \/ SyncInbox \/ SignIn

Serve(m) == ServeRead(m) \/ ServeRow(m) \/ ServeAccount(m) \/ Refuse(m)

Handler(m) ==
    \/ LoadAnswer(m) \/ ReviewAnswer(m) \/ PromoteAnswer(m) \/ SendAnswer(m)
    \/ PickAnswer(m) \/ AccountAnswer(m) \/ SyncAnswer(m)

Next ==
    \/ Administrator \/ Elsewhere \/ Expire
    \/ \E m \in BagToSet(net) : Serve(m) \/ Fail(m) \/ Handler(m)

Spec == Init /\ [][Next]_vars

-----------------------------------------------------------------------------
(* Properties.                                                             *)

Settled(r) == r \notin crossed \cup AboutAny(net)

\* When the answers about a row are in, the page lists the row as the database
\* has it, its scout's campaign with it, and leaves out only what the filter
\* leaves out; unless two of the requests about it were in flight at a time, an
\* answer was lost, or somebody else changed it.
\* (app.js refreshScoutRow, loadScouts)
RowsSettle ==
    page.view = "app" /\ page.entries # None /\ ~page.error =>
        \A r \in Row : Settled(r) =>
            \/ page.entries[r] = View(r)
            \/ page.entries[r] = None /\ ~Matches(r, page.filter)

\* A row that is promoted goes to the campaign that the dialog named, or to none
\* if it named none, under the same conditions.
\* (app.js promoteModal "Where in Deal Studio they'll land. Said before the click";
\* the comment on loadScouts in the handler of the campaign picker)
SentWhereNamed ==
    [][\A m \in BagToSet(net) :
          /\ m.kind = "promote" /\ Due(m) /\ rows[m.row] # None /\ m.row \notin crossed
          /\ rows'[m.row] # None /\ rows'[m.row].sent # rows[m.row].sent
          => rows'[m.row].sent = m.value]_vars
=============================================================================
