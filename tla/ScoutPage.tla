------------------------------ MODULE ScoutPage ------------------------------
(***************************************************************************)
(* The scout's sheet (public/scout.js), one browser tab: sign-in, the rows *)
(* with their cells, the scout's Instagram handle, and the live sync that  *)
(* polls for what an admin decided.  One action is one event handler up to *)
(* its fetch, the server's answer to one request, or the handler of one    *)
(* answer; answers come in any order.                                      *)
(*                                                                         *)
(* What the tab holds (rows) and what it shows (shown) are kept apart: a   *)
(* render copies the one to the other and takes the focus and what is      *)
(* being typed away, in a cell of the table and in the form for the handle *)
(* above it.  A row is its id and its verdict (qualification, notes,       *)
(* promotion); the scout's own columns, which no decision of the page      *)
(* reads, what loadMe shows of the handle, and messages are left out:      *)
(* their coming and going is a render, which may happen at any moment.     *)
(***************************************************************************)
EXTENDS Naturals, Sequences, FiniteSets, Bags

CONSTANTS
    Verdict,
    Unreviewed,   \* the verdict of a new row
    MaxRows,      \* bound: rows ever on the sheet
    MaxEvents,    \* bound: what the scout clicks, others change, and fails, together
    MaxPolls,     \* bound: polls in flight at once
    Handle,       \* the field of the form for the handle, outside the table
    None

Row == 1 .. MaxRows     \* ids, in the order the rows are created
Kind == {"session", "login", "logout", "rows", "poll", "add", "delete", "save", "ig"}
Reply == {"ok", "more", "none", "admin", "error", "401"}

ASSUME VerdictAssumption == Unreviewed \in Verdict
ASSUME NoneAssumption == None \notin Row /\ None \notin Reply /\ Handle \notin Row \cup {None}
ASSUME BoundAssumption == {MaxRows, MaxEvents, MaxPolls} \subseteq Nat

VARIABLES
    page,     \* state, and what the document shows
    net,      \* the requests in flight, a bag
    db,       \* the scout's rows in scout_entries, by row number
    last,     \* the id given last
    session,  \* the cookie is a scout's and good
    events

vars == <<page, net, db, last, session, events>>
server == <<db, last, session>>

Entry == [id : Row, verdict : Verdict]

Page == [view : {"loading", "login", "sheet", "left"},
         rows : Seq(Entry), shown : Seq(Entry),
         cell : Row \cup {Handle, None},   \* the row whose field has the focus, or the form
         draft : BOOLEAN,          \* typed into a cell, and not sent
         form : BOOLEAN,           \* igEditing
         text : BOOLEAN,           \* typed into the form, and not sent
         hidden : BOOLEAN,         \* document.hidden
         timer : BOOLEAN, adding : BOOLEAN, igSaving : BOOLEAN,
         loggingIn : BOOLEAN, loadError : BOOLEAN]

\* `link`: the cell saved is the link; `entry`, `list`: the rows of an answer.
Request(kind, id) == [kind |-> kind, id |-> id, link |-> FALSE, answer |-> None,
                      entry |-> None, list |-> <<>>]

Message == [kind : Kind, id : Row \cup {None}, link : BOOLEAN, answer : Reply \cup {None},
            entry : Entry \cup {None}, list : Seq(Entry)]

InFlight(kind, queue) == {m \in BagToSet(queue) : m.kind = kind}
Sent(kind) == BagCardinality([m \in InFlight(kind, net) |-> net[m]])

\* One request of the kind is in flight, once.
Alone(kind, queue) ==
    \E m \in InFlight(kind, queue) : InFlight(kind, queue) = {m} /\ queue[m] = 1
Awaits(flag, kind, queue) == IF flag THEN Alone(kind, queue) ELSE InFlight(kind, queue) = {}

Ids(rows) == [i \in DOMAIN rows |-> rows[i].id]

\* Types; and what the buttons say is so: one request is in flight for the one
\* that waits, an add and a handle are never sent twice at a time, the sheet on the
\* screen is kept in sync, and its rows are the rows held, if not their verdicts.
TypeOK ==
    /\ page \in Page
    /\ IsABag(net) /\ BagToSet(net) \subseteq Message
    /\ db \in Seq(Entry) /\ last \in 0 .. MaxRows
    /\ session \in BOOLEAN
    /\ events \in 0 .. MaxEvents
    /\ page.shown # <<>> => Ids(page.shown) = Ids(page.rows)
    /\ page.view # "left" =>
          /\ Awaits(page.adding, "add", net)
          /\ Awaits(page.loggingIn, "login", net)
          /\ InFlight("ig", net) # {} => page.igSaving /\ Alone("ig", net)
          /\ page.timer = (page.view = "sheet")

\* boot
Init ==
    /\ page = [view |-> "loading", rows |-> <<>>, shown |-> <<>>, cell |-> None,
               draft |-> FALSE, form |-> FALSE, text |-> FALSE, hidden |-> FALSE,
               timer |-> FALSE, adding |-> FALSE, igSaving |-> FALSE, loggingIn |-> FALSE,
               loadError |-> FALSE]
    /\ net = SetToBag({Request("session", None)})
    /\ db = IF MaxRows = 0 THEN <<>> ELSE <<[id |-> 1, verdict |-> Unreviewed]>>
    /\ last = Len(db)
    /\ session = TRUE
    /\ events = 0

-----------------------------------------------------------------------------
(* The document.                                                           *)

\* render: the innerHTML of the page is written anew.
Render(p) ==
    [p EXCEPT !.shown = IF p.view = "sheet" /\ ~p.loadError THEN p.rows ELSE <<>>,
              !.cell = None, !.draft = FALSE, !.text = FALSE]

\* sheetHasFocus looks no further than the table.
SheetHasFocus(p) == p.cell \in Row

\* The n-th of a set of numbers, by size; the rows but those with an id, in their order.
Nth(S, n) == CHOOSE i \in S : Cardinality({k \in S : k <= i}) = n
Without(rows, id) ==
    LET others == {i \in DOMAIN rows : rows[i].id # id} IN
    [n \in 1 .. Cardinality(others) |-> rows[Nth(others, n)]]

\* The row with e's id becomes e, wherever it is.
Put(rows, e) == [i \in DOMAIN rows |-> IF rows[i].id = e.id THEN e ELSE rows[i]]

\* The focus goes to the link of the last row shown.
FocusLast(p) == IF p.shown = <<>> THEN p ELSE [p EXCEPT !.cell = p.shown[Len(p.shown)].id]

-----------------------------------------------------------------------------
(* What the scout does.                                                    *)

Event == events < MaxEvents /\ events' = events + 1
One(m) == SetToBag({m})
Send(m) == net' = net (+) One(m)

\* A click anywhere first takes the focus from a cell, which sends its draft.
OnSheet == page.view = "sheet" /\ ~page.draft
OnRow(id) == OnSheet /\ \E i \in DOMAIN page.shown : page.shown[i].id = id

\* A field gets the focus, is typed into, or is left again unchanged.
UseCell ==
    /\ \/ \E id \in Row : OnRow(id) /\ page' = [page EXCEPT !.cell = id]
       \/ page.cell \in Row /\ ~page.draft /\ page' = [page EXCEPT !.draft = TRUE]
       \/ page.cell # None /\ ~page.draft /\ page' = [page EXCEPT !.cell = None]
    /\ UNCHANGED <<net, server, events>>

\* A cell is saved when it is left (or with Enter, which keeps the focus).
Change ==
    /\ page.draft
    /\ Event
    /\ \E link \in BOOLEAN : Send([Request("save", page.cell) EXCEPT !.link = link])
    /\ \E cell \in {page.cell, None} : page' = [page EXCEPT !.draft = FALSE, !.cell = cell]
    /\ UNCHANGED server

\* An age out of range is refused; an empty age or gender is not sent.
ChangeUnsent ==
    /\ page.draft
    /\ page' \in {Render(page), [page EXCEPT !.draft = FALSE, !.cell = None]}
    /\ UNCHANGED <<net, server, events>>

Add ==
    /\ OnSheet /\ ~page.adding
    /\ Event
    /\ page' = Render([page EXCEPT !.adding = TRUE])
    /\ Send(Request("add", None))
    /\ UNCHANGED server

\* The button, which is in the table, keeps the focus.
Delete(id) ==
    /\ OnRow(id)
    /\ Event
    /\ page' = [page EXCEPT !.cell = id]
    /\ Send(Request("delete", id))
    /\ UNCHANGED server

\* The form is opened or cancelled; its field gets the focus, or is typed into:
\* what is typed stays there, unsent, when the focus goes elsewhere.
UseForm ==
    /\ OnSheet
    /\ \/ /\ IF page.form THEN UNCHANGED events ELSE Event
          /\ page' = Render([page EXCEPT !.form = ~@])
       \/ page.form /\ page' = [page EXCEPT !.cell = Handle] /\ UNCHANGED events
       \/ page.cell = Handle /\ page' = [page EXCEPT !.text = TRUE] /\ UNCHANGED events
    /\ UNCHANGED <<net, server>>

\* The field's value is sent, and the form written anew.
IgSave ==
    /\ OnSheet /\ page.form /\ ~page.igSaving
    /\ Event
    /\ page' = Render([page EXCEPT !.igSaving = TRUE])
    /\ Send(Request("ig", None))
    /\ UNCHANGED server

\* The sheet stays until the log-out is answered, or fails.
Logout ==
    /\ OnSheet
    /\ Event
    /\ page' = [page EXCEPT !.cell = None]
    /\ Send(Request("logout", None))
    /\ UNCHANGED server

Login ==
    /\ page.view = "login" /\ ~page.loggingIn
    /\ Event
    /\ page' = Render([page EXCEPT !.loggingIn = TRUE])
    /\ Send(Request("login", None))
    /\ UNCHANGED server

\* The theme, what loadMe read, the end of a toast: at any moment.
Repaint ==
    /\ page.view # "left"
    /\ page' = Render(page)
    /\ UNCHANGED <<net, server, events>>

-----------------------------------------------------------------------------
(* The live sync.                                                          *)

Polling(p) == p.view = "sheet" /\ ~p.hidden

Poll ==
    /\ page.timer /\ Polling(page)
    /\ Sent("poll") < MaxPolls
    /\ Send(Request("poll", None))
    /\ UNCHANGED <<page, server, events>>

\* The tab is hidden, or comes back: that polls at once.
Visibility ==
    LET p == [page EXCEPT !.hidden = ~@] IN
    /\ page.view # "left"
    /\ IF page.hidden THEN UNCHANGED events ELSE Event
    /\ page' = p
    /\ IF Polling(p) /\ Sent("poll") < MaxPolls THEN Send(Request("poll", None)) ELSE UNCHANGED net
    /\ UNCHANGED server

\* Mutant of ApplyLiveRows: the row is taken over, the cells not patched.
ApplyUnpainted(p, list) ==
    CASE p.view # "sheet" -> p
      [] p.view = "sheet" /\ Ids(list) # Ids(p.rows) ->
           IF SheetHasFocus(p) THEN p ELSE Render([p EXCEPT !.rows = list])
      [] p.view = "sheet" /\ Ids(list) = Ids(p.rows) -> [p EXCEPT !.rows = list]

\* Mutant of ApplyLiveRows: rows of another shape wait for the same shape.
ApplySameShape(p, list) ==
    IF p.view = "sheet" /\ Ids(list) = Ids(p.rows)
    THEN [p EXCEPT !.rows = list,
                   !.shown = [i \in DOMAIN @ |->
                                IF p.rows[i] = list[i] THEN @[i] ELSE list[i]]]
    ELSE p

\* applyLiveRows: other rows are a render, which waits while a field of the table
\* has the focus, not for the form; of the same rows, those with a new verdict are
\* patched one by one.
ApplyLiveRows(p, list) ==
    CASE p.view # "sheet" -> p
      [] p.view = "sheet" /\ Ids(list) # Ids(p.rows) ->
           IF SheetHasFocus(p) THEN p ELSE Render([p EXCEPT !.rows = list])
      [] p.view = "sheet" /\ Ids(list) = Ids(p.rows) ->
           [p EXCEPT !.rows = list,
                     !.shown = [i \in DOMAIN @ |->
                                  IF p.rows[i] = list[i] THEN @[i] ELSE list[i]]]

-----------------------------------------------------------------------------
(* The server, and what else changes the sheet.                            *)

Due(m) == BagIn(m, net) /\ m.answer = None
Answer(m, with) == net' = (net (-) One(m)) (+) One(with)

Has(id) == \E i \in DOMAIN db : db[i].id = id
EntryOf(id) == db[CHOOSE i \in DOMAIN db : db[i].id = id]
NewRow == [id |-> last + 1, verdict |-> Unreviewed]
Append1 == last < MaxRows /\ db' = Append(db, NewRow) /\ last' = last + 1

\* The requests that read.
ServeRead(m) ==
    /\ Due(m) /\ m.kind \in {"session", "rows", "poll"}
    /\ CASE m.kind = "session" ->
              \E a \in IF session THEN {"ok"} ELSE {"none", "admin"} :
                 Answer(m, [m EXCEPT !.answer = a])
         [] m.kind # "session" /\ session -> Answer(m, [m EXCEPT !.answer = "ok", !.list = db])
         [] m.kind # "session" /\ ~session -> Answer(m, [m EXCEPT !.answer = "401"])
    /\ UNCHANGED <<page, server, events>>

\* Sign-in and sign-out change the cookie; a sign-in may be refused.
ServeAuth(m) ==
    /\ Due(m) /\ m.kind \in {"login", "logout"}
    /\ \E a \in IF m.kind = "login" THEN {"ok", "admin", "error"} ELSE {"ok"} :
          /\ Answer(m, [m EXCEPT !.answer = a])
          /\ session' = ((m.kind = "login" /\ a = "ok") \/ (a = "error" /\ session))
    /\ UNCHANGED <<page, db, last, events>>

\* The requests that write.  "more": the save answers with a warning, the handle
\* brings links that were sent before it was known.
ServeWrite(m) ==
    /\ Due(m) /\ m.kind \in {"add", "delete", "save", "ig"} /\ session
    /\ \/ /\ m.kind = "add"
          /\ Append1
          /\ Answer(m, [m EXCEPT !.answer = "ok", !.entry = NewRow])
       \/ /\ m.kind = "delete" /\ Has(m.id)
          /\ db' = Without(db, m.id)
          /\ Answer(m, [m EXCEPT !.answer = "ok"])
          /\ UNCHANGED last
       \/ /\ m.kind = "save" /\ Has(m.id)
          /\ \E a \in {"ok", "more"} : Answer(m, [m EXCEPT !.answer = a, !.entry = EntryOf(m.id)])
          /\ UNCHANGED <<db, last>>
       \/ /\ m.kind = "ig"
          /\ \/ Answer(m, [m EXCEPT !.answer = "ok"]) /\ UNCHANGED <<db, last>>
             \/ Answer(m, [m EXCEPT !.answer = "more"]) /\ Append1
    /\ UNCHANGED <<page, session, events>>

\* No session, no row any more, or no row left to give (a bound).
Refuse(m) ==
    /\ Due(m) /\ m.kind \in {"add", "delete", "save", "ig"}
    /\ \/ ~session /\ Answer(m, [m EXCEPT !.answer = "401"])
       \/ /\ session
          /\ \/ m.kind \in {"delete", "save"} /\ ~Has(m.id)
             \/ m.kind = "add" /\ last = MaxRows
          /\ Answer(m, [m EXCEPT !.answer = "error"])
    /\ UNCHANGED <<page, server, events>>

\* The request does not arrive, or is refused.
Fail(m) ==
    /\ Due(m)
    /\ Event
    /\ Answer(m, [m EXCEPT !.answer = "error"])
    /\ UNCHANGED <<page, server>>

\* An admin reviews or deletes a row, a link sent as a message is filed.
Elsewhere ==
    /\ Event
    /\ \/ /\ \E i \in DOMAIN db, v \in Verdict :
                db[i].verdict # v /\ db' = [db EXCEPT ![i].verdict = v]
          /\ UNCHANGED last
       \/ \E i \in DOMAIN db : db' = Without(db, db[i].id) /\ UNCHANGED last
       \/ Append1
    /\ UNCHANGED <<page, net, session>>

Expire ==
    /\ session
    /\ Event
    /\ session' = FALSE
    /\ UNCHANGED <<page, net, db, last>>

-----------------------------------------------------------------------------
(* The answers.                                                            *)

Answered(m, kinds) == BagIn(m, net) /\ m.kind \in kinds /\ m.answer # None
Rest(m) == net (-) One(m)

\* stopLiveSync, and the sign-in with an empty sheet.
SignedOut(p) == Render([p EXCEPT !.timer = FALSE, !.view = "login", !.rows = <<>>])

\* The sheet, its rows and the live sync; an admin is sent to the console.
Enter(m) ==
    IF m.answer = "admin"
    THEN page' = Render([page EXCEPT !.view = "left"]) /\ net' = EmptyBag
    ELSE /\ page' = Render([page EXCEPT !.view = "sheet", !.timer = TRUE, !.loggingIn = FALSE])
         /\ net' = Rest(m) (+) One(Request("rows", None))

EnterAnswer(m) ==
    /\ Answered(m, {"session", "login"})
    /\ IF m.answer \in {"ok", "admin"}
       THEN Enter(m)
       ELSE page' = Render([page EXCEPT !.view = "login", !.loggingIn = FALSE]) /\ net' = Rest(m)
    /\ UNCHANGED <<server, events>>

LogoutAnswer(m) ==
    /\ Answered(m, {"logout"})
    /\ page' = SignedOut(page)
    /\ net' = Rest(m)
    /\ UNCHANGED <<server, events>>

\* loadRows: only these rows say that they failed.
LoadAnswer(m) ==
    /\ Answered(m, {"rows"})
    /\ page' = CASE m.answer = "401" -> SignedOut(page)
                 [] m.answer = "ok" -> Render([page EXCEPT !.rows = m.list, !.loadError = FALSE])
                 [] m.answer = "error" -> Render([page EXCEPT !.loadError = TRUE])
    /\ net' = Rest(m)
    /\ UNCHANGED <<server, events>>

\* A poll that fails changes nothing.
PollAnswer(m) ==
    /\ Answered(m, {"poll"})
    /\ page' = CASE m.answer = "401" -> SignedOut(page)
                 [] m.answer = "ok" -> ApplyLiveRows(page, m.list)
                 [] m.answer = "error" -> page
    /\ net' = Rest(m)
    /\ UNCHANGED <<server, events>>

\* Mutant of AddAnswer: a request that fails leaves the button waiting.
AddAnswerStuck(m) ==
    LET p == [page EXCEPT !.adding = FALSE] IN
    /\ Answered(m, {"add"})
    /\ page' = CASE m.answer = "ok" -> FocusLast(Render([p EXCEPT !.rows = Append(@, m.entry)]))
                 [] m.answer = "401" -> SignedOut(page)
                 [] m.answer = "error" -> Render(p)
    /\ net' = Rest(m)
    /\ UNCHANGED <<server, events>>

AddAnswer(m) ==
    LET p == [page EXCEPT !.adding = FALSE] IN
    /\ Answered(m, {"add"})
    /\ page' = CASE m.answer = "ok" -> FocusLast(Render([p EXCEPT !.rows = Append(@, m.entry)]))
                 [] m.answer = "401" -> SignedOut(p)
                 [] m.answer = "error" -> Render(p)
    /\ net' = Rest(m)
    /\ UNCHANGED <<server, events>>

DeleteAnswer(m) ==
    /\ Answered(m, {"delete"})
    /\ page' = CASE m.answer = "401" -> SignedOut(page)
                 [] m.answer = "ok" -> Render([page EXCEPT !.rows = Without(@, m.id)])
                 [] m.answer = "error" -> Render(page)
    /\ net' = Rest(m)
    /\ UNCHANGED <<server, events>>

\* The row of the answer is held, verdict and all, and only shown with a
\* warning or a link.
SaveAnswer(m) ==
    LET p == [page EXCEPT !.rows = Put(@, m.entry)] IN
    /\ Answered(m, {"save"})
    /\ page' = CASE m.answer = "401" -> SignedOut(page)
                 [] m.answer = "more" -> Render(p)
                 [] m.answer = "ok" -> IF m.link THEN Render(p) ELSE p
                 [] m.answer = "error" -> Render(page)
    /\ net' = Rest(m)
    /\ UNCHANGED <<server, events>>

\* The form closes, but after an error; links that were claimed are loaded.
\* After a 401 it stays open and busy.
IgAnswer(m) ==
    LET p == [page EXCEPT !.igSaving = FALSE] IN
    /\ Answered(m, {"ig"})
    /\ page' = CASE m.answer = "401" -> SignedOut(page)
                 [] m.answer = "error" -> Render(p)
                 [] m.answer \in {"ok", "more"} -> Render([p EXCEPT !.form = FALSE])
    /\ net' = IF m.answer = "more" THEN Rest(m) (+) One(Request("rows", None)) ELSE Rest(m)
    /\ UNCHANGED <<server, events>>

-----------------------------------------------------------------------------

Scout ==
    \/ UseCell \/ Change \/ ChangeUnsent \/ Add \/ (\E id \in Row : Delete(id))
    \/ UseForm \/ IgSave \/ Logout \/ Login \/ Repaint \/ Visibility

Serve(m) == ServeRead(m) \/ ServeAuth(m) \/ ServeWrite(m) \/ Refuse(m)

Handler(m) ==
    \/ EnterAnswer(m) \/ LogoutAnswer(m) \/ LoadAnswer(m) \/ PollAnswer(m)
    \/ AddAnswer(m) \/ DeleteAnswer(m) \/ SaveAnswer(m) \/ IgAnswer(m)

Next ==
    \/ Scout \/ Poll \/ Elsewhere \/ Expire
    \/ \E m \in BagToSet(net) : Serve(m) \/ Fail(m) \/ Handler(m)

\* The timer fires, requests are answered and answers handled.
Fairness ==
    /\ WF_vars(Poll)
    /\ WF_vars(\E m \in BagToSet(net) : Serve(m))
    /\ WF_vars(\E m \in BagToSet(net) : Handler(m))

Spec == Init /\ [][Next]_vars /\ Fairness

-----------------------------------------------------------------------------
(* Properties.                                                             *)

\* The rows whose verdict is held and not shown.
Unseen(p) == {i \in DOMAIN p.shown : p.shown[i] # p.rows[i]}

\* An answer to a poll never takes the focus from a cell or away what is typed
\* into it, nor leaves a row on the screen behind what it brought, unless the
\* session is over.  The form for the handle is only written anew, with the focus
\* and what is typed there lost, when rows came or went and no cell has the focus.
\* (scout.js live sync, "this must never disturb someone mid-edit")
LiveSync ==
    [][\A m \in InFlight("poll", net) :
          m.answer # "401" /\ PollAnswer(m) =>
             /\ page'.draft = page.draft
             /\ \/ page'.cell = page.cell /\ page'.text = page.text
                \/ ~SheetHasFocus(page) /\ Ids(m.list) # Ids(page.rows)
             /\ Unseen(page') \subseteq Unseen(page)]_vars

\* No cell is worked on and the tab is on the screen.
Watching == page.view = "sheet" /\ ~page.hidden /\ ~SheetHasFocus(page)

\* A sheet that is looked at comes to hold the rows of the database, with their
\* verdicts, whatever answers were lost or overtaken before.
\* (scout.js pollLive, applyLiveRows)
SheetConverges == <>[]Watching => <>[](page.rows = db)
=============================================================================
