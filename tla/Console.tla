------------------------------ MODULE Console ------------------------------
(***************************************************************************)
(* The administrators' console (public/app.js), one browser tab: the       *)
(* roster, a creator's profile with its two edit cards and its signed      *)
(* contracts, the delete dialog, the command palette, sign-in, and the     *)
(* address bar.  One action is one event handler up to its fetch, the      *)
(* server's answer to one request, or the handler of one answer; answers   *)
(* come in any order.                                                      *)
(*                                                                         *)
(* Data is the identity of the creator a piece of state belongs to; the    *)
(* roster is how often it lists each.  The tabs of a profile, the order    *)
(* and the filters of the list (RosterView), the scouts page's own data    *)
(* (ReviewPage) and the wording of messages are left out.                  *)
(***************************************************************************)
EXTENDS Naturals, FiniteSets, Bags, BagsExt

CONSTANTS
    Creator,
    Card,         \* the edit cards of a profile: contact and payment
    RosterLimit,  \* roster(): the creators a list takes at most (1000)
    MaxClicks,    \* bound: requests the administrator causes
    MaxFaults,    \* bound: requests that fail or whose answer is lost
    MaxSessions,  \* bound: sessions that end
    None

Empty == "empty"       \* contractsFull = []
Kind == {"session", "login", "roster", "profile", "contracts", "details", "delete"}
Reply == {"ok", "error", "401"}

ASSUME NoneAssumption ==
    /\ None \notin Creator \cup Card \cup Reply \cup {Empty, "roster", "scouts"}
    /\ None \notin [Creator -> Nat]
ASSUME LimitAssumption == RosterLimit \in Nat
ASSUME CreatorAssumption == Creator \cap {"roster", "scouts"} = {}
ASSUME BoundAssumption == MaxClicks \in Nat /\ MaxFaults \in Nat /\ MaxSessions \in Nat

VARIABLES
    ui,       \* state, and the address bar
    roster,   \* state.roster.creators, None while it loads
    net,      \* the requests in flight, a bag
    db,       \* the creators there are
    session,  \* the cookie is good
    clicks, faults, sessions,
    mixed,    \* history: the profile was opened while an answer for another was due
    ghosts,   \* history: creators whose delete overlapped a load of the roster,
              \* or whose delete was done and its answer lost
    cut       \* history: creators that a list of the roster left out

vars == <<ui, roster, net, db, session, clicks, faults, sessions, mixed, ghosts, cut>>
server == <<db, session, sessions, cut>>

Ui == [view : {"loading", "login", "app"}, page : {"roster", "scouts"},
       url : {"roster", "scouts"} \cup Creator,
       selected : Creator \cup {None}, profile : Creator \cup {None},
       profileLoading : BOOLEAN, full : Creator \cup {Empty, None},
       contractsLoading : BOOLEAN, modal : BOOLEAN, editing : SUBSET Card,
       saving : BOOLEAN, deleteOpen : BOOLEAN, typed : BOOLEAN, deleting : BOOLEAN,
       loggingIn : BOOLEAN, rosterError : BOOLEAN]

\* `row`: the delete took a row from the list; `list`: the creators an answer lists.
Request(kind, id) == [kind |-> kind, id |-> id, card |-> None, row |-> FALSE,
                      answer |-> None, list |-> {}]

Message == [kind : Kind, id : Creator \cup {None}, card : Card \cup {None}, row : BOOLEAN,
            answer : Reply \cup {None}, list : SUBSET Creator]

\* Types.
TypeOK ==
    /\ ui \in Ui
    /\ roster \in [Creator -> Nat] \cup {None}
    /\ IsABag(net) /\ BagToSet(net) \subseteq Message
    /\ db \subseteq Creator
    /\ session \in BOOLEAN /\ mixed \in BOOLEAN
    /\ ghosts \subseteq Creator /\ cut \subseteq Creator
    /\ clicks \in Nat /\ faults \in Nat /\ sessions \in Nat

\* boot: the page asks for its session, whatever address it was opened at.
Init ==
    /\ ui \in {[view |-> "loading", page |-> "roster", url |-> u, selected |-> None,
                profile |-> None, profileLoading |-> FALSE, full |-> None,
                contractsLoading |-> FALSE, modal |-> FALSE, editing |-> {},
                saving |-> FALSE, deleteOpen |-> FALSE, typed |-> FALSE,
                deleting |-> FALSE, loggingIn |-> FALSE, rosterError |-> FALSE]
                : u \in {"roster", "scouts"} \cup Creator}
    /\ roster = None
    /\ net = SetToBag({Request("session", None)})
    /\ db = Creator
    /\ session \in BOOLEAN
    /\ clicks = 0 /\ faults = 0 /\ sessions = 0
    /\ mixed = FALSE /\ ghosts = {} /\ cut = {}

-----------------------------------------------------------------------------
(* Addresses.                                                              *)

HashFor(u) ==
    IF u.page = "scouts" THEN "scouts" ELSE IF u.selected = None THEN "roster" ELSE u.selected

\* syncUrlToState
Sync(u) == IF u.view = "app" THEN [u EXCEPT !.url = HashFor(u)] ELSE u

\* parseHash
Route(u, url) ==
    [u EXCEPT !.selected = IF url \in Creator THEN url ELSE None,
              !.page = IF url = "scouts" THEN "scouts" ELSE "roster"]

-----------------------------------------------------------------------------
(* The fetches.                                                            *)

Click == clicks < MaxClicks /\ clicks' = clicks + 1
InFlight(kinds, queue) == {m \in BagToSet(queue) : m.kind \in kinds}
Pending(kinds) == InFlight(kinds, net)
Send(m) == net' = BagAdd(net, m)

DueForOther(id, queue) ==
    \E m \in InFlight({"profile", "details", "contracts"}, queue) : m.id # id

\* Mutant of Loading: the profile on the screen stays until the next one comes.
LoadingOver(u) ==
    [u EXCEPT !.profileLoading = TRUE, !.full = None,
              !.contractsLoading = FALSE, !.modal = FALSE]

\* loadProfile, until it waits.
Loading(u) ==
    [u EXCEPT !.profile = None, !.profileLoading = TRUE, !.full = None,
              !.contractsLoading = FALSE, !.modal = FALSE]

LoadProfile(u, id, queue) ==
    /\ ui' = Loading(u)
    /\ net' = BagAdd(queue, Request("profile", id))
    /\ mixed' = DueForOther(id, queue)

-----------------------------------------------------------------------------
(* What the administrator does.                                            *)

Rows(list, id) == IF list = None THEN 0 ELSE list[id]
OnProfile == ui.view = "app" /\ ui.page = "roster" /\ ui.selected # None

\* The dialogs of a profile page, which cover everything else.
ContractShown == OnProfile /\ ui.modal /\ ui.full \notin {None, Empty}
Uncovered == ~(OnProfile /\ ui.deleteOpen) /\ ~ContractShown

\* The cards and buttons of a profile.
ProfileShown == OnProfile /\ ui.profile # None /\ ~ui.profileLoading /\ Uncovered
LinksShown == ui.view = "app" /\ Uncovered
RowShown(id) == ui.view = "app" /\ Rows(roster, id) > 0
LoginEnabled == ui.view = "login" /\ ~ui.loggingIn
SaveEnabled(card) == ProfileShown /\ card \in ui.editing /\ ~ui.saving

\* A row of the roster, or of the palette, which opens over any page.
Open(id) ==
    /\ RowShown(id)
    /\ Click
    /\ LoadProfile(Sync([ui EXCEPT !.selected = id]), id, net)
    /\ UNCHANGED <<roster, server, faults, ghosts>>

\* "Back to roster", on every page.
Back ==
    /\ LinksShown
    /\ ui' = Sync([ui EXCEPT !.selected = None, !.profile = None])
    /\ UNCHANGED <<roster, net, server, clicks, faults, mixed, ghosts>>

\* The roster and the scouts links keep the profile that was loaded.
GoTo(page) ==
    /\ LinksShown
    /\ ui' = Sync([ui EXCEPT !.selected = None, !.page = page])
    /\ UNCHANGED <<roster, net, server, clicks, faults, mixed, ghosts>>

\* Back, forward or a typed address: applyHashToState.  An address that only
\* differs in the tab shown counts as changed.
Navigate(target) ==
    LET next == Route([ui EXCEPT !.url = target], target)
        reset == [next EXCEPT !.editing = {}, !.deleteOpen = FALSE, !.typed = FALSE] IN
    /\ ui.view = "app"
    /\ target \in Creator \/ target # HashFor(ui)
    /\ Click
    /\ \/ /\ next.page = "scouts" /\ ui.page # "scouts"
          /\ ui' = next
          /\ UNCHANGED <<net, mixed>>
       \/ /\ next.page = "scouts" => ui.page = "scouts"
          /\ IF next.selected \notin {None, ui.profile}
             THEN LoadProfile(reset, target, net)
             ELSE /\ ui' = IF next.selected = None THEN [reset EXCEPT !.profile = None] ELSE reset
                  /\ UNCHANGED <<net, mixed>>
    /\ UNCHANGED <<roster, server, faults, ghosts>>

\* An address typed before signing in waits for the sign-in.
NavigateEarly(target) ==
    /\ ui.view # "app" /\ target # ui.url
    /\ Click
    /\ ui' = [ui EXCEPT !.url = target]
    /\ UNCHANGED <<roster, net, server, faults, mixed, ghosts>>

\* Edit, Cancel (not while saving), another tab.
EditCards ==
    /\ ProfileShown
    /\ \/ \E c \in Card : ui' = [ui EXCEPT !.editing = @ \cup {c}]
       \/ \E c \in ui.editing : ~ui.saving /\ ui' = [ui EXCEPT !.editing = @ \ {c}]
       \/ ui' = [ui EXCEPT !.editing = {}]
    /\ UNCHANGED <<roster, net, server, clicks, faults, mixed, ghosts>>

\* saveContact, savePayment: an edit that changes nothing is not sent
\* (EditCards), any other goes to the creator that is selected.
Save(card) ==
    /\ SaveEnabled(card)
    /\ Click
    /\ ui' = [ui EXCEPT !.saving = TRUE]
    /\ Send([Request("details", ui.selected) EXCEPT !.card = card])
    /\ UNCHANGED <<roster, server, faults, mixed, ghosts>>

\* loadContractsFull
ViewContract ==
    /\ ProfileShown
    /\ IF ui.full # None
       THEN ui' = Sync([ui EXCEPT !.modal = TRUE]) /\ UNCHANGED <<net, clicks>>
       ELSE /\ ~ui.contractsLoading
            /\ Click
            /\ ui' = [ui EXCEPT !.contractsLoading = TRUE]
            /\ Send(Request("contracts", ui.selected))
    /\ UNCHANGED <<roster, server, faults, mixed, ghosts>>

CloseContract ==
    /\ ContractShown
    /\ ui' = Sync([ui EXCEPT !.modal = FALSE])
    /\ UNCHANGED <<roster, net, server, clicks, faults, mixed, ghosts>>

\* The button of the danger zone; the dialog starts empty.
OpenDelete ==
    /\ ProfileShown
    /\ ui' = Sync([ui EXCEPT !.deleteOpen = TRUE, !.typed = FALSE])
    /\ UNCHANGED <<roster, net, server, clicks, faults, mixed, ghosts>>

\* DELETE is typed into the dialog, or the dialog closed: neither while a
\* delete is in flight.
UseDialog ==
    /\ ui.deleteOpen /\ ~ui.deleting
    /\ \/ OnProfile /\ ui' = [ui EXCEPT !.typed = TRUE]
       \/ ui' = Sync([ui EXCEPT !.deleteOpen = FALSE, !.typed = FALSE])
    /\ UNCHANGED <<roster, net, server, clicks, faults, mixed, ghosts>>

ConfirmEnabled == OnProfile /\ ui.deleteOpen /\ ui.typed /\ ~ui.deleting

\* Mutant of ConfirmDelete: the row stays in the list until a reload.
ConfirmDeleteLater ==
    /\ ConfirmEnabled
    /\ Click
    /\ ui' = Sync([ui EXCEPT !.deleting = TRUE, !.deleteOpen = FALSE, !.typed = FALSE,
                             !.profile = None, !.selected = None, !.editing = {},
                             !.full = None])
    /\ Send(Request("delete", ui.selected))
    /\ ghosts' = IF Pending({"roster"}) # {} THEN ghosts \cup {ui.selected} ELSE ghosts
    /\ UNCHANGED <<roster, server, faults, mixed>>

\* Mutant of ConfirmDelete: the row is taken out without looking whether it is there.
ConfirmDeleteBlind ==
    /\ ConfirmEnabled
    /\ Click
    /\ roster' = IF roster = None THEN roster ELSE [roster EXCEPT ![ui.selected] = @ - 1]
    /\ ui' = Sync([ui EXCEPT !.deleting = TRUE, !.deleteOpen = FALSE, !.typed = FALSE,
                             !.profile = None, !.selected = None, !.editing = {},
                             !.full = None])
    /\ Send([Request("delete", ui.selected) EXCEPT !.row = TRUE])
    /\ UNCHANGED <<server, faults, mixed, ghosts>>

\* confirmDelete: the row goes at once, the request follows.
ConfirmDelete ==
    LET row == Rows(roster, ui.selected) > 0 IN
    /\ ConfirmEnabled
    /\ Click
    /\ roster' = IF row THEN [roster EXCEPT ![ui.selected] = @ - 1] ELSE roster
    /\ ui' = Sync([ui EXCEPT !.deleting = TRUE, !.deleteOpen = FALSE, !.typed = FALSE,
                             !.profile = None, !.selected = None, !.editing = {},
                             !.full = None])
    /\ Send([Request("delete", ui.selected) EXCEPT !.row = row])
    /\ ghosts' = IF Pending({"roster"}) # {} THEN ghosts \cup {ui.selected} ELSE ghosts
    /\ UNCHANGED <<server, faults, mixed>>

\* The log-out is not waited for, and may not arrive.
SignOut ==
    /\ LinksShown
    /\ sessions < MaxSessions /\ sessions' = sessions + 1
    /\ ui' = [ui EXCEPT !.view = "login", !.selected = None]
    /\ session' \in {session, FALSE}
    /\ UNCHANGED <<roster, net, db, clicks, faults, mixed, ghosts, cut>>

SignIn ==
    /\ LoginEnabled
    /\ Click
    /\ ui' = [ui EXCEPT !.loggingIn = TRUE]
    /\ Send(Request("login", None))
    /\ UNCHANGED <<roster, server, faults, mixed, ghosts>>

-----------------------------------------------------------------------------
(* The server, seen from the tab.                                          *)

Due(m) == BagIn(m, net) /\ m.answer = None
Answer(m, a, list) ==
    net' = BagAdd(BagRemove(net, m), [m EXCEPT !.answer = a, !.list = list])
Exists(m) == m.kind \in {"profile", "contracts", "details", "delete"} => m.id \in db

\* What roster() lists: all creators, or as many as it takes.
ListOf(all) ==
    IF Cardinality(all) <= RosterLimit THEN {all}
    ELSE {list \in SUBSET all : Cardinality(list) = RosterLimit}

\* An answer that changes nothing on the server.
Refuse(m, a) == Answer(m, a, {}) /\ UNCHANGED <<db, session, cut>>

ServeLogin(m) ==
    /\ m.kind = "login"
    /\ \/ session' = TRUE /\ Answer(m, "ok", {}) /\ UNCHANGED <<db, cut>>
       \/ Refuse(m, "error")   \* a wrong password

ServeSignedOut(m) ==
    /\ m.kind # "login" /\ ~session
    /\ Refuse(m, "401")

ServeRoster(m) ==
    /\ m.kind = "roster" /\ session
    /\ \E list \in ListOf(db) :
          /\ Answer(m, "ok", list)
          /\ cut' = cut \cup (db \ list)
    /\ UNCHANGED <<db, session>>

\* Requests about one creator, who is not found once deleted, and for the session.
ServeCreator(m) ==
    /\ m.kind \notin {"login", "roster"} /\ session
    /\ Answer(m, IF Exists(m) THEN "ok" ELSE "error", {})
    /\ db' = IF m.kind = "delete" THEN db \ {m.id} ELSE db
    /\ UNCHANGED <<session, cut>>

Serve(m) ==
    /\ Due(m)
    /\ ServeLogin(m) \/ ServeSignedOut(m) \/ ServeRoster(m) \/ ServeCreator(m)
    /\ UNCHANGED <<ui, roster, clicks, faults, sessions, mixed, ghosts>>

\* The request fails, or is served and its answer lost.
Fail(m) ==
    /\ Due(m)
    /\ faults < MaxFaults /\ faults' = faults + 1
    /\ Answer(m, "error", {})
    /\ \/ UNCHANGED <<db, ghosts>>
       \/ m.kind = "delete" /\ session /\ db' = db \ {m.id} /\ ghosts' = ghosts \cup {m.id}
    /\ UNCHANGED <<ui, roster, session, clicks, sessions, mixed, cut>>

Expire ==
    /\ session
    /\ sessions < MaxSessions /\ sessions' = sessions + 1
    /\ session' = FALSE
    /\ UNCHANGED <<ui, roster, net, db, clicks, faults, mixed, ghosts, cut>>

-----------------------------------------------------------------------------
(* The answers.                                                            *)

Answered(m, kind) == BagIn(m, net) /\ m.kind = kind /\ m.answer # None
Rest(m) == BagRemove(net, m)

\* The start of a signed-in page: the roster, and the profile of the address.
Enter(u, m) ==
    LET next == Route([u EXCEPT !.view = "app", !.loggingIn = FALSE, !.rosterError = FALSE], u.url)
        queue == BagAdd(Rest(m), Request("roster", None)) IN
    /\ roster' = None
    /\ ghosts' = ghosts \cup {d.id : d \in Pending({"delete"})}
    /\ IF next.selected = None
       THEN ui' = next /\ net' = queue /\ UNCHANGED mixed
       ELSE LoadProfile(next, next.selected, queue)

SessionAnswer(m) ==
    /\ Answered(m, "session")
    /\ IF m.answer = "ok"
       THEN Enter(ui, m)
       ELSE /\ ui' = [ui EXCEPT !.view = "login"]
            /\ net' = Rest(m)
            /\ UNCHANGED <<roster, mixed, ghosts>>
    /\ UNCHANGED <<server, clicks, faults>>

LoginAnswer(m) ==
    /\ Answered(m, "login")
    /\ IF m.answer = "ok"
       THEN Enter(ui, m)
       ELSE /\ ui' = [ui EXCEPT !.loggingIn = FALSE]
            /\ net' = Rest(m)
            /\ UNCHANGED <<roster, mixed, ghosts>>
    /\ UNCHANGED <<server, clicks, faults>>

RosterAnswer(m) ==
    /\ Answered(m, "roster")
    /\ CASE m.answer = "ok" -> roster' = [c \in Creator |-> IF c \in m.list THEN 1 ELSE 0] /\ UNCHANGED ui
         [] m.answer = "401" \/ (m.answer = "error" /\ ui.view = "login") ->
              ui' = [ui EXCEPT !.view = "login"] /\ UNCHANGED roster
         [] m.answer = "error" /\ ui.view # "login" ->
              ui' = [ui EXCEPT !.rosterError = TRUE] /\ roster' = [c \in Creator |-> 0]
    /\ net' = Rest(m)
    /\ UNCHANGED <<server, clicks, faults, mixed, ghosts>>

\* Every 401 but the one of a delete: back to the sign-in, nothing selected.
SignedOut(u) == [u EXCEPT !.view = "login", !.selected = None]

\* The answer is shown whichever creator is selected by now.
ProfileAnswer(m) ==
    LET a == m.answer
        u == [ui EXCEPT !.profileLoading = FALSE,
                        !.profile = IF a = "ok" THEN m.id ELSE None] IN
    /\ Answered(m, "profile")
    /\ ui' = IF a = "401" THEN SignedOut(u) ELSE u
    /\ net' = Rest(m)
    /\ UNCHANGED <<roster, server, clicks, faults, mixed, ghosts>>

\* The dialog opens on the contracts that came; a failure is kept as none.
ContractsAnswer(m) ==
    LET a == m.answer
        u == [ui EXCEPT !.contractsLoading = FALSE] IN
    /\ Answered(m, "contracts")
    /\ ui' = CASE a = "ok" -> Sync([u EXCEPT !.full = m.id, !.modal = TRUE])
               [] a = "401" -> SignedOut([u EXCEPT !.full = None])
               [] a = "error" -> [u EXCEPT !.full = IF u.view = "login" THEN None ELSE Empty]
    /\ net' = Rest(m)
    /\ UNCHANGED <<roster, server, clicks, faults, mixed, ghosts>>

\* Mutant of DetailsAnswer: a 401 leaves the cards saving.
DetailsAnswerStuck(m) ==
    LET a == m.answer
        u == [ui EXCEPT !.saving = FALSE] IN
    /\ Answered(m, "details")
    /\ ui' = CASE a = "ok" -> [u EXCEPT !.profile = m.id, !.full = None,
                                        !.editing = @ \ {m.card}]
               [] a = "401" -> SignedOut(ui)
               [] a = "error" -> u
    /\ net' = Rest(m)
    /\ UNCHANGED <<roster, server, clicks, faults, mixed, ghosts>>

\* saveDetails: the answer is the profile after the edit.
DetailsAnswer(m) ==
    LET a == m.answer
        u == [ui EXCEPT !.saving = FALSE] IN
    /\ Answered(m, "details")
    /\ ui' = CASE a = "ok" -> [u EXCEPT !.profile = m.id, !.full = None,
                                        !.editing = @ \ {m.card}]
               [] a = "401" -> SignedOut(u)
               [] a = "error" -> u
    /\ net' = Rest(m)
    /\ UNCHANGED <<roster, server, clicks, faults, mixed, ghosts>>

\* The row of a failed delete, unless the list has it again.
PutBack(m) ==
    IF ~m.row \/ roster = None \/ Rows(roster, m.id) > 0 THEN roster
    ELSE [roster EXCEPT ![m.id] = @ + 1]

DeleteAnswer(m) ==
    LET a == m.answer
        u == [ui EXCEPT !.deleting = FALSE] IN
    /\ Answered(m, "delete")
    /\ ui' = IF a = "401" THEN [u EXCEPT !.view = "login"] ELSE u
    /\ roster' = IF a = "error" THEN PutBack(m) ELSE roster
    /\ net' = Rest(m)
    /\ UNCHANGED <<server, clicks, faults, mixed, ghosts>>

Administrator ==
    \/ \E id \in Creator : Open(id)
    \/ Back \/ \E p \in {"roster", "scouts"} : GoTo(p)
    \/ \E t \in {"roster", "scouts"} \cup Creator : Navigate(t) \/ NavigateEarly(t)
    \/ EditCards \/ \E c \in Card : Save(c)
    \/ ViewContract \/ CloseContract
    \/ OpenDelete \/ UseDialog \/ ConfirmDelete
    \/ SignOut \/ SignIn

Server == Expire \/ \E m \in BagToSet(net) : Serve(m) \/ Fail(m)

Handler(m) ==
    \/ SessionAnswer(m) \/ LoginAnswer(m) \/ RosterAnswer(m) \/ ProfileAnswer(m)
    \/ ContractsAnswer(m) \/ DetailsAnswer(m) \/ DeleteAnswer(m)

Next == Administrator \/ Server \/ \E m \in BagToSet(net) : Handler(m)

Spec == Init /\ [][Next]_vars

-----------------------------------------------------------------------------
(* Properties.                                                             *)

\* One request of the kind is in flight, once.
Alone(kind, queue) ==
    \E m \in InFlight({kind}, queue) : InFlight({kind}, queue) = {m} /\ queue[m] = 1

\* The buttons and spinners that wait for an answer wait for one that is still
\* to come, and a save and a delete are never sent twice at a time.
\* (app.js saveDetails, confirmDelete, loadProfile, loadContractsFull,
\* loadRoster)
BusyHonest ==
    /\ IF ui.saving THEN Alone("details", net) ELSE Pending({"details"}) = {}
    /\ IF ui.deleting THEN Alone("delete", net) ELSE Pending({"delete"}) = {}
    /\ ui.loggingIn = (Pending({"login"}) # {})
    /\ ui.profileLoading => Pending({"profile"}) # {}
    /\ ui.contractsLoading => Pending({"contracts"}) # {}
    /\ ui.view = "app" /\ roster = None => Pending({"roster"}) # {}

\* The profile and the contracts on the screen are those of the creator the
\* page acts on, if no answer for another was due when its profile was opened.
\* (app.js loadProfile, applyHashToState)
ShownIsSelected ==
    ui.selected # None /\ ~mixed =>
        /\ ui.profile \in {None, ui.selected}
        /\ ui.full \in {None, Empty, ui.selected}

ListSettled ==
    ui.view = "app" /\ roster # None /\ ~ui.rosterError /\ Pending({"roster", "delete"}) = {}

\* Every creator is in the roster once, unless a list left it out because there
\* were more than it takes: a delete that failed put its row back, also when the
\* roster was loaded again meanwhile.  A creator that is gone is only listed
\* after a delete that overlapped a load of the roster, or whose answer was lost.
\* (app.js confirmDelete "so the roster reflects reality again";
\* roster.service.ts roster, take: 1000)
RosterAgrees ==
    ListSettled =>
        \A c \in Creator :
            /\ c \in db => roster[c] = 1 \/ (roster[c] = 0 /\ c \in cut)
            /\ c \notin db => roster[c] = 0 \/ (roster[c] = 1 /\ c \in ghosts)

\* The creator that is deleted is the one the dialog names.
\* (app.js:735 "Hard-delete the currently-open creator", and the dialog's text)
DeletesNamed ==
    [][\A c \in Creator :
          ConfirmDelete /\ ui.selected = c => ui.profile \in {None, c}]_vars
=============================================================================
