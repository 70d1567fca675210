---------------------------- MODULE ConsoleProofs ----------------------------
(***************************************************************************)
(* Proofs about Console, for any number of creators, requests, lost        *)
(* answers and sessions: type correctness; that a busy flag waits for an   *)
(* answer that is still to come, and that a save and a delete are in       *)
(* flight once at most; that the profile on the screen is that of the      *)
(* creator selected, unless it was opened while an answer for another was  *)
(* due; and that the list of the roster comes to agree with the creators   *)
(* there are.                                                              *)
(*                                                                         *)
(* The argument.  A flag goes up with the request it waits for and down    *)
(* with its answer, and a request answered stays in the queue; a sign-in   *)
(* or a 401 may turn the page under a request, and neither touches the     *)
(* flags.  Since the last profile was opened, everything sent was about    *)
(* its creator: a link back only selects nobody, and the browser's history *)
(* selects another creator without a load only if it is the one shown.     *)
(*                                                                         *)
(* For the list: a row that is missing was taken by the one delete in      *)
(* flight, which puts it back unless it was done; a creator who is gone    *)
(* and listed was being deleted while a list was on its way, or his delete *)
(* was done and its answer lost.  A 401 leaves a taken row out, and the    *)
(* page with it: it comes back with a list of its own.                     *)
(***************************************************************************)
EXTENDS Console, TLAPS

AboutOne == {"profile", "details", "contracts"}

\* Who a request is about is a creator.
Named(B) == \A m \in BagToSet(B) : m.kind \in AboutOne \cup {"delete"} => m.id \in Creator

\* Flags and the requests they wait for.
Flags(u, r, B) ==
    /\ IF u.saving THEN Alone("details", B) ELSE InFlight({"details"}, B) = {}
    /\ IF u.deleting THEN Alone("delete", B) ELSE InFlight({"delete"}, B) = {}
    /\ IF u.loggingIn THEN Alone("login", B) ELSE InFlight({"login"}, B) = {}
    /\ u.profileLoading => InFlight({"profile"}, B) # {}
    /\ u.contractsLoading => InFlight({"contracts"}, B) # {}
    /\ u.view = "app" /\ r = None => InFlight({"roster"}, B) # {}

\* Until the session is known nothing else is asked.
Start(u, B) ==
    /\ u.view = "loading" => ~u.deleteOpen /\ \A m \in BagToSet(B) : m.kind = "session"
    /\ IF u.view = "loading" THEN Alone("session", B) ELSE InFlight({"session"}, B) = {}

\* All that is shown, and all that is due, is about creator c.
About(c, u, B) ==
    /\ u.selected \in {None, c} /\ u.profile \in {None, c} /\ u.full \in {None, Empty, c}
    /\ \A m \in InFlight(AboutOne, B) : m.id = c

\* The page, the roster and the queue.
Base(u, r, B) ==
    /\ u \in Ui
    /\ IsABag(B) /\ BagToSet(B) \subseteq Message /\ Named(B)
    /\ Flags(u, r, B)
    /\ Start(u, B)
Good(u, r, B, x) == Base(u, r, B) /\ (~x => \E c : About(c, u, B))

\* What else there is.
Others ==
    /\ roster \in [Creator -> Nat] \cup {None}
    /\ db \subseteq Creator /\ ghosts \subseteq Creator /\ cut \subseteq Creator
    /\ session \in BOOLEAN /\ mixed \in BOOLEAN
    /\ clicks \in Nat /\ faults \in Nat /\ sessions \in Nat

\* The inductive invariant.
IInv == Good(ui, roster, net, mixed) /\ Others

LEMMA Implied == IInv => TypeOK /\ BusyHonest /\ ShownIsSelected
<1> SUFFICES ASSUME IInv PROVE TypeOK /\ BusyHonest /\ ShownIsSelected
  OBVIOUS
<1>1. TypeOK
  BY DEF IInv, Good, Base, Others, TypeOK
<1>2. BusyHonest
  <2>1. Flags(ui, roster, net) /\ ui.loggingIn \in BOOLEAN
    BY DEF IInv, Good, Base, Ui
  <2>2. Alone("login", net) => InFlight({"login"}, net) # {}
    BY DEF Alone
  <2>3. ui.loggingIn = (Pending({"login"}) # {})
    BY <2>1, <2>2 DEF Flags, Pending
  <2> QED BY <2>1, <2>3 DEF Flags, Pending, BusyHonest
<1>3. ShownIsSelected
  BY DEF IInv, Good, About, ShownIsSelected
<1> QED BY <1>1, <1>2, <1>3

-----------------------------------------------------------------------------
(* Queues.                                                                 *)

LEMMA AddBag ==
    ASSUME NEW B, IsABag(B), NEW m
    PROVE  LET C == BagAdd(B, m) IN
           /\ IsABag(C) /\ BagToSet(C) = BagToSet(B) \cup {m}
           /\ \A x \in BagToSet(B) : x # m => C[x] = B[x]
           /\ m \notin BagToSet(B) => C[m] = 1
  BY DEF BagAdd, IsABag, BagToSet

LEMMA RemoveBag ==
    ASSUME NEW B, IsABag(B), NEW m \in BagToSet(B)
    PROVE  LET C == BagRemove(B, m) IN
           /\ IsABag(C) /\ BagToSet(C) \subseteq BagToSet(B)
           /\ BagToSet(B) \ {m} \subseteq BagToSet(C)
           /\ \A x \in BagToSet(C) : x # m => C[x] = B[x]
           /\ B[m] = 1 => m \notin BagToSet(C)
  BY DEF BagRemove, IsABag, BagToSet

LEMMA AddKind ==
    ASSUME NEW B, IsABag(B), NEW m, NEW k
    PROVE  LET C == BagAdd(B, m) IN
           /\ InFlight({k}, C) = InFlight({k}, B) \cup (IF m.kind = k THEN {m} ELSE {})
           /\ m.kind # k /\ Alone(k, B) => Alone(k, C)
           /\ m.kind = k /\ InFlight({k}, B) = {} => Alone(k, C)
<1> DEFINE C == BagAdd(B, m)
<1>1. /\ BagToSet(C) = BagToSet(B) \cup {m}
      /\ \A x \in BagToSet(B) : x # m => C[x] = B[x]
      /\ m \notin BagToSet(B) => C[m] = 1
  BY AddBag
<1> HIDE DEF C
<1>2. InFlight({k}, C) = InFlight({k}, B) \cup (IF m.kind = k THEN {m} ELSE {})
  BY <1>1 DEF InFlight
<1>3. ASSUME m.kind # k, Alone(k, B) PROVE Alone(k, C)
  <2>1. PICK x \in InFlight({k}, B) : InFlight({k}, B) = {x} /\ B[x] = 1
    BY <1>3 DEF Alone
  <2>2. x \in BagToSet(B) /\ x # m
    BY <1>3, <2>1 DEF InFlight
  <2> QED BY <1>1, <1>2, <1>3, <2>1, <2>2 DEF Alone
<1>4. ASSUME m.kind = k, InFlight({k}, B) = {} PROVE Alone(k, C)
  <2>1. m \notin BagToSet(B) /\ InFlight({k}, C) = {m}
    BY <1>2, <1>4 DEF InFlight
  <2> QED BY <1>1, <2>1 DEF Alone
<1> QED BY <1>2, <1>3, <1>4 DEF C

LEMMA RemoveKind ==
    ASSUME NEW B, IsABag(B), NEW m \in BagToSet(B), NEW k
    PROVE  LET C == BagRemove(B, m) IN
           /\ m.kind # k => InFlight({k}, C) = InFlight({k}, B)
           /\ m.kind # k /\ Alone(k, B) => Alone(k, C)
           /\ m.kind = k /\ Alone(k, B) => InFlight({k}, C) = {}
<1> DEFINE C == BagRemove(B, m)
<1>1. /\ BagToSet(C) \subseteq BagToSet(B) /\ BagToSet(B) \ {m} \subseteq BagToSet(C)
      /\ \A x \in BagToSet(C) : x # m => C[x] = B[x]
      /\ B[m] = 1 => m \notin BagToSet(C)
  BY RemoveBag
<1> HIDE DEF C
<1>2. m.kind # k => InFlight({k}, C) = InFlight({k}, B)
  BY <1>1 DEF InFlight
<1>3. ASSUME m.kind # k, Alone(k, B) PROVE Alone(k, C)
  <2>1. PICK x \in InFlight({k}, B) : InFlight({k}, B) = {x} /\ B[x] = 1
    BY <1>3 DEF Alone
  <2>2. x \in BagToSet(C) /\ x # m
    BY <1>1, <1>3, <2>1 DEF InFlight
  <2> QED BY <1>1, <1>2, <1>3, <2>1, <2>2 DEF Alone
<1>4. ASSUME m.kind = k, Alone(k, B) PROVE InFlight({k}, C) = {}
  <2>1. PICK x \in InFlight({k}, B) : InFlight({k}, B) = {x} /\ B[x] = 1
    BY <1>4 DEF Alone
  <2>2. x = m
    BY <1>4, <2>1 DEF InFlight
  <2> QED BY <1>1, <2>1, <2>2 DEF InFlight
<1> QED BY <1>2, <1>3, <1>4 DEF C

\* An answer takes its request's place.
LEMMA SwapKind ==
    ASSUME NEW B, IsABag(B), NEW m \in BagToSet(B), NEW n, n.kind = m.kind, NEW k
    PROVE  LET C == BagAdd(BagRemove(B, m), n) IN
           /\ IsABag(C) /\ BagToSet(C) \subseteq BagToSet(B) \cup {n}
           /\ InFlight({k}, C) = {} <=> InFlight({k}, B) = {}
           /\ Alone(k, B) => Alone(k, C)
<1> DEFINE D == BagRemove(B, m)
           C == BagAdd(D, n)
<1>1. IsABag(D) /\ BagToSet(D) \subseteq BagToSet(B)
  BY RemoveBag
<1>2. /\ m.kind # k => InFlight({k}, D) = InFlight({k}, B)
      /\ m.kind # k /\ Alone(k, B) => Alone(k, D)
      /\ m.kind = k /\ Alone(k, B) => InFlight({k}, D) = {}
  BY RemoveKind
<1> HIDE DEF D
<1>3. /\ InFlight({k}, C) = InFlight({k}, D) \cup (IF n.kind = k THEN {n} ELSE {})
      /\ n.kind # k /\ Alone(k, D) => Alone(k, C)
      /\ n.kind = k /\ InFlight({k}, D) = {} => Alone(k, C)
  BY <1>1, AddKind
<1>5. IsABag(C) /\ BagToSet(C) = BagToSet(D) \cup {n}
  BY <1>1, AddBag
<1>4. m.kind = k => m \in InFlight({k}, B)
  BY DEF InFlight
<1> HIDE DEF C
<1> QED BY <1>1, <1>2, <1>3, <1>4, <1>5 DEF C, D

-----------------------------------------------------------------------------
(* The page and the queue after a step.                                    *)

\* The page moves on by itself: no flag goes up, and it shows and selects what it
\* did, or nothing, or selects what it shows.
Calm(u, v) ==
    /\ v.saving = u.saving /\ v.deleting = u.deleting /\ v.loggingIn = u.loggingIn
    /\ v.profileLoading => u.profileLoading
    /\ v.contractsLoading => u.contractsLoading
    /\ v.profile \in {None, u.profile} /\ v.full \in {None, u.full}
    /\ v.selected \in {None, u.selected, u.profile}

LEMMA PageGood ==
    ASSUME NEW u, NEW r, NEW B, NEW x, Good(u, r, B, x), NEW v \in Ui, NEW q, Calm(u, v),
           v.view = u.view \/ (u.view # "loading" /\ v.view = "login"),
           u.view = "loading" => ~v.deleteOpen, q = None => r = None
    PROVE  Good(v, q, B, x)
<1>1. Flags(v, q, B)
  BY DEF Good, Base, Flags, Calm, Ui
<1>2. Start(v, B)
  BY DEF Good, Base, Start
<1>3. \A c : About(c, u, B) => About(c, v, B)
  BY DEF About, Calm
<1> QED BY <1>1, <1>2, <1>3 DEF Good, Base

\* A request goes out, and its flag up.
LEMMA SendBase ==
    ASSUME NEW u, NEW r, NEW B, Base(u, r, B), u.view # "loading",
           NEW v \in Ui, NEW q, NEW m \in Message, v.view # "loading",
           m.kind # "session",
           m.kind \in AboutOne \cup {"delete"} => m.id \in Creator,
           IF m.kind = "details" THEN ~u.saving /\ v.saving ELSE v.saving = u.saving,
           IF m.kind = "delete" THEN ~u.deleting /\ v.deleting ELSE v.deleting = u.deleting,
           IF m.kind = "login" THEN ~u.loggingIn /\ v.loggingIn ELSE v.loggingIn = u.loggingIn,
           v.profileLoading => u.profileLoading \/ m.kind = "profile",
           v.contractsLoading => u.contractsLoading \/ m.kind = "contracts",
           v.view = "app" /\ q = None => m.kind = "roster" \/ (u.view = "app" /\ r = None)
    PROVE  Base(v, q, BagAdd(B, m))
<1> DEFINE C == BagAdd(B, m)
<1>1. IsABag(B) /\ BagToSet(B) \subseteq Message /\ Named(B) /\ Flags(u, r, B) /\ Start(u, B)
  BY DEF Base
<1>2. IsABag(C) /\ BagToSet(C) = BagToSet(B) \cup {m}
  BY <1>1, AddBag
<1>3. \A k : /\ InFlight({k}, C) = InFlight({k}, B) \cup (IF m.kind = k THEN {m} ELSE {})
             /\ m.kind # k /\ Alone(k, B) => Alone(k, C)
             /\ m.kind = k /\ InFlight({k}, B) = {} => Alone(k, C)
  BY <1>1, AddKind
<1> HIDE DEF C
<1>4. BagToSet(C) \subseteq Message /\ Named(C)
  BY <1>1, <1>2 DEF Named
<1>5. Start(v, C)
  BY <1>1, <1>3 DEF Start
<1>6. Flags(v, q, C)
  <2>1. IF v.saving THEN Alone("details", C) ELSE InFlight({"details"}, C) = {}
    BY <1>1, <1>3 DEF Flags
  <2>2. IF v.deleting THEN Alone("delete", C) ELSE InFlight({"delete"}, C) = {}
    BY <1>1, <1>3 DEF Flags
  <2>3. IF v.loggingIn THEN Alone("login", C) ELSE InFlight({"login"}, C) = {}
    BY <1>1, <1>3 DEF Flags
  <2>4. /\ v.profileLoading => InFlight({"profile"}, C) # {}
        /\ v.contractsLoading => InFlight({"contracts"}, C) # {}
        /\ v.view = "app" /\ q = None => InFlight({"roster"}, C) # {}
    BY <1>1, <1>3 DEF Flags
  <2> QED BY <2>1, <2>2, <2>3, <2>4 DEF Flags
<1> QED BY <1>2, <1>4, <1>5, <1>6 DEF Base, C

\* It is about the creator that is selected.
LEMMA SendAbout ==
    ASSUME NEW c, NEW u, NEW B, IsABag(B), About(c, u, B), NEW v, NEW m,
           v.profile \in {None, u.profile}, v.full \in {None, u.full},
           v.selected \in {None, u.selected},
           m.kind \in AboutOne => m.id = u.selected /\ u.selected # None
    PROVE  About(c, v, BagAdd(B, m))
<1>1. BagToSet(BagAdd(B, m)) = BagToSet(B) \cup {m}
  BY AddBag
<1> QED BY <1>1 DEF About, InFlight

\* A profile is asked for.
LEMMA LoadGood ==
    ASSUME NEW u, NEW r, NEW B, Base(u, r, B), u.view # "loading",
           NEW id \in Creator, u.selected = id
    PROVE  Good(Loading(u), r, BagAdd(B, Request("profile", id)), DueForOther(id, B))
<1> DEFINE v == Loading(u)
           m == Request("profile", id)
<1>1. u \in Ui /\ IsABag(B)
  BY DEF Base
<1>2. /\ v \in Ui /\ v.view = u.view /\ v.selected = u.selected /\ v.profile = None
      /\ v.full = None /\ ~v.contractsLoading /\ v.saving = u.saving
      /\ v.deleting = u.deleting /\ v.loggingIn = u.loggingIn
  BY <1>1 DEF Loading, Ui
<1>3. m \in Message /\ m.kind = "profile" /\ m.id = id
  BY DEF Request, Message, Kind
<1> HIDE DEF v, m
<1>4. Base(v, r, BagAdd(B, m))
  BY <1>2, <1>3, SendBase
<1>5. ~DueForOther(id, B) => About(id, v, BagAdd(B, m))
  <2>1. BagToSet(BagAdd(B, m)) = BagToSet(B) \cup {m}
    BY <1>1, AddBag
  <2> QED BY <1>2, <1>3, <2>1 DEF About, InFlight, DueForOther, AboutOne
<1> QED BY <1>4, <1>5 DEF Good, v, m

\* A request is answered.
LEMMA AnsweredGood ==
    ASSUME NEW u, NEW r, NEW B, NEW x, Good(u, r, B, x), NEW m \in BagToSet(B),
           NEW n \in Message, n.kind = m.kind, n.id = m.id
    PROVE  Good(u, r, BagAdd(BagRemove(B, m), n), x)
<1> DEFINE C == BagAdd(BagRemove(B, m), n)
<1>1. IsABag(B) /\ BagToSet(B) \subseteq Message /\ Named(B) /\ Flags(u, r, B) /\ Start(u, B)
  BY DEF Good, Base
<1>2. \A k : /\ IsABag(C) /\ BagToSet(C) \subseteq BagToSet(B) \cup {n}
             /\ InFlight({k}, C) = {} <=> InFlight({k}, B) = {}
             /\ Alone(k, B) => Alone(k, C)
  BY <1>1, SwapKind
<1> HIDE DEF C
<1>3. BagToSet(C) \subseteq Message /\ Named(C)
  BY <1>1, <1>2 DEF Named
<1>4. Flags(u, r, C)
  BY <1>1, <1>2 DEF Flags
<1>5. Start(u, C)
  BY <1>1, <1>2 DEF Start
<1>6. \A c : About(c, u, B) => About(c, u, C)
  BY <1>2 DEF About, InFlight
<1> QED BY <1>2, <1>3, <1>4, <1>5, <1>6 DEF Good, Base, C

\* An answer is handled, and its flag goes down.
LEMMA HandledBase ==
    ASSUME NEW u, NEW r, NEW B, Base(u, r, B), NEW m \in BagToSet(B), NEW v \in Ui, NEW q,
           v.view \in {u.view, "login"}, m.kind = "session" => v.view = "login",
           IF m.kind = "details" THEN ~v.saving ELSE v.saving = u.saving,
           IF m.kind = "delete" THEN ~v.deleting ELSE v.deleting = u.deleting,
           IF m.kind = "login" THEN ~v.loggingIn ELSE v.loggingIn = u.loggingIn,
           v.profileLoading => u.profileLoading /\ m.kind # "profile",
           v.contractsLoading => u.contractsLoading /\ m.kind # "contracts",
           v.view = "app" /\ q = None => r = None /\ m.kind # "roster"
    PROVE  Base(v, q, BagRemove(B, m)) /\ v.view # "loading"
<1> DEFINE C == BagRemove(B, m)
<1>1. IsABag(B) /\ BagToSet(B) \subseteq Message /\ Named(B) /\ Flags(u, r, B) /\ Start(u, B)
  BY DEF Base
<1>2. \A k : /\ m.kind # k => InFlight({k}, C) = InFlight({k}, B)
             /\ m.kind # k /\ Alone(k, B) => Alone(k, C)
             /\ m.kind = k /\ Alone(k, B) => InFlight({k}, C) = {}
  BY <1>1, RemoveKind
<1>3. IsABag(C) /\ BagToSet(C) \subseteq BagToSet(B)
  BY <1>1, RemoveBag
<1> HIDE DEF C
<1>4. m.kind = "details" => u.saving
  BY <1>1 DEF Flags, InFlight
<1>5. m.kind = "delete" => u.deleting
  BY <1>1 DEF Flags, InFlight
<1>6. m.kind = "login" => u.loggingIn
  BY <1>1 DEF Flags, InFlight
<1>7. m.kind = "session" <=> u.view = "loading"
  BY <1>1 DEF Start, InFlight
<1>8. Flags(v, q, C)
  <2>1. IF v.saving THEN Alone("details", C) ELSE InFlight({"details"}, C) = {}
    BY <1>1, <1>2, <1>4 DEF Flags
  <2>2. IF v.deleting THEN Alone("delete", C) ELSE InFlight({"delete"}, C) = {}
    BY <1>1, <1>2, <1>5 DEF Flags
  <2>3. IF v.loggingIn THEN Alone("login", C) ELSE InFlight({"login"}, C) = {}
    BY <1>1, <1>2, <1>6 DEF Flags
  <2>4. /\ v.profileLoading => InFlight({"profile"}, C) # {}
        /\ v.contractsLoading => InFlight({"contracts"}, C) # {}
        /\ v.view = "app" /\ q = None => InFlight({"roster"}, C) # {}
    BY <1>1, <1>2, <1>7 DEF Flags
  <2> QED BY <2>1, <2>2, <2>3, <2>4 DEF Flags
<1>9. v.view # "loading" /\ Start(v, C)
  BY <1>1, <1>2, <1>7 DEF Start
<1> QED BY <1>1, <1>3, <1>8, <1>9 DEF Base, Named, C

\* What is shown then is what was, or what came.
LEMMA HandledAbout ==
    ASSUME NEW c, NEW u, NEW B, IsABag(B), About(c, u, B), NEW m \in BagToSet(B), NEW v,
           v.profile \in {None, u.profile} \/ (m.kind \in AboutOne /\ v.profile = m.id),
           v.full \in {None, Empty, u.full} \/ (m.kind \in AboutOne /\ v.full = m.id),
           v.selected \in {None, u.selected}
    PROVE  About(c, v, BagRemove(B, m))
<1>1. BagToSet(BagRemove(B, m)) \subseteq BagToSet(B)
  BY RemoveBag
<1> QED BY <1>1 DEF About, InFlight

-----------------------------------------------------------------------------
(* The administrator.                                                      *)

LEMMA Now ==
    ASSUME IInv
    PROVE  /\ ui \in Ui /\ Good(ui, roster, net, mixed) /\ Base(ui, roster, net)
           /\ IsABag(net) /\ BagToSet(net) \subseteq Message /\ Others
  BY DEF IInv, Good, Base

\* Addresses leave everything but the address, the page and the selection alone.
LEMMA SyncGood ==
    ASSUME NEW u \in Ui
    PROVE  Sync(u) \in Ui /\ \E url : Sync(u) = [u EXCEPT !.url = url]
<1>1. HashFor(u) \in {"roster", "scouts"} \cup Creator
  BY DEF HashFor, Ui
<1>2. CASE u.view = "app"
  BY <1>1, <1>2 DEF Sync, Ui
<1>3. CASE u.view # "app"
  <2>1. Sync(u) = u /\ u = [u EXCEPT !.url = u.url]
    BY <1>3 DEF Sync, Ui
  <2> QED BY <2>1
<1> QED BY <1>2, <1>3

LEMMA SyncKeeps ==
    ASSUME NEW u \in Ui
    PROVE  LET v == Sync(u) IN
           /\ v \in Ui /\ Calm(u, v) /\ v.view = u.view /\ v.deleteOpen = u.deleteOpen
           /\ v.profile = u.profile /\ v.full = u.full /\ v.selected = u.selected
           /\ v.saving = u.saving /\ v.deleting = u.deleting /\ v.loggingIn = u.loggingIn
           /\ v.profileLoading = u.profileLoading /\ v.contractsLoading = u.contractsLoading
<1> DEFINE v == Sync(u)
<1>1. v \in Ui /\ \E url : v = [u EXCEPT !.url = url]
  BY SyncGood
<1> HIDE DEF v
<1>2. PICK url : v = [u EXCEPT !.url = url]
  BY <1>1
<1>3. /\ v.view = u.view /\ v.deleteOpen = u.deleteOpen
      /\ v.profile = u.profile /\ v.full = u.full /\ v.selected = u.selected
      /\ v.saving = u.saving /\ v.deleting = u.deleting /\ v.loggingIn = u.loggingIn
      /\ v.profileLoading = u.profileLoading /\ v.contractsLoading = u.contractsLoading
  BY <1>2 DEF Ui
<1> QED BY <1>1, <1>3 DEF Calm, v

LEMMA ClickGood == ASSUME IInv, Click PROVE clicks' \in Nat
  BY DEF Click, IInv, Others

LEMMA PageStep ==
    ASSUME IInv, NEW v \in Ui, ui' = v, Calm(ui, v),
           v.view = ui.view \/ (ui.view # "loading" /\ v.view = "login"),
           ui.view = "loading" => ~v.deleteOpen,
           UNCHANGED <<roster, net, mixed, db, ghosts, cut>>,
           session' \in BOOLEAN, {clicks', faults', sessions'} \subseteq Nat
    PROVE  IInv'
<1>1. Good(v, roster, net, mixed)
  BY Now, PageGood
<1> QED BY <1>1 DEF IInv, Others

\* Links, cards and dialogs that ask the server nothing.
LEMMA LinkStep ==
    ASSUME IInv, NEW p \in {"roster", "scouts"}, Back \/ GoTo(p) \/ SignOut
    PROVE  IInv'
<1>1. /\ ui \in Ui /\ ui.view = "app" /\ UNCHANGED <<roster, net, mixed, db, ghosts, cut>>
      /\ session' \in BOOLEAN /\ {clicks', faults', sessions'} \subseteq Nat
  <2>0. /\ session \in BOOLEAN /\ clicks \in Nat /\ faults \in Nat /\ sessions \in Nat
        /\ ui \in Ui
    BY Now DEF Others
  <2>1. CASE Back
    BY <2>0, <2>1 DEF Back, LinksShown, server
  <2>2. CASE GoTo(p)
    BY <2>0, <2>2 DEF GoTo, LinksShown, server
  <2>3. CASE SignOut
    <3>1. session' \in {session, FALSE}
      BY <2>3 DEF SignOut
    <3>2. session' \in BOOLEAN
      BY <2>0, <3>1, Zenon
    <3>3. /\ ui.view = "app" /\ UNCHANGED <<roster, net, mixed, db, ghosts, cut>>
          /\ sessions' = sessions + 1 /\ UNCHANGED <<clicks, faults>>
      BY <2>3 DEF SignOut, LinksShown
    <3> QED BY <2>0, <3>2, <3>3
  <2> QED BY <2>1, <2>2, <2>3
<1>2. CASE Back
  <2> DEFINE w == [ui EXCEPT !.selected = None, !.profile = None]
  <2>1. w \in Ui /\ Calm(ui, w) /\ w.view = "app"
    BY <1>1 DEF Ui, Calm
  <2>2. ui' = Sync(w)
    BY <1>2 DEF Back
  <2> HIDE DEF w
  <2>3. Sync(w) \in Ui /\ Calm(ui, Sync(w)) /\ Sync(w).view = "app"
    BY <2>1, SyncKeeps DEF Calm
  <2> QED BY <1>1, <2>2, <2>3, PageStep
<1>3. CASE GoTo(p)
  <2> DEFINE w == [ui EXCEPT !.selected = None, !.page = p]
  <2>1. w \in Ui /\ Calm(ui, w) /\ w.view = "app"
    BY <1>1, <1>3 DEF Ui, Calm
  <2>2. ui' = Sync(w)
    BY <1>3 DEF GoTo
  <2> HIDE DEF w
  <2>3. Sync(w) \in Ui /\ Calm(ui, Sync(w)) /\ Sync(w).view = "app"
    BY <2>1, SyncKeeps DEF Calm
  <2> QED BY <1>1, <2>2, <2>3, PageStep
<1>4. CASE SignOut
  <2> DEFINE w == [ui EXCEPT !.view = "login", !.selected = None]
  <2>1. w \in Ui /\ Calm(ui, w) /\ w.view = "login"
    BY <1>1 DEF Ui, Calm
  <2>2. ui' = w
    BY <1>4 DEF SignOut
  <2> HIDE DEF w
  <2> QED BY <1>1, <2>1, <2>2, PageStep
<1> QED BY <1>2, <1>3, <1>4

LEMMA DialogStep ==
    ASSUME IInv, EditCards \/ CloseContract \/ OpenDelete \/ UseDialog
    PROVE  IInv'
<1>1. /\ ui \in Ui /\ UNCHANGED <<roster, net, mixed, db, ghosts, cut>>
      /\ session' \in BOOLEAN /\ {clicks', faults', sessions'} \subseteq Nat
  BY Now DEF EditCards, CloseContract, OpenDelete, UseDialog, server, Others
<1>2. ui.view # "loading"
  BY Now DEF EditCards, CloseContract, OpenDelete, UseDialog, ProfileShown, ContractShown,
             OnProfile, Base, Start
<1>3. \E w \in Ui : Calm(ui, w) /\ w.view = ui.view /\ ui' \in {w, Sync(w)}
  <2>1. CASE EditCards
    <3>1. PICK e \in SUBSET Card : ui' = [ui EXCEPT !.editing = e]
      BY <1>1, <2>1 DEF EditCards, Ui
    <3>2. [ui EXCEPT !.editing = e] \in Ui /\ Calm(ui, [ui EXCEPT !.editing = e])
          /\ [ui EXCEPT !.editing = e].view = ui.view
      BY <1>1 DEF Ui, Calm
    <3> QED BY <3>1, <3>2
  <2>2. CASE CloseContract \/ OpenDelete \/ UseDialog
    <3>1. PICK b \in BOOLEAN, d \in BOOLEAN, y \in BOOLEAN :
              LET w == [ui EXCEPT !.modal = b, !.deleteOpen = d, !.typed = y] IN
              ui' \in {w, Sync(w)}
      <4>1. CASE CloseContract
        <5>1. [ui EXCEPT !.modal = FALSE]
                  = [ui EXCEPT !.modal = FALSE, !.deleteOpen = ui.deleteOpen, !.typed = ui.typed]
          BY <1>1 DEF Ui
        <5>2. ui' = Sync([ui EXCEPT !.modal = FALSE])
          BY <4>1 DEF CloseContract
        <5> QED BY <1>1, <5>1, <5>2 DEF Ui
      <4>2. CASE OpenDelete
        <5>1. [ui EXCEPT !.deleteOpen = TRUE, !.typed = FALSE]
                  = [ui EXCEPT !.modal = ui.modal, !.deleteOpen = TRUE, !.typed = FALSE]
          BY <1>1 DEF Ui
        <5>2. ui' = Sync([ui EXCEPT !.deleteOpen = TRUE, !.typed = FALSE])
          BY <4>2 DEF OpenDelete
        <5> QED BY <1>1, <5>1, <5>2 DEF Ui
      <4>3. CASE UseDialog
        <5>1. /\ [ui EXCEPT !.typed = TRUE]
                    = [ui EXCEPT !.modal = ui.modal, !.deleteOpen = ui.deleteOpen, !.typed = TRUE]
              /\ [ui EXCEPT !.deleteOpen = FALSE, !.typed = FALSE]
                    = [ui EXCEPT !.modal = ui.modal, !.deleteOpen = FALSE, !.typed = FALSE]
          BY <1>1 DEF Ui
        <5>2. \/ ui' = [ui EXCEPT !.typed = TRUE]
              \/ ui' = Sync([ui EXCEPT !.deleteOpen = FALSE, !.typed = FALSE])
          BY <4>3 DEF UseDialog
        <5> QED BY <1>1, <5>1, <5>2 DEF Ui
      <4> QED BY <2>2, <4>1, <4>2, <4>3
    <3> DEFINE w == [ui EXCEPT !.modal = b, !.deleteOpen = d, !.typed = y]
    <3>2. w \in Ui /\ Calm(ui, w) /\ w.view = ui.view
      BY <1>1 DEF Ui, Calm
    <3> QED BY <3>1, <3>2
  <2> QED BY <2>1, <2>2
<1>4. PICK w \in Ui : Calm(ui, w) /\ w.view = ui.view /\ ui' \in {w, Sync(w)}
  BY <1>3
<1>5. Sync(w) \in Ui /\ Calm(ui, Sync(w)) /\ Sync(w).view = ui.view
  BY <1>4, SyncKeeps DEF Calm
<1> QED BY <1>1, <1>2, <1>4, <1>5, PageStep

\* A step that opens a profile.
LEMMA LoadStep ==
    ASSUME IInv, NEW r, NEW u, NEW B, Base(u, r, B), u.view # "loading", NEW id \in Creator,
           u.selected = id, LoadProfile(u, id, B), roster' = r, Others'
    PROVE  IInv'
<1>1. /\ ui' = Loading(u) /\ net' = BagAdd(B, Request("profile", id))
      /\ mixed' = DueForOther(id, B)
  BY DEF LoadProfile
<1>2. Good(Loading(u), r, BagAdd(B, Request("profile", id)), DueForOther(id, B))
  BY LoadGood
<1> QED BY <1>1, <1>2 DEF IInv

\* The base of a page that selects something else.
LEMMA SelectBase ==
    ASSUME NEW u, NEW r, NEW B, Base(u, r, B), u.view # "loading", NEW v \in Ui,
           v.view = u.view, v.saving = u.saving, v.deleting = u.deleting,
           v.loggingIn = u.loggingIn, v.profileLoading = u.profileLoading,
           v.contractsLoading = u.contractsLoading
    PROVE  Base(v, r, B)
<1>1. Flags(v, r, B) /\ Start(v, B)
  BY DEF Base, Flags, Start
<1> QED BY <1>1 DEF Base

LEMMA MixedGood == \A id, B : DueForOther(id, B) \in BOOLEAN
  BY DEF DueForOther

LEMMA OpenStep ==
    ASSUME IInv, NEW id \in Creator, Open(id)
    PROVE  IInv'
<1> DEFINE w == [ui EXCEPT !.selected = id]
<1>1. ui.view = "app" /\ LoadProfile(Sync(w), id, net) /\ Click
      /\ UNCHANGED <<roster, server, faults, ghosts>>
  BY DEF Open, RowShown
<1>2. /\ w \in Ui /\ w.view = ui.view /\ w.saving = ui.saving /\ w.deleting = ui.deleting
      /\ w.loggingIn = ui.loggingIn /\ w.profileLoading = ui.profileLoading
      /\ w.contractsLoading = ui.contractsLoading /\ w.selected = id
  BY Now DEF Ui
<1> HIDE DEF w
<1>3. /\ Sync(w) \in Ui /\ Sync(w).view = "app" /\ Sync(w).selected = id
      /\ Base(Sync(w), roster, net)
  BY <1>1, <1>2, Now, SyncKeeps, SelectBase
<1>4. Others'
  BY <1>1, Now, ClickGood, MixedGood DEF Others, server, LoadProfile
<1> QED BY <1>1, <1>3, <1>4, LoadStep

LEMMA NavigateStep ==
    ASSUME IInv, NEW target \in {"roster", "scouts"} \cup Creator, Navigate(target)
    PROVE  IInv'
<1> DEFINE next == Route([ui EXCEPT !.url = target], target)
           reset == [next EXCEPT !.editing = {}, !.deleteOpen = FALSE, !.typed = FALSE]
           gone == [reset EXCEPT !.profile = None]
<1>1. /\ ui.view = "app" /\ Click /\ UNCHANGED <<roster, server, faults, ghosts>>
      /\ \/ next.selected \in {None, ui.profile} \/ next.page = "scouts"
         \/ next.selected \notin {None, ui.profile} /\ LoadProfile(reset, target, net)
      /\ \/ LoadProfile(reset, target, net) /\ next.selected \notin {None, ui.profile}
         \/ UNCHANGED <<net, mixed>> /\ ui' = next /\ next.page = "scouts"
         \/ UNCHANGED <<net, mixed>> /\ next.selected \in {None, ui.profile}
            /\ ui' \in {reset, gone}
  BY DEF Navigate
<1>2. /\ next \in Ui /\ next.view = ui.view /\ next.saving = ui.saving
      /\ next.deleting = ui.deleting /\ next.loggingIn = ui.loggingIn
      /\ next.profileLoading = ui.profileLoading
      /\ next.contractsLoading = ui.contractsLoading
      /\ next.profile = ui.profile /\ next.full = ui.full
      /\ next.page = "scouts" => next.selected = None
      /\ next.selected # None => next.selected = target /\ target \in Creator
  <2>1. ui \in Ui
    BY Now
  <2>2. target \in Creator => target \notin {"roster", "scouts"}
    BY CreatorAssumption
  <2> QED BY <2>1, <2>2 DEF Route, Ui
<1> HIDE DEF next
<1>3. /\ reset \in Ui /\ reset.view = ui.view /\ reset.saving = ui.saving
      /\ reset.deleting = ui.deleting /\ reset.loggingIn = ui.loggingIn
      /\ reset.profileLoading = ui.profileLoading
      /\ reset.contractsLoading = ui.contractsLoading
      /\ reset.profile = ui.profile /\ reset.full = ui.full
      /\ reset.selected = next.selected
  BY <1>2 DEF Ui
<1> HIDE DEF reset
<1>4. /\ gone \in Ui /\ gone.view = ui.view /\ gone.saving = ui.saving
      /\ gone.deleting = ui.deleting /\ gone.loggingIn = ui.loggingIn
      /\ gone.profileLoading = ui.profileLoading
      /\ gone.contractsLoading = ui.contractsLoading
      /\ gone.profile = None /\ gone.full = ui.full
      /\ gone.selected = next.selected
  BY <1>3 DEF Ui
<1> HIDE DEF gone
<1>5. CASE LoadProfile(reset, target, net) /\ next.selected \notin {None, ui.profile}
  <2>1. Base(reset, roster, net) /\ reset.selected = target /\ target \in Creator
    BY <1>1, <1>2, <1>3, <1>5, Now, SelectBase
  <2>2. Others'
    BY <1>1, <1>5, Now, ClickGood, MixedGood DEF Others, server, LoadProfile
  <2> QED BY <1>1, <1>3, <1>5, <2>1, <2>2, LoadStep
<1>6. CASE UNCHANGED <<net, mixed>> /\ ui' \in {next, reset, gone}
           /\ next.selected \in {None, ui.profile}
  <2>1. \A v \in {next, reset, gone} : v \in Ui /\ Calm(ui, v) /\ v.view = ui.view
    BY <1>2, <1>3, <1>4, <1>6 DEF Calm
  <2>2. UNCHANGED <<db, ghosts, cut>> /\ session' \in BOOLEAN
        /\ {clicks', faults', sessions'} \subseteq Nat
    BY <1>1, Now, ClickGood DEF Others, server
  <2> QED BY <1>1, <1>6, <2>1, <2>2, PageStep
<1> QED BY <1>1, <1>2, <1>5, <1>6

LEMMA NavigateEarlyStep ==
    ASSUME IInv, NEW target \in {"roster", "scouts"} \cup Creator, NavigateEarly(target)
    PROVE  IInv'
<1> DEFINE w == [ui EXCEPT !.url = target]
<1>1. /\ ui' = w /\ UNCHANGED <<roster, net, mixed, db, ghosts, cut>>
      /\ session' \in BOOLEAN /\ {clicks', faults', sessions'} \subseteq Nat
  BY Now, ClickGood DEF NavigateEarly, Others, server
<1>2. w \in Ui /\ Calm(ui, w) /\ w.view = ui.view /\ w.deleteOpen = ui.deleteOpen
  BY Now DEF Ui, Calm
<1> HIDE DEF w
<1>3. ui.view = "loading" => ~w.deleteOpen
  BY <1>2, Now DEF Base, Start
<1> QED BY <1>1, <1>2, <1>3, PageStep

\* A step that sends a request and opens nothing.
LEMMA SendStep ==
    ASSUME IInv, ui.view # "loading", NEW v \in Ui, ui' = v, v.view = ui.view,
           NEW m \in Message, Send(m), m.kind \notin {"session", "profile", "roster"},
           m.kind \in AboutOne \cup {"delete"} => m.id = ui.selected /\ ui.selected \in Creator,
           IF m.kind = "details" THEN ~ui.saving /\ v.saving ELSE v.saving = ui.saving,
           IF m.kind = "delete" THEN ~ui.deleting /\ v.deleting ELSE v.deleting = ui.deleting,
           IF m.kind = "login" THEN ~ui.loggingIn /\ v.loggingIn ELSE v.loggingIn = ui.loggingIn,
           v.profileLoading => ui.profileLoading,
           v.contractsLoading => ui.contractsLoading \/ m.kind = "contracts",
           v.profile \in {None, ui.profile}, v.full \in {None, ui.full},
           v.selected \in {None, ui.selected},
           roster' = None => roster = None, UNCHANGED mixed, Others'
    PROVE  IInv'
<1>1. Base(ui, roster, net) /\ IsABag(net)
  BY Now
<1>2. Base(v, roster', BagAdd(net, m))
  BY <1>1, SendBase
<1>3. \A c : About(c, ui, net) => About(c, v, BagAdd(net, m))
  <2> SUFFICES ASSUME NEW c, About(c, ui, net) PROVE About(c, v, BagAdd(net, m))
    OBVIOUS
  <2>1. m.kind \in AboutOne => m.id = ui.selected /\ ui.selected # None
    BY NoneAssumption
  <2> QED BY <1>1, <2>1, SendAbout
<1> QED BY <1>2, <1>3 DEF IInv, Good, Send

\* The requests of the pages are messages.
LEMMA RequestGood ==
    ASSUME NEW kind \in Kind, NEW id \in Creator \cup {None}
    PROVE  LET m == Request(kind, id) IN m \in Message /\ m.kind = kind /\ m.id = id
  BY DEF Request, Message

LEMMA OtherGood ==
    ASSUME IInv, Click, roster' \in [Creator -> Nat] \cup {None}, ghosts' \subseteq Creator,
           UNCHANGED <<server, faults, mixed>>
    PROVE  Others'
  BY ClickGood DEF IInv, Others, server

LEMMA SaveStep ==
    ASSUME IInv, NEW card \in Card, Save(card)
    PROVE  IInv'
<1> DEFINE v == [ui EXCEPT !.saving = TRUE]
           m == [Request("details", ui.selected) EXCEPT !.card = card]
<1>1. /\ ui \in Ui /\ ui.view = "app" /\ ~ui.saving /\ ui.selected \in Creator
      /\ ui' = v /\ Send(m) /\ Click /\ UNCHANGED <<roster, server, faults, mixed, ghosts>>
  BY Now DEF Save, SaveEnabled, ProfileShown, OnProfile, Ui
<1>2. m \in Message /\ m.kind = "details" /\ m.id = ui.selected
  BY <1>1 DEF Request, Message, Kind
<1>3. /\ v \in Ui /\ v.view = ui.view /\ v.saving /\ v.deleting = ui.deleting
      /\ v.loggingIn = ui.loggingIn /\ v.profileLoading = ui.profileLoading
      /\ v.contractsLoading = ui.contractsLoading /\ v.profile = ui.profile
      /\ v.full = ui.full /\ v.selected = ui.selected
  BY <1>1 DEF Ui
<1>4. Others'
  BY <1>1, Now, OtherGood DEF Others
<1> HIDE DEF v, m
<1> QED BY <1>1, <1>2, <1>3, <1>4, SendStep

LEMMA ViewContractStep ==
    ASSUME IInv, ViewContract
    PROVE  IInv'
<1>1. /\ ui \in Ui /\ ui.view = "app" /\ ui.selected \in Creator
      /\ UNCHANGED <<roster, server, faults, mixed, ghosts>>
  BY Now DEF ViewContract, ProfileShown, OnProfile, Ui
<1>2. CASE ui.full # None
  <2> DEFINE w == [ui EXCEPT !.modal = TRUE]
  <2>1. w \in Ui /\ Calm(ui, w) /\ w.view = "app"
    BY <1>1 DEF Ui, Calm
  <2>2. ui' = Sync(w) /\ UNCHANGED <<net, clicks>>
    BY <1>2 DEF ViewContract
  <2> HIDE DEF w
  <2>3. Sync(w) \in Ui /\ Calm(ui, Sync(w)) /\ Sync(w).view = "app"
    BY <2>1, SyncKeeps DEF Calm
  <2>4. UNCHANGED <<db, ghosts, cut>> /\ session' \in BOOLEAN
        /\ {clicks', faults', sessions'} \subseteq Nat
    BY <1>1, <2>2, Now DEF Others, server
  <2> QED BY <1>1, <2>2, <2>3, <2>4, PageStep
<1>3. CASE ui.full = None
  <2> DEFINE v == [ui EXCEPT !.contractsLoading = TRUE]
             m == Request("contracts", ui.selected)
  <2>1. ui' = v /\ Send(m) /\ Click
    BY <1>3 DEF ViewContract
  <2>2. m \in Message /\ m.kind = "contracts" /\ m.id = ui.selected
    BY <1>1, RequestGood DEF Kind
  <2>3. /\ v \in Ui /\ v.view = ui.view /\ v.saving = ui.saving /\ v.deleting = ui.deleting
        /\ v.loggingIn = ui.loggingIn /\ v.profileLoading = ui.profileLoading
        /\ v.profile = ui.profile /\ v.full = ui.full /\ v.selected = ui.selected
    BY <1>1 DEF Ui
  <2>4. Others'
    BY <1>1, <2>1, Now, OtherGood DEF Others
  <2> HIDE DEF v, m
  <2> QED BY <1>1, <2>1, <2>2, <2>3, <2>4, SendStep
<1> QED BY <1>2, <1>3

LEMMA ConfirmDeleteStep ==
    ASSUME IInv, ConfirmDelete
    PROVE  IInv'
<1> DEFINE id == ui.selected
           row == Rows(roster, id) > 0
           w == [ui EXCEPT !.deleting = TRUE, !.deleteOpen = FALSE, !.typed = FALSE,
                           !.profile = None, !.selected = None, !.editing = {},
                           !.full = None]
           m == [Request("delete", id) EXCEPT !.row = row]
<1>1. /\ ui \in Ui /\ ui.view = "app" /\ id \in Creator /\ ~ui.deleting
      /\ roster \in [Creator -> Nat] \cup {None} /\ ghosts \subseteq Creator
  BY Now DEF ConfirmDelete, ConfirmEnabled, OnProfile, Ui, Others
<1>2. /\ ui' = Sync(w) /\ Send(m) /\ Click /\ UNCHANGED <<server, faults, mixed>>
      /\ roster' = (IF row THEN [roster EXCEPT ![id] = @ - 1] ELSE roster)
      /\ ghosts' \in {ghosts, ghosts \cup {id}}
  BY DEF ConfirmDelete
<1>3. /\ w \in Ui /\ w.view = ui.view /\ w.saving = ui.saving /\ w.deleting
      /\ w.loggingIn = ui.loggingIn /\ w.profileLoading = ui.profileLoading
      /\ w.contractsLoading = ui.contractsLoading /\ w.profile = None
      /\ w.full = None /\ w.selected = None
  BY <1>1 DEF Ui
<1>4. roster' \in [Creator -> Nat] \cup {None} /\ (roster' = None => roster = None)
  <2>1. CASE ~row
    BY <1>1, <1>2, <2>1
  <2>2. CASE row
    <3>1. roster # None /\ roster \in [Creator -> Nat] /\ roster[id] > 0
      BY <1>1, <2>2 DEF Rows
    <3>2. roster' \in [Creator -> Nat]
      BY <1>1, <1>2, <2>2, <3>1
    <3> QED BY <3>2, NoneAssumption
  <2> QED BY <2>1, <2>2
<1>5. Others'
  BY <1>1, <1>2, <1>4, OtherGood
<1>6. m \in Message /\ m.kind = "delete" /\ m.id = id
  <2>1. row \in BOOLEAN
    OBVIOUS
  <2> HIDE DEF row
  <2> QED BY <1>1, <2>1 DEF Request, Message, Kind
<1> HIDE DEF w, m
<1>7. /\ Sync(w) \in Ui /\ Sync(w).view = ui.view /\ Sync(w).saving = ui.saving
      /\ Sync(w).deleting /\ Sync(w).loggingIn = ui.loggingIn
      /\ Sync(w).profileLoading = ui.profileLoading
      /\ Sync(w).contractsLoading = ui.contractsLoading /\ Sync(w).profile = None
      /\ Sync(w).full = None /\ Sync(w).selected = None
  BY <1>3, SyncKeeps
<1> QED BY <1>1, <1>2, <1>4, <1>5, <1>6, <1>7, SendStep

LEMMA SignInStep ==
    ASSUME IInv, SignIn
    PROVE  IInv'
<1> DEFINE v == [ui EXCEPT !.loggingIn = TRUE]
           m == Request("login", None)
<1>1. /\ ui \in Ui /\ ui.view = "login" /\ ~ui.loggingIn
      /\ ui' = v /\ Send(m) /\ Click /\ UNCHANGED <<roster, server, faults, mixed, ghosts>>
  BY Now DEF SignIn, LoginEnabled
<1>2. m \in Message /\ m.kind = "login"
  BY RequestGood DEF Kind
<1>3. /\ v \in Ui /\ v.view = ui.view /\ v.saving = ui.saving /\ v.deleting = ui.deleting
      /\ v.loggingIn /\ v.profileLoading = ui.profileLoading
      /\ v.contractsLoading = ui.contractsLoading /\ v.profile = ui.profile
      /\ v.full = ui.full /\ v.selected = ui.selected
  BY <1>1 DEF Ui
<1>4. Others'
  BY <1>1, Now, OtherGood DEF Others
<1> HIDE DEF v, m
<1> QED BY <1>1, <1>2, <1>3, <1>4, SendStep DEF AboutOne

-----------------------------------------------------------------------------
(* The server.                                                             *)

LEMMA ReplyStep ==
    ASSUME IInv, NEW m, Due(m), NEW a \in Reply, NEW list \in SUBSET Creator,
           Answer(m, a, list), UNCHANGED <<ui, roster, mixed>>, Others'
    PROVE  IInv'
<1> DEFINE n == [m EXCEPT !.answer = a, !.list = list]
<1>1. m \in BagToSet(net) /\ m \in Message /\ Good(ui, roster, net, mixed)
  BY Now DEF Due, BagIn
<1>2. n \in Message /\ n.kind = m.kind /\ n.id = m.id
  BY <1>1 DEF Message
<1>3. net' = BagAdd(BagRemove(net, m), n)
  BY DEF Answer
<1> HIDE DEF n
<1>4. Good(ui, roster, net', mixed)
  BY <1>1, <1>2, <1>3, AnsweredGood
<1> QED BY <1>4 DEF IInv

LEMMA ServeStep ==
    ASSUME IInv, NEW m, Serve(m)
    PROVE  IInv'
<1>1. /\ Due(m) /\ UNCHANGED <<ui, roster, clicks, faults, sessions, mixed, ghosts>>
      /\ roster \in [Creator -> Nat] \cup {None} /\ db \subseteq Creator
      /\ ghosts \subseteq Creator /\ cut \subseteq Creator
      /\ session \in BOOLEAN /\ mixed \in BOOLEAN
      /\ clicks \in Nat /\ faults \in Nat /\ sessions \in Nat
  BY Now DEF Serve, ServeLogin, ServeSignedOut, ServeRoster, ServeCreator, Others
<1>2. CASE m.kind = "login"
  <2>1. /\ Answer(m, "ok", {}) \/ Answer(m, "error", {})
        /\ db' = db /\ cut' = cut /\ (session' = TRUE \/ session' = session)
    BY <1>2 DEF Serve, ServeLogin, ServeSignedOut, ServeRoster, ServeCreator, Refuse
  <2>2. session' \in BOOLEAN
    BY <1>1, <2>1, Zenon
  <2>3. Others'
    BY <1>1, <2>1, <2>2 DEF Others
  <2> QED BY <1>1, <2>1, <2>3, ReplyStep DEF Reply
<1>3. CASE m.kind # "login" /\ ~session
  <2>1. Answer(m, "401", {}) /\ UNCHANGED <<db, session, cut>>
    BY <1>3 DEF Serve, ServeLogin, ServeSignedOut, ServeRoster, ServeCreator, Refuse
  <2>2. Others'
    BY <1>1, <2>1 DEF Others
  <2> QED BY <1>1, <2>1, <2>2, ReplyStep DEF Reply
<1>4. CASE m.kind = "roster" /\ session
  <2>1. PICK list \in ListOf(db) :
            /\ Answer(m, "ok", list) /\ cut' = cut \cup (db \ list)
            /\ UNCHANGED <<db, session>>
    BY <1>4 DEF Serve, ServeLogin, ServeSignedOut, ServeRoster, ServeCreator
  <2>2. list \in SUBSET Creator
    BY <1>1, <2>1 DEF ListOf
  <2>3. Others'
    BY <1>1, <2>1 DEF Others
  <2> QED BY <1>1, <2>1, <2>2, <2>3, ReplyStep DEF Reply
<1>5. CASE m.kind \notin {"login", "roster"} /\ session
  <2>1. /\ Answer(m, IF Exists(m) THEN "ok" ELSE "error", {})
        /\ db' = db \/ db' = db \ {m.id}
        /\ UNCHANGED <<session, cut>>
    BY <1>5 DEF Serve, ServeLogin, ServeSignedOut, ServeRoster, ServeCreator
  <2>2. Others'
    BY <1>1, <2>1 DEF Others
  <2> QED BY <1>1, <2>1, <2>2, ReplyStep DEF Reply
<1> QED BY <1>1, <1>2, <1>3, <1>4, <1>5, Zenon

LEMMA FailStep ==
    ASSUME IInv, NEW m, Fail(m)
    PROVE  IInv'
<1>1. /\ Due(m) /\ Answer(m, "error", {})
      /\ UNCHANGED <<ui, roster, session, clicks, sessions, mixed, cut>>
  BY DEF Fail
<1>2. m.kind = "delete" => m.id \in Creator
  BY <1>1, Now DEF Due, BagIn, Base, Named
<1>3. db' \subseteq Creator /\ ghosts' \subseteq Creator /\ faults' \in Nat
  BY <1>2, Now DEF Fail, Others
<1>4. Others'
  BY <1>1, <1>3, Now DEF Others
<1> QED BY <1>1, <1>4, ReplyStep DEF Reply

LEMMA ExpireStep ==
    ASSUME IInv, Expire
    PROVE  IInv'
<1>1. /\ UNCHANGED <<ui, roster, net, mixed, db, clicks, faults, ghosts, cut>>
      /\ session' = FALSE /\ sessions' \in Nat
  BY Now DEF Expire, Others
<1>2. Others'
  BY <1>1, Now DEF Others
<1> QED BY <1>1, <1>2, Now DEF IInv

-----------------------------------------------------------------------------
(* The answers.                                                            *)

LEMMA AnsweredNow ==
    ASSUME IInv, NEW m, NEW kind, Answered(m, kind)
    PROVE  /\ m \in BagToSet(net) /\ m \in Message /\ m.kind = kind /\ m.answer \in Reply
           /\ kind \in AboutOne \cup {"delete"} => m.id \in Creator
  BY Now DEF Answered, BagIn, Base, Named, Message

\* A step that handles an answer and asks for nothing.
LEMMA AnswerStep ==
    ASSUME IInv, NEW m \in BagToSet(net), NEW v \in Ui, ui' = v, net' = Rest(m),
           v.view \in {ui.view, "login"}, m.kind = "session" => v.view = "login",
           IF m.kind = "details" THEN ~v.saving ELSE v.saving = ui.saving,
           IF m.kind = "delete" THEN ~v.deleting ELSE v.deleting = ui.deleting,
           IF m.kind = "login" THEN ~v.loggingIn ELSE v.loggingIn = ui.loggingIn,
           v.profileLoading => ui.profileLoading /\ m.kind # "profile",
           v.contractsLoading => ui.contractsLoading /\ m.kind # "contracts",
           v.view = "app" /\ roster' = None => roster = None /\ m.kind # "roster",
           v.profile \in {None, ui.profile} \/ (m.kind \in AboutOne /\ v.profile = m.id),
           v.full \in {None, Empty, ui.full} \/ (m.kind \in AboutOne /\ v.full = m.id),
           v.selected \in {None, ui.selected},
           roster' \in [Creator -> Nat] \cup {None},
           UNCHANGED <<server, clicks, faults, mixed, ghosts>>
    PROVE  IInv'
<1>1. Base(ui, roster, net) /\ IsABag(net)
  BY Now
<1>2. Base(v, roster', BagRemove(net, m))
  BY <1>1, HandledBase
<1>3. \A c : About(c, ui, net) => About(c, v, BagRemove(net, m))
  BY <1>1, HandledAbout
<1>4. Others'
  BY Now DEF Others, server
<1> QED BY <1>2, <1>3, <1>4 DEF IInv, Good, Rest

LEMMA EnterStep ==
    ASSUME IInv, NEW m \in BagToSet(net), m.kind \in {"session", "login"}, Enter(ui, m),
           UNCHANGED <<server, clicks, faults>>
    PROVE  IInv'
<1> DEFINE u == [ui EXCEPT !.view = "app", !.loggingIn = FALSE, !.rosterError = FALSE]
           next == Route(u, ui.url)
           v == [next EXCEPT !.view = "login"]
           ask == Request("roster", None)
           queue == BagAdd(Rest(m), ask)
<1>1. /\ roster' = None /\ ghosts' = ghosts \cup {d.id : d \in Pending({"delete"})}
      /\ IF next.selected = None
         THEN ui' = next /\ net' = queue /\ UNCHANGED mixed
         ELSE LoadProfile(next, next.selected, queue)
  BY DEF Enter
<1>2. /\ next \in Ui /\ next.view = "app" /\ ~next.loggingIn
      /\ next.saving = ui.saving /\ next.deleting = ui.deleting
      /\ next.profileLoading = ui.profileLoading
      /\ next.contractsLoading = ui.contractsLoading
      /\ next.profile = ui.profile /\ next.full = ui.full
      /\ next.selected \in Creator \cup {None}
  BY Now DEF Route, Ui
<1> HIDE DEF next
<1>3. /\ v \in Ui /\ v.view = "login" /\ ~v.loggingIn
      /\ v.saving = ui.saving /\ v.deleting = ui.deleting
      /\ v.profileLoading = ui.profileLoading
      /\ v.contractsLoading = ui.contractsLoading
      /\ v.profile = ui.profile /\ v.full = ui.full /\ v.selected = next.selected
  BY <1>2 DEF Ui
<1> HIDE DEF v
<1>4. m.kind = "session" => ~ui.loggingIn
  <2> SUFFICES ASSUME m.kind = "session", ui.loggingIn PROVE FALSE
    OBVIOUS
  <2>1. Flags(ui, roster, net) /\ Start(ui, net)
    BY Now DEF Base
  <2>2. ui.view = "loading"
    BY <2>1 DEF Start, InFlight
  <2>3. PICK x \in InFlight({"login"}, net) : TRUE
    BY <2>1 DEF Flags, Alone
  <2> QED BY <2>1, <2>2, <2>3 DEF Start, InFlight
<1>5. ui.loggingIn \in BOOLEAN /\ Base(ui, roster, net) /\ IsABag(net)
  BY Now DEF Ui
<1>6. Base(v, None, Rest(m))
  <2>1. IF m.kind = "login" THEN ~v.loggingIn ELSE v.loggingIn = ui.loggingIn
    BY <1>3, <1>4, <1>5, Now DEF Ui
  <2> QED BY <1>3, <1>5, <2>1, HandledBase DEF Rest
<1>7. ask \in Message /\ ask.kind = "roster"
  BY RequestGood DEF Kind
<1> HIDE DEF ask
<1>8. Base(next, None, queue)
  <2>1. next.loggingIn = v.loggingIn
    BY <1>2, <1>3 DEF Ui
  <2> QED BY <1>2, <1>3, <1>6, <1>7, <2>1, SendBase DEF AboutOne
<1>9. ghosts' \subseteq Creator
  BY <1>1, Now DEF Others, Pending, InFlight, Base, Named
<1>10. mixed' \in BOOLEAN
  BY <1>1, Now, MixedGood DEF LoadProfile, Others
<1>11. Others'
  BY <1>1, <1>9, <1>10, Now DEF Others, server
<1>12. CASE next.selected = None
  <2>1. IsABag(Rest(m))
    BY <1>6 DEF Base
  <2>2. \A c : About(c, ui, net) => About(c, next, queue)
    <3> SUFFICES ASSUME NEW c, About(c, ui, net) PROVE About(c, next, queue)
      OBVIOUS
    <3>1. About(c, v, Rest(m))
      BY <1>3, <1>5, <1>12, HandledAbout DEF Rest
    <3> QED BY <1>2, <1>3, <1>7, <1>12, <2>1, <3>1, SendAbout DEF AboutOne
  <2> HIDE DEF queue
  <2> QED BY <1>1, <1>8, <1>11, <1>12, <2>2, Now DEF IInv, Good
<1>13. CASE next.selected # None
  <2> HIDE DEF queue
  <2> QED BY <1>1, <1>2, <1>8, <1>11, <1>13, LoadStep
<1> QED BY <1>12, <1>13

LEMMA SessionStep ==
    ASSUME IInv, NEW m, SessionAnswer(m)
    PROVE  IInv'
<1>1. m \in BagToSet(net) /\ m.kind = "session" /\ UNCHANGED <<server, clicks, faults>>
  BY AnsweredNow DEF SessionAnswer
<1>2. CASE m.answer = "ok"
  BY <1>1, <1>2, EnterStep DEF SessionAnswer
<1>3. CASE m.answer # "ok"
  <2> DEFINE v == [ui EXCEPT !.view = "login"]
  <2>1. /\ ui' = v /\ net' = Rest(m) /\ UNCHANGED <<roster, mixed, ghosts>>
    BY <1>3 DEF SessionAnswer
  <2>2. /\ v \in Ui /\ v.view = "login" /\ v.saving = ui.saving /\ v.deleting = ui.deleting
        /\ v.loggingIn = ui.loggingIn /\ v.profileLoading = ui.profileLoading
        /\ v.contractsLoading = ui.contractsLoading /\ v.profile = ui.profile
        /\ v.full = ui.full /\ v.selected = ui.selected
    BY Now DEF Ui
  <2> HIDE DEF v
  <2> QED BY <1>1, <2>1, <2>2, Now, AnswerStep DEF Others
<1> QED BY <1>2, <1>3

LEMMA LoginStep ==
    ASSUME IInv, NEW m, LoginAnswer(m)
    PROVE  IInv'
<1>1. m \in BagToSet(net) /\ m.kind = "login" /\ UNCHANGED <<server, clicks, faults>>
  BY AnsweredNow DEF LoginAnswer
<1>2. CASE m.answer = "ok"
  BY <1>1, <1>2, EnterStep DEF LoginAnswer
<1>3. CASE m.answer # "ok"
  <2> DEFINE v == [ui EXCEPT !.loggingIn = FALSE]
  <2>1. /\ ui' = v /\ net' = Rest(m) /\ UNCHANGED <<roster, mixed, ghosts>>
    BY <1>3 DEF LoginAnswer
  <2>2. /\ v \in Ui /\ v.view = ui.view /\ v.saving = ui.saving /\ v.deleting = ui.deleting
        /\ ~v.loggingIn /\ v.profileLoading = ui.profileLoading
        /\ v.contractsLoading = ui.contractsLoading /\ v.profile = ui.profile
        /\ v.full = ui.full /\ v.selected = ui.selected
    BY Now DEF Ui
  <2> HIDE DEF v
  <2> QED BY <1>1, <2>1, <2>2, Now, AnswerStep DEF Others
<1> QED BY <1>2, <1>3

LEMMA RosterStep ==
    ASSUME IInv, NEW m, RosterAnswer(m)
    PROVE  IInv'
<1>1. /\ m \in BagToSet(net) /\ m.kind = "roster" /\ m.answer \in Reply /\ net' = Rest(m)
      /\ UNCHANGED <<server, clicks, faults, mixed, ghosts>>
  BY AnsweredNow DEF RosterAnswer
<1>2. \E v \in Ui :
          /\ ui' = v /\ v.view \in {ui.view, "login"} /\ v.saving = ui.saving
          /\ v.deleting = ui.deleting /\ v.loggingIn = ui.loggingIn
          /\ v.profileLoading = ui.profileLoading
          /\ v.contractsLoading = ui.contractsLoading /\ v.profile = ui.profile
          /\ v.full = ui.full /\ v.selected = ui.selected
          /\ roster' \in [Creator -> Nat] \cup {None}
          /\ v.view = "app" => roster' # None
  <2>1. CASE m.answer = "ok"
    <3>1. ui' = ui /\ roster' = [c \in Creator |-> IF c \in m.list THEN 1 ELSE 0]
      BY <2>1 DEF RosterAnswer
    <3>2. roster' \in [Creator -> Nat]
      BY <3>1
    <3> QED BY <3>1, <3>2, Now, NoneAssumption
  <2>2. CASE m.answer = "401" \/ (m.answer = "error" /\ ui.view = "login")
    <3> DEFINE v == [ui EXCEPT !.view = "login"]
    <3>1. ui' = v /\ roster' = roster
      BY <2>2 DEF RosterAnswer
    <3>2. v \in Ui /\ v.view = "login"
      BY Now DEF Ui
    <3> QED BY <3>1, <3>2, Now DEF Ui, Others
  <2>3. CASE m.answer = "error" /\ ui.view # "login"
    <3> DEFINE v == [ui EXCEPT !.rosterError = TRUE]
    <3>1. ui' = v /\ roster' = [c \in Creator |-> 0]
      BY <2>3 DEF RosterAnswer
    <3>2. roster' \in [Creator -> Nat]
      BY <3>1
    <3>3. v \in Ui
      BY Now DEF Ui
    <3> QED BY <3>1, <3>2, <3>3, Now, NoneAssumption DEF Ui
  <2> QED BY <1>1, <2>1, <2>2, <2>3 DEF Reply
<1> QED BY <1>1, <1>2, AnswerStep

LEMMA ProfileStep ==
    ASSUME IInv, NEW m, ProfileAnswer(m)
    PROVE  IInv'
<1> DEFINE u == [ui EXCEPT !.profileLoading = FALSE,
                           !.profile = IF m.answer = "ok" THEN m.id ELSE None]
           v == IF m.answer = "401" THEN SignedOut(u) ELSE u
<1>1. /\ m \in BagToSet(net) /\ m.kind = "profile" /\ m.id \in Creator
      /\ ui' = v /\ net' = Rest(m) /\ UNCHANGED <<roster, server, clicks, faults, mixed, ghosts>>
  BY AnsweredNow DEF ProfileAnswer, AboutOne
<1>2. /\ v \in Ui /\ v.view \in {ui.view, "login"} /\ v.saving = ui.saving
      /\ v.deleting = ui.deleting /\ v.loggingIn = ui.loggingIn /\ ~v.profileLoading
      /\ v.contractsLoading = ui.contractsLoading /\ v.profile \in {None, m.id}
      /\ v.full = ui.full /\ v.selected \in {None, ui.selected}
  BY <1>1, Now DEF Ui, SignedOut
<1> HIDE DEF v
<1> QED BY <1>1, <1>2, Now, AnswerStep DEF Others, AboutOne

LEMMA ContractsStep ==
    ASSUME IInv, NEW m, ContractsAnswer(m)
    PROVE  IInv'
<1> DEFINE u == [ui EXCEPT !.contractsLoading = FALSE]
<1>1. /\ m \in BagToSet(net) /\ m.kind = "contracts" /\ m.id \in Creator /\ m.answer \in Reply
      /\ net' = Rest(m) /\ UNCHANGED <<roster, server, clicks, faults, mixed, ghosts>>
  BY AnsweredNow DEF ContractsAnswer, AboutOne
<1>2. \E v \in Ui :
          /\ ui' = v /\ v.view \in {ui.view, "login"} /\ v.saving = ui.saving
          /\ v.deleting = ui.deleting /\ v.loggingIn = ui.loggingIn
          /\ v.profileLoading = ui.profileLoading
          /\ ~v.contractsLoading /\ v.profile = ui.profile
          /\ v.full \in {None, Empty, m.id} /\ v.selected \in {None, ui.selected}
  <2>1. CASE m.answer = "ok"
    <3> DEFINE w == [u EXCEPT !.full = m.id, !.modal = TRUE]
    <3>1. ui' = Sync(w)
      BY <2>1 DEF ContractsAnswer
    <3>2. /\ w \in Ui /\ w.view = ui.view /\ w.saving = ui.saving
          /\ w.deleting = ui.deleting /\ w.loggingIn = ui.loggingIn
          /\ w.profileLoading = ui.profileLoading
          /\ ~w.contractsLoading /\ w.profile = ui.profile
          /\ w.full = m.id /\ w.selected = ui.selected
      BY <1>1, Now DEF Ui
    <3> HIDE DEF w
    <3> QED BY <3>1, <3>2, SyncKeeps
  <2>2. CASE m.answer = "401"
    <3> DEFINE w == SignedOut([u EXCEPT !.full = None])
    <3>1. ui' = w
      BY <2>2 DEF ContractsAnswer
    <3>2. /\ w \in Ui /\ w.view = "login" /\ w.saving = ui.saving
          /\ w.deleting = ui.deleting /\ w.loggingIn = ui.loggingIn
          /\ w.profileLoading = ui.profileLoading
          /\ ~w.contractsLoading /\ w.profile = ui.profile
          /\ w.full = None /\ w.selected = None
      BY Now DEF Ui, SignedOut
    <3> QED BY <3>1, <3>2
  <2>3. CASE m.answer = "error"
    <3> DEFINE w == [u EXCEPT !.full = IF u.view = "login" THEN None ELSE Empty]
    <3>1. ui' = w
      BY <2>3 DEF ContractsAnswer
    <3>2. /\ w \in Ui /\ w.view = ui.view /\ w.saving = ui.saving
          /\ w.deleting = ui.deleting /\ w.loggingIn = ui.loggingIn
          /\ w.profileLoading = ui.profileLoading
          /\ ~w.contractsLoading /\ w.profile = ui.profile
          /\ w.full \in {None, Empty} /\ w.selected = ui.selected
      BY Now DEF Ui
    <3> QED BY <3>1, <3>2
  <2> QED BY <1>1, <2>1, <2>2, <2>3 DEF Reply
<1> QED BY <1>1, <1>2, Now, AnswerStep DEF Others, AboutOne

LEMMA DetailsStep ==
    ASSUME IInv, NEW m, DetailsAnswer(m)
    PROVE  IInv'
<1> DEFINE u == [ui EXCEPT !.saving = FALSE]
<1>1. /\ m \in BagToSet(net) /\ m.kind = "details" /\ m.id \in Creator /\ m.answer \in Reply
      /\ net' = Rest(m) /\ UNCHANGED <<roster, server, clicks, faults, mixed, ghosts>>
  BY AnsweredNow DEF DetailsAnswer, AboutOne
<1>2. \E v \in Ui :
          /\ ui' = v /\ v.view \in {ui.view, "login"} /\ ~v.saving
          /\ v.deleting = ui.deleting /\ v.loggingIn = ui.loggingIn
          /\ v.profileLoading = ui.profileLoading
          /\ v.contractsLoading = ui.contractsLoading
          /\ v.profile \in {ui.profile, m.id}
          /\ v.full \in {None, ui.full} /\ v.selected \in {None, ui.selected}
  <2>1. CASE m.answer = "ok"
    <3> DEFINE w == [u EXCEPT !.profile = m.id, !.full = None, !.editing = @ \ {m.card}]
    <3>1. ui' = w
      BY <2>1 DEF DetailsAnswer
    <3>2. /\ w \in Ui /\ w.view = ui.view /\ ~w.saving
          /\ w.deleting = ui.deleting /\ w.loggingIn = ui.loggingIn
          /\ w.profileLoading = ui.profileLoading
          /\ w.contractsLoading = ui.contractsLoading /\ w.profile = m.id
          /\ w.full = None /\ w.selected = ui.selected
      BY <1>1, Now DEF Ui
    <3> QED BY <3>1, <3>2
  <2>2. CASE m.answer \in {"401", "error"}
    <3> DEFINE w == IF m.answer = "401" THEN SignedOut(u) ELSE u
    <3>1. ui' = w
      BY <2>2 DEF DetailsAnswer
    <3>2. /\ w \in Ui /\ w.view \in {ui.view, "login"} /\ ~w.saving
          /\ w.deleting = ui.deleting /\ w.loggingIn = ui.loggingIn
          /\ w.profileLoading = ui.profileLoading
          /\ w.contractsLoading = ui.contractsLoading /\ w.profile = ui.profile
          /\ w.full = ui.full /\ w.selected \in {None, ui.selected}
      BY Now DEF Ui, SignedOut
    <3> QED BY <3>1, <3>2
  <2> QED BY <1>1, <2>1, <2>2 DEF Reply
<1> QED BY <1>1, <1>2, Now, AnswerStep DEF Others, AboutOne

LEMMA DeleteStep ==
    ASSUME IInv, NEW m, DeleteAnswer(m)
    PROVE  IInv'
<1> DEFINE v == IF m.answer = "401"
                THEN [[ui EXCEPT !.deleting = FALSE] EXCEPT !.view = "login"]
                ELSE [ui EXCEPT !.deleting = FALSE]
<1>1. /\ m \in BagToSet(net) /\ m.kind = "delete" /\ m.id \in Creator
      /\ ui' = v /\ net' = Rest(m) /\ UNCHANGED <<server, clicks, faults, mixed, ghosts>>
      /\ roster' \in {roster, PutBack(m)}
  BY AnsweredNow DEF DeleteAnswer
<1>2. /\ v \in Ui /\ v.view \in {ui.view, "login"} /\ v.saving = ui.saving
      /\ ~v.deleting /\ v.loggingIn = ui.loggingIn
      /\ v.profileLoading = ui.profileLoading
      /\ v.contractsLoading = ui.contractsLoading
      /\ v.profile = ui.profile /\ v.full = ui.full /\ v.selected = ui.selected
  BY Now DEF Ui
<1> HIDE DEF v
<1>3. roster' \in [Creator -> Nat] \cup {None} /\ (roster' = None => roster = None)
  <2>1. roster \in [Creator -> Nat] \cup {None}
    BY Now DEF Others
  <2>2. CASE roster' = roster
    BY <2>1, <2>2
  <2>3. CASE roster' # roster
    <3>1. roster # None /\ roster' = [roster EXCEPT ![m.id] = @ + 1]
      BY <1>1, <2>3 DEF PutBack
    <3>2. roster' \in [Creator -> Nat]
      BY <1>1, <2>1, <3>1
    <3> QED BY <3>2, NoneAssumption
  <2> QED BY <2>2, <2>3
<1> QED BY <1>1, <1>2, <1>3, AnswerStep

-----------------------------------------------------------------------------
(* The invariant.                                                          *)

LEMMA InitGood == ASSUME Init PROVE IInv
<1> DEFINE m == Request("session", None)
<1>1. /\ ui \in Ui /\ ui.view = "loading" /\ ~ui.deleteOpen /\ ~ui.saving /\ ~ui.deleting
      /\ ~ui.loggingIn /\ ~ui.profileLoading /\ ~ui.contractsLoading
      /\ ui.selected = None /\ ui.profile = None /\ ui.full = None
  <2>1. PICK url \in {"roster", "scouts"} \cup Creator :
            ui = [view |-> "loading", page |-> "roster", url |-> url, selected |-> None,
                  profile |-> None, profileLoading |-> FALSE, full |-> None,
                  contractsLoading |-> FALSE, modal |-> FALSE, editing |-> {},
                  saving |-> FALSE, deleteOpen |-> FALSE, typed |-> FALSE,
                  deleting |-> FALSE, loggingIn |-> FALSE, rosterError |-> FALSE]
    BY DEF Init
  <2> QED BY <2>1 DEF Ui
<1>2. m \in Message /\ m.kind = "session"
  BY RequestGood DEF Kind
<1>3. net = SetToBag({m})
  BY DEF Init
<1> HIDE DEF m
<1>4. IsABag(net) /\ BagToSet(net) = {m} /\ net[m] = 1
  BY <1>3 DEF SetToBag, IsABag, BagToSet
<1>5. InFlight({"session"}, net) = {m}
      /\ \A k : k # "session" => InFlight({k}, net) = {}
  BY <1>2, <1>4 DEF InFlight
<1>6. Flags(ui, roster, net)
  BY <1>1, <1>5 DEF Flags
<1>7. Start(ui, net)
  BY <1>1, <1>2, <1>4, <1>5 DEF Start, Alone
<1>8. Named(net) /\ BagToSet(net) \subseteq Message
  BY <1>2, <1>4 DEF Named, AboutOne
<1>9. About(None, ui, net)
  BY <1>1, <1>2, <1>4 DEF About, InFlight, AboutOne
<1>10. Others
  BY DEF Init, Others
<1> QED BY <1>1, <1>4, <1>6, <1>7, <1>8, <1>9, <1>10 DEF IInv, Good, Base

LEMMA NextGood == ASSUME IInv, [Next]_vars PROVE IInv'
<1>1. CASE UNCHANGED vars
  BY <1>1 DEF vars, IInv, Others
<1>2. CASE Administrator
  <2>1. ASSUME NEW id \in Creator, Open(id) PROVE IInv'
    BY <2>1, OpenStep
  <2>2. ASSUME NEW p \in {"roster", "scouts"}, GoTo(p) PROVE IInv'
    BY <2>2, LinkStep
  <2>3. CASE Back \/ SignOut
    BY <2>3, LinkStep
  <2>4. ASSUME NEW t \in {"roster", "scouts"} \cup Creator, Navigate(t) \/ NavigateEarly(t)
        PROVE  IInv'
    BY <2>4, NavigateStep, NavigateEarlyStep
  <2>5. CASE EditCards \/ CloseContract \/ OpenDelete \/ UseDialog
    BY <2>5, DialogStep
  <2>6. ASSUME NEW c \in Card, Save(c) PROVE IInv'
    BY <2>6, SaveStep
  <2>7. CASE ViewContract
    BY <2>7, ViewContractStep
  <2>8. CASE ConfirmDelete
    BY <2>8, ConfirmDeleteStep
  <2>9. CASE SignIn
    BY <2>9, SignInStep
  <2> QED BY <1>2, <2>1, <2>2, <2>3, <2>4, <2>5, <2>6, <2>7, <2>8, <2>9 DEF Administrator
<1>3. CASE Server
  BY <1>3, ServeStep, FailStep, ExpireStep DEF Server
<1>4. ASSUME NEW m \in BagToSet(net), Handler(m) PROVE IInv'
  BY <1>4, SessionStep, LoginStep, RosterStep, ProfileStep, ContractsStep, DetailsStep,
     DeleteStep DEF Handler
<1> QED BY <1>1, <1>2, <1>3, <1>4 DEF Next

LEMMA InvariantHolds == Spec => []IInv
<1> QED BY InitGood, NextGood, PTL DEF Spec

\* Every state has its type: the list of the roster counts no creator less than
\* zero times, and every answer in the queue is of a known kind.
\* (app.js state, confirmDelete)
THEOREM TypeCorrect == Spec => []TypeOK
<1> QED BY InvariantHolds, Implied, PTL

\* A button or a spinner that waits for an answer waits for one still to come, and
\* a save and a delete are never sent twice at a time.
\* (app.js saveDetails, confirmDelete, loadProfile, loadContractsFull, loadRoster)
THEOREM BusyCorrect == Spec => []BusyHonest
<1> QED BY InvariantHolds, Implied, PTL

\* The profile and the contracts on the screen are those of the creator selected,
\* if nothing was due for another when the profile was opened.
\* (app.js loadProfile, applyHashToState)
THEOREM ShownCorrect == Spec => []ShownIsSelected
<1> QED BY InvariantHolds, Implied, PTL

-----------------------------------------------------------------------------
(* The list of the roster, the deletes in flight, and the creators there   *)
(* are.                                                                    *)

\* A list that is answered has all there are but those that were left out, and no
\* other but ghosts.
Lists(B, D, G, X) ==
    \A m \in InFlight({"roster"}, B) :
        m.answer = "ok" => D \ X \subseteq m.list /\ m.list \ D \subseteq G

\* Who is being deleted while a list is due, or is listed again, is a ghost; so is
\* one whose row may be put back though he is gone.
Deletes(r, B, D, G) ==
    \A d \in InFlight({"delete"}, B) :
        /\ InFlight({"roster"}, B) # {} => d.id \in G
        /\ d.answer = "ok" => d.id \notin D
        /\ d.row /\ d.id \notin D /\ d.answer # "ok" => d.id \in G
        /\ r # None /\ r[d.id] = 1 => d.id \in G

\* A creator is listed once at most, and one who is gone is a ghost.
Gone(r, D, G) ==
    r # None => \A c \in Creator : r[c] \in {0, 1} /\ (c \notin D /\ r[c] = 1 => c \in G)

\* The row of a creator was taken by a delete that may still put it back.
Taken(c, B) == \E d \in InFlight({"delete"}, B) : d.id = c /\ d.row /\ d.answer # "ok"

Present(u, r, B, D, X) ==
    u.view = "app" /\ r # None /\ ~u.rosterError => \A c \in D \ X : r[c] = 1 \/ Taken(c, B)

Ledger(u, r, B, D, G, X) ==
    Lists(B, D, G, X) /\ Deletes(r, B, D, G) /\ Gone(r, D, G) /\ Present(u, r, B, D, X)

\* The strengthening of the invariant.
Books == Ledger(ui, roster, net, db, ghosts, cut)

LEMMA BooksImply == IInv /\ Books => RosterAgrees
<1> SUFFICES ASSUME IInv, Books, ListSettled, NEW c \in Creator
             PROVE  /\ c \in db => roster[c] = 1 \/ (roster[c] = 0 /\ c \in cut)
                    /\ c \notin db => roster[c] = 0 \/ (roster[c] = 1 /\ c \in ghosts)
  BY DEF RosterAgrees
<1>1. InFlight({"delete"}, net) = {}
  BY DEF ListSettled, Pending, InFlight
<1>2. ui.view = "app" /\ roster # None /\ ~ui.rosterError
  BY DEF ListSettled
<1>3. Gone(roster, db, ghosts) /\ Present(ui, roster, net, db, cut)
  BY DEF Books, Ledger
<1> QED BY <1>1, <1>2, <1>3 DEF Gone, Present, Taken

\* The page does not enter, and its list has not failed since.
Tame(u, v) == (v.view = "app" => u.view = "app") /\ v.rosterError = u.rosterError

\* The lists and deletes in flight are the same.
Quiet(B, C) == \A k \in {"roster", "delete"} : InFlight({k}, C) = InFlight({k}, B)

LEMMA QuietStep ==
    ASSUME Books, Tame(ui, ui'), Quiet(net, net'), UNCHANGED <<roster, db, ghosts, cut>>
    PROVE  Books'
<1>1. InFlight({"roster"}, net') = InFlight({"roster"}, net)
      /\ InFlight({"delete"}, net') = InFlight({"delete"}, net)
  BY DEF Quiet
<1>2. Lists(net, db, ghosts, cut)' /\ Deletes(roster, net, db, ghosts)' /\ Gone(roster, db, ghosts)'
  BY <1>1 DEF Books, Ledger, Lists, Deletes, Gone
<1>3. Present(ui, roster, net, db, cut)'
  BY <1>1 DEF Books, Ledger, Present, Taken, Tame
<1> QED BY <1>2, <1>3 DEF Books, Ledger

LEMMA AddOthers ==
    ASSUME NEW B, IsABag(B), NEW m
    PROVE  LET C == BagAdd(B, m) IN
           \A k : k # m.kind => InFlight({k}, C) = InFlight({k}, B)
<1> DEFINE C == BagAdd(B, m)
<1>1. IsABag(C) /\ BagToSet(C) = BagToSet(B) \cup {m}
  BY AddBag
<1> HIDE DEF C
<1>2. \A k : k # m.kind => InFlight({k}, C) = InFlight({k}, B)
  BY <1>1 DEF InFlight
<1> QED BY <1>2 DEF C

LEMMA AddListOrDelete ==
    ASSUME NEW B, IsABag(B), NEW m
    PROVE  LET C == BagAdd(B, m) IN
           /\ IsABag(C)
           /\ m.kind = "delete" => /\ InFlight({"delete"}, C) = InFlight({"delete"}, B) \cup {m}
                                  /\ InFlight({"roster"}, C) = InFlight({"roster"}, B)
           /\ m.kind = "roster" => /\ InFlight({"roster"}, C) = InFlight({"roster"}, B) \cup {m}
                                  /\ InFlight({"delete"}, C) = InFlight({"delete"}, B)
<1> DEFINE C == BagAdd(B, m)
<1>1. IsABag(C) /\ BagToSet(C) = BagToSet(B) \cup {m}
  BY AddBag
<1> HIDE DEF C
<1> QED BY <1>1 DEF InFlight, C

LEMMA QuietQueue ==
    ASSUME NEW B, IsABag(B), NEW m, m.kind \notin {"roster", "delete"}
    PROVE  /\ Quiet(B, BagAdd(B, m))
           /\ m \in BagToSet(B) => Quiet(B, BagRemove(B, m))
           /\ m \in BagToSet(B) => \A n : n.kind = m.kind => Quiet(B, BagAdd(BagRemove(B, m), n))
<1>1. Quiet(B, BagAdd(B, m))
  <2>1. \A k : k # m.kind => InFlight({k}, BagAdd(B, m)) = InFlight({k}, B)
    BY AddOthers
  <2> QED BY <2>1 DEF Quiet
<1>2. ASSUME m \in BagToSet(B) PROVE Quiet(B, BagRemove(B, m))
  BY <1>2, RemoveKind DEF Quiet
<1>3. ASSUME m \in BagToSet(B), NEW n, n.kind = m.kind
      PROVE  Quiet(B, BagAdd(BagRemove(B, m), n))
  <2>1. IsABag(BagRemove(B, m))
    BY <1>3, RemoveBag
  <2>2. Quiet(BagRemove(B, m), BagAdd(BagRemove(B, m), n))
    <3>1. \A k : k # n.kind => InFlight({k}, BagAdd(BagRemove(B, m), n)) = InFlight({k}, BagRemove(B, m))
      BY <2>1, AddOthers
    <3> QED BY <1>3, <3>1 DEF Quiet
  <2> QED BY <1>2, <1>3, <2>2 DEF Quiet
<1> QED BY <1>1, <1>2, <1>3

LEMMA SyncTame ==
    ASSUME NEW u \in Ui, NEW w \in Ui, Tame(u, w)
    PROVE  Tame(u, Sync(w)) /\ Sync(w) \in Ui
<1>1. Sync(w) \in Ui /\ \E url : Sync(w) = [w EXCEPT !.url = url]
  BY SyncGood
<1>2. Sync(w).view = w.view /\ Sync(w).rosterError = w.rosterError
  BY <1>1 DEF Ui
<1> QED BY <1>1, <1>2 DEF Tame

LEMMA LoadTame ==
    ASSUME NEW u \in Ui, NEW w \in Ui, Tame(u, w)
    PROVE  Tame(u, Loading(w))
  BY DEF Tame, Loading, Ui

LEMMA SignedOutTame ==
    ASSUME NEW u \in Ui, NEW w \in Ui, Tame(u, w)
    PROVE  Tame(u, SignedOut(w))
  BY DEF Tame, SignedOut, Ui

\* A profile is opened.
LEMMA QuietLoad ==
    ASSUME IInv, Books, NEW w \in Ui, Tame(ui, w), NEW id, LoadProfile(w, id, net),
           UNCHANGED <<roster, db, ghosts, cut>>
    PROVE  Books'
<1>1. ui' = Loading(w) /\ net' = BagAdd(net, Request("profile", id))
  BY DEF LoadProfile
<1>2. Tame(ui, ui')
  BY <1>1, Now, LoadTame
<1>3. Quiet(net, net')
  <2>1. Request("profile", id).kind = "profile"
    BY DEF Request
  <2> QED BY <1>1, <2>1, Now, QuietQueue
<1> QED BY <1>2, <1>3, QuietStep

\* A click that asks for no list and no delete.
LEMMA QuietClick ==
    ASSUME IInv, Books, Tame(ui, ui'), UNCHANGED <<roster, db, ghosts, cut>>,
           UNCHANGED net \/ \E m : Send(m) /\ m.kind \notin {"roster", "delete"}
    PROVE  Books'
<1>1. CASE UNCHANGED net
  BY <1>1, QuietStep DEF Quiet
<1>2. CASE \E m : Send(m) /\ m.kind \notin {"roster", "delete"}
  BY <1>2, Now, QuietQueue, QuietStep DEF Send
<1> QED BY <1>1, <1>2

LEMMA OpenBooks ==
    ASSUME IInv, Books, NEW id \in Creator, Open(id)
    PROVE  Books'
<1> DEFINE w == [ui EXCEPT !.selected = id]
<1>1. w \in Ui /\ Tame(ui, w)
  BY Now DEF Ui, Tame
<1> HIDE DEF w
<1>2. Sync(w) \in Ui /\ Tame(ui, Sync(w))
  BY <1>1, Now, SyncTame
<1> QED BY <1>2, QuietLoad DEF Open, server, w

LEMMA NavigateBooks ==
    ASSUME IInv, Books, NEW target \in {"roster", "scouts"} \cup Creator, Navigate(target)
    PROVE  Books'
<1> DEFINE next == Route([ui EXCEPT !.url = target], target)
           reset == [next EXCEPT !.editing = {}, !.deleteOpen = FALSE, !.typed = FALSE]
           gone == [reset EXCEPT !.profile = None]
<1>1. /\ UNCHANGED <<roster, db, ghosts, cut>>
      /\ \/ UNCHANGED net /\ ui' \in {next, reset, gone}
         \/ LoadProfile(reset, target, net)
  BY DEF Navigate, server
<1>2. next \in Ui /\ Tame(ui, next)
  BY Now DEF Route, Ui, Tame
<1> HIDE DEF next
<1>3. reset \in Ui /\ Tame(ui, reset)
  BY <1>2 DEF Ui, Tame
<1> HIDE DEF reset
<1>4. Tame(ui, gone)
  BY <1>3 DEF Ui, Tame
<1> HIDE DEF gone
<1> QED BY <1>1, <1>2, <1>3, <1>4, QuietLoad, QuietClick

LEMMA LinkBooks ==
    ASSUME IInv, Books, NEW p \in {"roster", "scouts"}, Back \/ GoTo(p) \/ SignOut
    PROVE  Books'
<1>1. UNCHANGED <<roster, net, db, ghosts, cut>>
  BY DEF Back, GoTo, SignOut, server
<1>2. Tame(ui, ui')
  <2>1. CASE Back
    <3> DEFINE w == [ui EXCEPT !.selected = None, !.profile = None]
    <3>1. w \in Ui /\ Tame(ui, w) /\ ui' = Sync(w)
      BY <2>1, Now DEF Back, Ui, Tame
    <3> HIDE DEF w
    <3> QED BY <3>1, Now, SyncTame
  <2>2. CASE GoTo(p)
    <3> DEFINE w == [ui EXCEPT !.selected = None, !.page = p]
    <3>1. w \in Ui /\ Tame(ui, w) /\ ui' = Sync(w)
      BY <2>2, Now DEF GoTo, Ui, Tame
    <3> HIDE DEF w
    <3> QED BY <3>1, Now, SyncTame
  <2>3. CASE SignOut
    BY <2>3, Now DEF SignOut, Ui, Tame
  <2> QED BY <2>1, <2>2, <2>3
<1> QED BY <1>1, <1>2, QuietClick

LEMMA DialogBooks ==
    ASSUME IInv, Books, EditCards \/ CloseContract \/ OpenDelete \/ UseDialog
    PROVE  Books'
<1>1. UNCHANGED <<roster, net, db, ghosts, cut>>
  BY DEF EditCards, CloseContract, OpenDelete, UseDialog, server
<1>2. Tame(ui, ui')
  <2>1. CASE EditCards
    BY <2>1, Now DEF EditCards, Ui, Tame
  <2>2. CASE CloseContract
    <3> DEFINE w == [ui EXCEPT !.modal = FALSE]
    <3>1. w \in Ui /\ Tame(ui, w) /\ ui' = Sync(w)
      BY <2>2, Now DEF CloseContract, Ui, Tame
    <3> HIDE DEF w
    <3> QED BY <3>1, Now, SyncTame
  <2>3. CASE OpenDelete
    <3> DEFINE w == [ui EXCEPT !.deleteOpen = TRUE, !.typed = FALSE]
    <3>1. w \in Ui /\ Tame(ui, w) /\ ui' = Sync(w)
      BY <2>3, Now DEF OpenDelete, Ui, Tame
    <3> HIDE DEF w
    <3> QED BY <3>1, Now, SyncTame
  <2>4. CASE UseDialog
    <3> DEFINE w == [ui EXCEPT !.deleteOpen = FALSE, !.typed = FALSE]
    <3>1. w \in Ui /\ Tame(ui, w) /\ (ui' = Sync(w) \/ ui' = [ui EXCEPT !.typed = TRUE])
      BY <2>4, Now DEF UseDialog, Ui, Tame
    <3>2. Tame(ui, [ui EXCEPT !.typed = TRUE])
      BY Now DEF Ui, Tame
    <3> HIDE DEF w
    <3> QED BY <3>1, <3>2, Now, SyncTame
  <2> QED BY <2>1, <2>2, <2>3, <2>4
<1> QED BY <1>1, <1>2, QuietClick

LEMMA AskBooks ==
    ASSUME IInv, Books, NEW c, NEW t,
           Save(c) \/ ViewContract \/ SignIn \/ NavigateEarly(t)
    PROVE  Books'
<1>1. UNCHANGED <<roster, db, ghosts, cut>>
  BY DEF Save, ViewContract, SignIn, NavigateEarly, server
<1>2. UNCHANGED net \/ \E m : Send(m) /\ m.kind \notin {"roster", "delete"}
  <2>1. CASE Save(c)
    <3>1. [Request("details", ui.selected) EXCEPT !.card = c].kind = "details"
      BY DEF Request
    <3> QED BY <2>1, <3>1 DEF Save
  <2>2. CASE ViewContract
    <3>1. Request("contracts", ui.selected).kind = "contracts"
      BY DEF Request
    <3> QED BY <2>2, <3>1 DEF ViewContract
  <2>3. CASE SignIn
    <3>1. Request("login", None).kind = "login"
      BY DEF Request
    <3> QED BY <2>3, <3>1 DEF SignIn
  <2> QED BY <2>1, <2>2, <2>3 DEF NavigateEarly
<1>3. Tame(ui, ui')
  <2>1. CASE ViewContract /\ ui.full # None
    <3> DEFINE w == [ui EXCEPT !.modal = TRUE]
    <3>1. w \in Ui /\ Tame(ui, w) /\ ui' = Sync(w)
      BY <2>1, Now DEF ViewContract, Ui, Tame
    <3> HIDE DEF w
    <3> QED BY <3>1, Now, SyncTame
  <2>2. CASE ViewContract /\ ui.full = None
    BY <2>2, Now DEF ViewContract, Ui, Tame
  <2>3. CASE Save(c)
    BY <2>3, Now DEF Save, Ui, Tame
  <2>4. CASE SignIn
    BY <2>4, Now DEF SignIn, Ui, Tame
  <2>5. CASE NavigateEarly(t)
    BY <2>5, Now DEF NavigateEarly, Ui, Tame
  <2> QED BY <2>1, <2>2, <2>3, <2>4, <2>5
<1> QED BY <1>1, <1>2, <1>3, QuietClick

LEMMA OneDelete ==
    ASSUME IInv, NEW m \in BagToSet(net), m.kind = "delete"
    PROVE  Alone("delete", net) /\ InFlight({"delete"}, net) = {m}
<1>1. Alone("delete", net) /\ m \in InFlight({"delete"}, net)
  BY Now DEF Base, Flags, InFlight
<1> QED BY <1>1 DEF Alone

\* The row goes, and who has it goes with a request.
LEMMA ConfirmDeleteBooks ==
    ASSUME IInv, Books, ConfirmDelete
    PROVE  Books'
<1> PICK id : id = ui.selected
  OBVIOUS
<1> DEFINE row == Rows(roster, id) > 0
           w == [ui EXCEPT !.deleting = TRUE, !.deleteOpen = FALSE, !.typed = FALSE,
                           !.profile = None, !.selected = None, !.editing = {},
                           !.full = None]
           m == [Request("delete", id) EXCEPT !.row = row]
<1>1. id \in Creator /\ InFlight({"delete"}, net) = {} /\ IsABag(net)
  BY Now DEF ConfirmDelete, ConfirmEnabled, OnProfile, Ui, Base, Flags
<1>2. /\ ui' = Sync(w) /\ net' = BagAdd(net, m) /\ db' = db /\ cut' = cut
      /\ roster' = (IF row THEN [roster EXCEPT ![id] = @ - 1] ELSE roster)
      /\ ghosts' = IF InFlight({"roster"}, net) # {} THEN ghosts \cup {id} ELSE ghosts
  BY DEF ConfirmDelete, Send, server, Pending
<1>3. m.kind = "delete" /\ m.id = id /\ (row => m.row) /\ (m.row => row) /\ m.answer = None /\ None # "ok"
  BY NoneAssumption DEF Request, Reply
<1>4. Tame(ui, ui')
  <2>1. w \in Ui /\ Tame(ui, w)
    BY Now DEF Ui, Tame
  <2> HIDE DEF w
  <2> QED BY <1>2, <2>1, Now, SyncTame
<1> HIDE DEF m, row
<1>5. InFlight({"delete"}, net') = {m} /\ InFlight({"roster"}, net') = InFlight({"roster"}, net)
  BY <1>1, <1>2, <1>3, AddListOrDelete
<1>6. /\ Lists(net, db, ghosts, cut) /\ Gone(roster, db, ghosts) /\ Present(ui, roster, net, db, cut)
      /\ roster \in [Creator -> Nat] \cup {None} /\ None \notin [Creator -> Nat]
  BY Now, NoneAssumption DEF Books, Ledger, Others
<1>7. CASE ~row
  <2>1. roster' = roster /\ (roster # None => roster[id] = 0)
    BY <1>1, <1>2, <1>6, <1>7 DEF Rows, Gone, row
  <2>2. Lists(net, db, ghosts, cut)'
    BY <1>2, <1>5, <1>6 DEF Lists
  <2>3. Deletes(roster, net, db, ghosts)'
    BY <1>2, <1>3, <1>5, <1>7, <2>1 DEF Deletes
  <2>4. Gone(roster, db, ghosts)'
    BY <1>2, <1>6, <2>1 DEF Gone
  <2>5. Present(ui, roster, net, db, cut)'
    BY <1>1, <1>2, <1>4, <1>6, <2>1 DEF Present, Taken, Tame
  <2> QED BY <2>2, <2>3, <2>4, <2>5 DEF Books, Ledger
<1>8. CASE row
  <2>1. roster # None /\ roster \in [Creator -> Nat] /\ roster[id] = 1
    BY <1>1, <1>6, <1>8 DEF Rows, Gone, row
  <2>2. /\ roster' = [roster EXCEPT ![id] = 0] /\ roster' # None
        /\ roster'[id] = 0 /\ \A c \in Creator \ {id} : roster'[c] = roster[c]
    <3>1. roster' = [roster EXCEPT ![id] = 0]
      BY <1>2, <1>8, <2>1
    <3> QED BY <1>1, <1>6, <2>1, <3>1
  <2>3. Lists(net, db, ghosts, cut)'
    BY <1>2, <1>5, <1>6 DEF Lists
  <2>4. Deletes(roster, net, db, ghosts)'
    <3>1. id \notin db => id \in ghosts'
      BY <1>1, <1>2, <1>6, <2>1 DEF Gone
    <3> QED BY <1>2, <1>3, <1>5, <2>2, <3>1 DEF Deletes
  <2>5. Gone(roster, db, ghosts)'
    BY <1>2, <1>6, <2>1, <2>2 DEF Gone
  <2>6. Present(ui, roster, net, db, cut)'
    <3>1. Taken(id, net)'
      BY <1>3, <1>5, <1>8 DEF Taken
    <3>2. db \subseteq Creator
      BY Now DEF Others
    <3>3. ASSUME ui'.view = "app", ~ui'.rosterError
          PROVE  \A c \in db \ cut : roster[c] = 1 \/ Taken(c, net)
      BY <1>4, <1>6, <2>1, <3>3 DEF Present, Tame
    <3>4. \A c : ~Taken(c, net)
      BY <1>1 DEF Taken
    <3>5. ASSUME ui'.view = "app", ~ui'.rosterError, NEW c \in db \ cut
          PROVE  roster'[c] = 1 \/ Taken(c, net)'
      <4>1. roster[c] = 1
        BY <3>3, <3>4, <3>5
      <4>2. CASE c = id
        BY <3>1, <4>2
      <4>3. CASE c # id
        BY <2>2, <3>2, <4>1, <4>3
      <4> QED BY <4>2, <4>3
    <3> QED BY <1>2, <3>5 DEF Present
  <2> QED BY <2>3, <2>4, <2>5, <2>6 DEF Books, Ledger
<1> QED BY <1>7, <1>8

\* A delete is answered.
LEMMA DeleteAnswered ==
    ASSUME IInv, Books, NEW m \in BagToSet(net), m.kind = "delete", m.answer = None,
           NEW n, n.kind = "delete", n.id = m.id, n.row = m.row,
           net' = BagAdd(BagRemove(net, m), n), UNCHANGED <<ui, roster, cut>>,
           db' \subseteq db, db \ db' \subseteq {m.id}, ghosts \subseteq ghosts',
           n.answer = "ok" => m.id \notin db',
           n.answer # "ok" /\ m.id \notin db' => m.id \notin db \/ m.id \in ghosts'
    PROVE  Books'
<1>1. Alone("delete", net) /\ InFlight({"delete"}, net) = {m} /\ IsABag(net)
  BY Now, OneDelete
<1> DEFINE D == BagRemove(net, m)
<1>2. IsABag(D) /\ InFlight({"delete"}, D) = {} /\ InFlight({"roster"}, D) = InFlight({"roster"}, net)
  BY <1>1, RemoveBag, RemoveKind
<1> HIDE DEF D
<1>3. InFlight({"delete"}, net') = {n} /\ InFlight({"roster"}, net') = InFlight({"roster"}, net)
  <2>1. net' = BagAdd(D, n)
    BY DEF D
  <2> QED BY <1>2, <2>1, AddListOrDelete
<1>4. /\ InFlight({"roster"}, net) # {} => m.id \in ghosts
      /\ m.row /\ m.id \notin db => m.id \in ghosts
      /\ roster # None /\ roster[m.id] = 1 => m.id \in ghosts
  <2>1. m.answer # "ok"
    BY NoneAssumption DEF Reply
  <2> QED BY <1>1, <2>1 DEF Books, Ledger, Deletes
<1>5. Lists(net, db, ghosts, cut)'
  BY <1>3, <1>4 DEF Books, Ledger, Lists
<1>6. Deletes(roster, net, db, ghosts)'
  BY <1>3, <1>4 DEF Deletes
<1>7. Gone(roster, db, ghosts)'
  BY <1>4 DEF Books, Ledger, Gone
<1>8. Present(ui, roster, net, db, cut)'
  <2> SUFFICES ASSUME ui.view = "app", roster # None, ~ui.rosterError,
                      NEW c \in db' \ cut
               PROVE  roster[c] = 1 \/ Taken(c, net)'
    BY DEF Present
  <2>1. roster[c] = 1 \/ Taken(c, net)
    BY DEF Books, Ledger, Present
  <2>2. Taken(c, net) => Taken(c, net)'
    BY <1>1, <1>3 DEF Taken
  <2> QED BY <2>1, <2>2
<1> QED BY <1>5, <1>6, <1>7, <1>8 DEF Books, Ledger

\* A load of the roster is answered.
LEMMA RosterAnswered ==
    ASSUME IInv, Books, NEW m \in BagToSet(net), m.kind = "roster", NEW n, n.kind = "roster",
           net' = BagAdd(BagRemove(net, m), n), cut \subseteq cut',
           n.answer = "ok" => n.list \subseteq db /\ db \ cut' \subseteq n.list,
           UNCHANGED <<ui, roster, db, ghosts>>
    PROVE  Books'
<1> DEFINE D == BagRemove(net, m)
<1>1. IsABag(D) /\ BagToSet(D) \subseteq BagToSet(net) /\ InFlight({"delete"}, D) = InFlight({"delete"}, net)
  BY Now, RemoveBag, RemoveKind
<1> HIDE DEF D
<1>2. /\ InFlight({"delete"}, net') = InFlight({"delete"}, net)
      /\ InFlight({"roster"}, net') = InFlight({"roster"}, D) \cup {n}
  <2>1. net' = BagAdd(D, n)
    BY DEF D
  <2> QED BY <1>1, <2>1, AddListOrDelete
<1>3. InFlight({"roster"}, D) \subseteq InFlight({"roster"}, net) /\ m \in InFlight({"roster"}, net)
  BY <1>1 DEF InFlight
<1>4. Lists(net, db, ghosts, cut)'
  BY <1>2, <1>3 DEF Books, Ledger, Lists
<1>5. Deletes(roster, net, db, ghosts)'
  BY <1>2, <1>3 DEF Books, Ledger, Deletes
<1>6. Gone(roster, db, ghosts)' /\ Present(ui, roster, net, db, cut)'
  BY <1>2 DEF Books, Ledger, Gone, Present, Taken
<1> QED BY <1>4, <1>5, <1>6 DEF Books, Ledger

LEMMA ServeBooks ==
    ASSUME IInv, Books, NEW m, Serve(m)
    PROVE  Books'
<1>1. m \in BagToSet(net) /\ m \in Message /\ m.answer = None /\ UNCHANGED <<ui, roster, ghosts>>
  BY Now DEF Serve, ServeLogin, ServeSignedOut, ServeRoster, ServeCreator, Due, BagIn
<1>2. Tame(ui, ui')
  BY <1>1 DEF Tame
<1>3. CASE m.kind \notin {"roster", "delete"}
  <2>1. PICK a, list : Answer(m, a, list)
    BY DEF Serve, ServeLogin, ServeSignedOut, ServeRoster, ServeCreator, Refuse
  <2>2. db' = db /\ cut' = cut
    BY <1>3 DEF Serve, ServeLogin, ServeSignedOut, ServeRoster, ServeCreator, Refuse
  <2>3. [m EXCEPT !.answer = a, !.list = list].kind = m.kind
    BY <1>1 DEF Message
  <2>4. Quiet(net, net')
    BY <1>1, <1>3, <2>1, <2>3, Now, QuietQueue DEF Answer
  <2> QED BY <1>1, <1>2, <2>2, <2>4, QuietStep
<1>4. CASE m.kind = "roster"
  <2>1. PICK a, list : /\ Answer(m, a, list) /\ db' = db /\ cut \subseteq cut'
                       /\ a = "ok" => list \subseteq db /\ db \ cut' \subseteq list
    <3>1. CASE ~session
      <4>1. Answer(m, "401", {}) /\ db' = db /\ cut' = cut
        BY <1>4, <3>1 DEF Serve, ServeLogin, ServeSignedOut, ServeRoster, ServeCreator, Refuse
      <4> QED BY <4>1
    <3>2. CASE session
      BY <1>4, <3>2 DEF Serve, ServeLogin, ServeSignedOut, ServeRoster, ServeCreator, ListOf
    <3> QED BY <3>1, <3>2
  <2> DEFINE n == [m EXCEPT !.answer = a, !.list = list]
  <2>2. n.kind = "roster" /\ n.answer = a /\ n.list = list
    BY <1>1, <1>4 DEF Message
  <2>3. net' = BagAdd(BagRemove(net, m), n)
    BY <2>1 DEF Answer
  <2> HIDE DEF n
  <2> QED BY <1>1, <1>4, <2>1, <2>2, <2>3, RosterAnswered
<1>5. CASE m.kind = "delete"
  <2>1. PICK a, list : /\ Answer(m, a, list)
                       /\ \/ a = "401" /\ db' = db
                          \/ a = (IF m.id \in db THEN "ok" ELSE "error") /\ db' = db \ {m.id}
    <3>1. CASE ~session
      <4>1. Answer(m, "401", {}) /\ db' = db
        BY <1>5, <3>1 DEF Serve, ServeLogin, ServeSignedOut, ServeRoster, ServeCreator, Refuse
      <4> QED BY <4>1
    <3>2. CASE session
      <4>1. Exists(m) <=> m.id \in db
        BY <1>5 DEF Exists
      <4>2. Answer(m, IF Exists(m) THEN "ok" ELSE "error", {}) /\ db' = db \ {m.id}
        BY <1>5, <3>2 DEF Serve, ServeLogin, ServeSignedOut, ServeRoster, ServeCreator
      <4> QED BY <4>1, <4>2
    <3> QED BY <3>1, <3>2
  <2> DEFINE n == [m EXCEPT !.answer = a, !.list = list]
  <2>2. /\ n.kind = "delete" /\ n.answer = a /\ n.id = m.id /\ n.row = m.row
        /\ cut' = cut
    BY <1>1, <1>5 DEF Message, Serve, ServeLogin, ServeSignedOut, ServeRoster, ServeCreator, Refuse
  <2>3. net' = BagAdd(BagRemove(net, m), n)
    BY <2>1 DEF Answer
  <2> HIDE DEF n
  <2> QED BY <1>1, <1>5, <2>1, <2>2, <2>3, DeleteAnswered
<1> QED BY <1>3, <1>4, <1>5

LEMMA FailBooks ==
    ASSUME IInv, Books, NEW m, Fail(m)
    PROVE  Books'
<1>1. /\ m \in BagToSet(net) /\ m \in Message /\ m.answer = None
      /\ UNCHANGED <<ui, roster, cut>> /\ Answer(m, "error", {})
      /\ \/ UNCHANGED <<db, ghosts, cut>>
         \/ m.kind = "delete" /\ db' = db \ {m.id} /\ ghosts' = ghosts \cup {m.id}
  BY Now DEF Fail, Due, BagIn
<1> DEFINE n == [m EXCEPT !.answer = "error", !.list = {}]
<1>2. n.kind = m.kind /\ n.answer = "error" /\ n.id = m.id /\ n.row = m.row
  BY <1>1 DEF Message
<1>3. net' = BagAdd(BagRemove(net, m), n)
  BY <1>1 DEF Answer
<1> HIDE DEF n
<1>4. CASE m.kind \notin {"roster", "delete"}
  <2>1. Quiet(net, net')
    BY <1>1, <1>2, <1>3, <1>4, Now, QuietQueue
  <2>2. Tame(ui, ui')
    BY <1>1 DEF Tame
  <2> QED BY <1>1, <1>4, <2>1, <2>2, QuietStep
<1>5. CASE m.kind = "roster"
  BY <1>1, <1>2, <1>3, <1>5, RosterAnswered
<1>6. CASE m.kind = "delete"
  BY <1>1, <1>2, <1>3, <1>6, DeleteAnswered
<1> QED BY <1>4, <1>5, <1>6

-----------------------------------------------------------------------------
(* The answers, and the list.                                              *)

\* An answer that is neither a list nor a delete's.
LEMMA QuietAnswer ==
    ASSUME IInv, Books, NEW m \in BagToSet(net), m.kind \notin {"roster", "delete"},
           net' = Rest(m), Tame(ui, ui'), UNCHANGED <<roster, db, ghosts, cut>>
    PROVE  Books'
<1>1. Quiet(net, net')
  BY Now, QuietQueue DEF Rest
<1> QED BY <1>1, QuietStep

LEMMA EnterBooks ==
    ASSUME IInv, Books, NEW m \in BagToSet(net), m.kind \in {"session", "login"}, Enter(ui, m),
           UNCHANGED server
    PROVE  Books'
<1> DEFINE ask == Request("roster", None)
           queue == BagAdd(Rest(m), ask)
<1>1. /\ roster' = None /\ ghosts' = ghosts \cup {d.id : d \in InFlight({"delete"}, net)}
      /\ net' = queue \/ \E id : net' = BagAdd(queue, Request("profile", id))
  BY DEF Enter, LoadProfile, Pending
<1>2. ask.kind = "roster" /\ ask.answer # "ok" /\ \A id : Request("profile", id).kind = "profile"
  BY NoneAssumption DEF Request, Reply
<1> HIDE DEF ask
<1>3. IsABag(Rest(m)) /\ Quiet(net, Rest(m))
  BY Now, RemoveBag, QuietQueue DEF Rest
<1>4. /\ IsABag(queue) /\ InFlight({"delete"}, queue) = InFlight({"delete"}, net)
      /\ InFlight({"roster"}, queue) = InFlight({"roster"}, net) \cup {ask}
  <2>1. /\ InFlight({"delete"}, Rest(m)) = InFlight({"delete"}, net)
        /\ InFlight({"roster"}, Rest(m)) = InFlight({"roster"}, net)
    BY <1>3 DEF Quiet
  <2> QED BY <1>2, <1>3, <2>1, AddListOrDelete
<1> HIDE DEF queue
<1>5. Quiet(queue, net')
  <2>1. CASE net' = queue
    BY <2>1 DEF Quiet
  <2>2. CASE \E id : net' = BagAdd(queue, Request("profile", id))
    BY <1>2, <1>4, <2>2, QuietQueue
  <2> QED BY <1>1, <2>1, <2>2
<1>6. /\ InFlight({"delete"}, net') = InFlight({"delete"}, net)
      /\ InFlight({"roster"}, net') = InFlight({"roster"}, net) \cup {ask}
      /\ db' = db /\ cut' = cut
  BY <1>4, <1>5 DEF Quiet, server
<1>7. Lists(net, db, ghosts, cut)'
  BY <1>1, <1>2, <1>6 DEF Books, Ledger, Lists
<1>8. Deletes(roster, net, db, ghosts)'
  BY <1>1, <1>6 DEF Books, Ledger, Deletes
<1>9. Gone(roster, db, ghosts)' /\ Present(ui, roster, net, db, cut)'
  BY <1>1 DEF Gone, Present
<1> QED BY <1>7, <1>8, <1>9 DEF Books, Ledger

LEMMA SignInBooks ==
    ASSUME IInv, Books, NEW m, SessionAnswer(m) \/ LoginAnswer(m)
    PROVE  Books'
<1>1. m \in BagToSet(net) /\ m.kind \in {"session", "login"} /\ UNCHANGED server
  BY AnsweredNow DEF SessionAnswer, LoginAnswer
<1>2. CASE m.answer = "ok"
  BY <1>1, <1>2, EnterBooks DEF SessionAnswer, LoginAnswer
<1>3. CASE m.answer # "ok"
  <2>1. net' = Rest(m) /\ UNCHANGED <<roster, db, ghosts, cut>>
    BY <1>3 DEF SessionAnswer, LoginAnswer, server
  <2>2. Tame(ui, ui')
    BY <1>3, Now DEF SessionAnswer, LoginAnswer, Ui, Tame
  <2> QED BY <1>1, <2>1, <2>2, QuietAnswer
<1> QED BY <1>2, <1>3

LEMMA PageAnswerBooks ==
    ASSUME IInv, Books, NEW m, ProfileAnswer(m) \/ ContractsAnswer(m) \/ DetailsAnswer(m)
    PROVE  Books'
<1>1. /\ m \in BagToSet(net) /\ m \in Message /\ m.kind \in {"profile", "contracts", "details"}
      /\ m.answer \in Reply /\ m.id \in Creator
      /\ net' = Rest(m) /\ UNCHANGED <<roster, db, ghosts, cut>>
  BY AnsweredNow DEF ProfileAnswer, ContractsAnswer, DetailsAnswer, server, AboutOne
<1>2. Tame(ui, ui')
  <2>1. CASE ProfileAnswer(m)
    <3> DEFINE u == [ui EXCEPT !.profileLoading = FALSE,
                               !.profile = IF m.answer = "ok" THEN m.id ELSE None]
    <3>1. u \in Ui /\ Tame(ui, u)
      BY <1>1, Now DEF Ui, Tame
    <3>2. ui' \in {u, SignedOut(u)}
      BY <2>1 DEF ProfileAnswer
    <3> HIDE DEF u
    <3> QED BY <3>1, <3>2, Now, SignedOutTame
  <2>2. CASE ContractsAnswer(m)
    <3> DEFINE u == [ui EXCEPT !.contractsLoading = FALSE]
               x == [u EXCEPT !.full = m.id, !.modal = TRUE]
               y == [u EXCEPT !.full = None]
               z == [u EXCEPT !.full = Empty]
    <3>1. \A v \in {x, y, z} : v \in Ui /\ Tame(ui, v)
      BY <1>1, Now DEF Ui, Tame
    <3>2. ui' \in {Sync(x), SignedOut(y), y, z}
      BY <1>1, <2>2 DEF ContractsAnswer, Reply
    <3> HIDE DEF x, y, z
    <3> QED BY <3>1, <3>2, Now, SyncTame, SignedOutTame
  <2>3. CASE DetailsAnswer(m)
    <3> DEFINE u == [ui EXCEPT !.saving = FALSE]
               x == [u EXCEPT !.profile = m.id, !.full = None, !.editing = @ \ {m.card}]
    <3>1. u \in Ui /\ Tame(ui, u) /\ Tame(ui, x)
      BY <1>1, Now DEF Ui, Tame
    <3>2. ui' \in {x, SignedOut(u), u}
      BY <1>1, <2>3 DEF DetailsAnswer, Reply
    <3> HIDE DEF u, x
    <3> QED BY <3>1, <3>2, Now, SignedOutTame
  <2> QED BY <2>1, <2>2, <2>3
<1> QED BY <1>1, <1>2, QuietAnswer

LEMMA RosterBooks ==
    ASSUME IInv, Books, NEW m, RosterAnswer(m)
    PROVE  Books'
<1>1. /\ m \in BagToSet(net) /\ m.kind = "roster" /\ m.answer \in Reply /\ net' = Rest(m)
      /\ UNCHANGED <<db, ghosts, cut>>
  BY AnsweredNow DEF RosterAnswer, server
<1>2. /\ InFlight({"delete"}, net') = InFlight({"delete"}, net)
      /\ InFlight({"roster"}, net') \subseteq InFlight({"roster"}, net)
      /\ m \in InFlight({"roster"}, net)
  BY <1>1, Now, RemoveKind, RemoveBag DEF Rest, InFlight
<1>3. Lists(net, db, ghosts, cut)'
  BY <1>1, <1>2 DEF Books, Ledger, Lists
<1>4. Deletes(roster, net, db, ghosts)'
  <2>1. \A d \in InFlight({"delete"}, net) : d.id \in ghosts
    BY <1>2 DEF Books, Ledger, Deletes
  <2> QED BY <1>1, <1>2, <2>1 DEF Books, Ledger, Deletes
<1>5. CASE m.answer = "ok"
  <2>1. ui' = ui /\ roster' = [c \in Creator |-> IF c \in m.list THEN 1 ELSE 0]
    BY <1>5 DEF RosterAnswer
  <2>2. db \ cut \subseteq m.list /\ m.list \ db \subseteq ghosts /\ db \subseteq Creator
    BY <1>2, <1>5, Now DEF Books, Ledger, Lists, Others
  <2>3. Gone(roster, db, ghosts)' /\ Present(ui, roster, net, db, cut)'
    BY <1>1, <2>1, <2>2 DEF Gone, Present
  <2> QED BY <1>3, <1>4, <2>3 DEF Books, Ledger
<1>6. CASE m.answer = "401" \/ (m.answer = "error" /\ ui.view = "login")
  <2>1. ui'.view = "login" /\ roster' = roster
    BY <1>6, Now DEF RosterAnswer, Ui
  <2>2. Gone(roster, db, ghosts)' /\ Present(ui, roster, net, db, cut)'
    BY <1>1, <2>1 DEF Books, Ledger, Gone, Present
  <2> QED BY <1>3, <1>4, <2>2 DEF Books, Ledger
<1>7. CASE m.answer = "error" /\ ui.view # "login"
  <2>1. ui'.rosterError /\ roster' = [c \in Creator |-> 0]
    BY <1>7, Now DEF RosterAnswer, Ui
  <2>2. Gone(roster, db, ghosts)' /\ Present(ui, roster, net, db, cut)'
    BY <1>1, <2>1 DEF Gone, Present
  <2> QED BY <1>3, <1>4, <2>2 DEF Books, Ledger
<1> QED BY <1>1, <1>5, <1>6, <1>7 DEF Reply

LEMMA DeleteBooks ==
    ASSUME IInv, Books, NEW m, DeleteAnswer(m)
    PROVE  Books'
<1>1. /\ m \in BagToSet(net) /\ m.kind = "delete" /\ m.id \in Creator /\ m.answer \in Reply
      /\ net' = Rest(m) /\ UNCHANGED <<db, ghosts, cut>>
      /\ roster' = IF m.answer = "error" THEN PutBack(m) ELSE roster
  BY AnsweredNow DEF DeleteAnswer, server
<1>2. /\ InFlight({"delete"}, net) = {m} /\ InFlight({"delete"}, net') = {}
      /\ InFlight({"roster"}, net') = InFlight({"roster"}, net)
  BY <1>1, Now, OneDelete, RemoveKind DEF Rest
<1>3. Lists(net, db, ghosts, cut)' /\ Deletes(roster, net, db, ghosts)'
  BY <1>1, <1>2 DEF Books, Ledger, Lists, Deletes
<1>4. /\ Gone(roster, db, ghosts) /\ Present(ui, roster, net, db, cut)
      /\ roster \in [Creator -> Nat] \cup {None} /\ None \notin [Creator -> Nat]
      /\ db \subseteq Creator
      /\ m.row /\ m.id \notin db /\ m.answer # "ok" => m.id \in ghosts
      /\ m.answer = "ok" => m.id \notin db
  BY <1>2, Now, NoneAssumption DEF Books, Ledger, Others, Deletes
<1>5. (m.answer = "401" => ui'.view = "login") /\ (m.answer # "401" => Tame(ui, ui'))
  BY Now DEF DeleteAnswer, Ui, Tame
<1>6. CASE roster' = roster /\ ~(m.answer = "error" /\ m.row /\ roster # None /\ roster[m.id] = 0)
  <2>1. Gone(roster, db, ghosts)'
    BY <1>1, <1>4, <1>6 DEF Gone
  <2>2. Present(ui, roster, net, db, cut)'
    <3> SUFFICES ASSUME ui'.view = "app", roster # None, ~ui'.rosterError,
                        NEW c \in db \ cut
                 PROVE  roster[c] = 1
      BY <1>1, <1>6 DEF Present
    <3>1. m.answer # "401" /\ (roster[c] = 1 \/ Taken(c, net))
      BY <1>4, <1>5 DEF Present, Tame
    <3>2. CASE Taken(c, net)
      <4>1. c = m.id /\ m.row /\ m.answer = "error"
        BY <1>1, <1>2, <3>1, <3>2 DEF Taken, Reply
      <4> QED BY <1>1, <1>4, <1>6, <4>1 DEF Gone
    <3> QED BY <3>1, <3>2
  <2> QED BY <1>3, <2>1, <2>2 DEF Books, Ledger
<1>7. CASE /\ m.answer = "error" /\ m.row /\ roster # None /\ roster[m.id] = 0
           /\ roster' = [roster EXCEPT ![m.id] = 1]
  <2>1. /\ roster \in [Creator -> Nat] /\ roster'[m.id] = 1
        /\ \A c \in Creator \ {m.id} : roster'[c] = roster[c]
    BY <1>1, <1>4, <1>7
  <2>2. Gone(roster, db, ghosts)'
    <3>1. m.id \notin db => m.id \in ghosts
      BY <1>4, <1>7
    <3> QED BY <1>1, <1>4, <1>7, <2>1, <3>1 DEF Gone
  <2>3. Present(ui, roster, net, db, cut)'
    <3> SUFFICES ASSUME ui'.view = "app", ~ui'.rosterError, NEW c \in db \ cut
                 PROVE  roster'[c] = 1
      BY <1>1 DEF Present
    <3>1. CASE c = m.id
      BY <2>1, <3>1
    <3>2. CASE c # m.id
      <4>1. roster[c] = 1 \/ Taken(c, net)
        BY <1>4, <1>5, <1>7 DEF Present, Tame
      <4>2. ~Taken(c, net)
        BY <1>2, <3>2 DEF Taken
      <4> QED BY <1>4, <2>1, <3>2, <4>1, <4>2
    <3> QED BY <3>1, <3>2
  <2> QED BY <1>3, <2>2, <2>3 DEF Books, Ledger
<1>8. \/ roster' = roster /\ ~(m.answer = "error" /\ m.row /\ roster # None /\ roster[m.id] = 0)
      \/ /\ m.answer = "error" /\ m.row /\ roster # None /\ roster[m.id] = 0
         /\ roster' = [roster EXCEPT ![m.id] = 1]
  <2>1. roster # None => roster \in [Creator -> Nat] /\ roster[m.id] \in {0, 1}
    BY <1>1, <1>4 DEF Gone
  <2>2. CASE m.answer = "error" /\ m.row /\ roster # None /\ roster[m.id] = 0
    <3>1. PutBack(m) = [roster EXCEPT ![m.id] = @ + 1]
      BY <2>2 DEF PutBack, Rows
    <3> QED BY <1>1, <2>2, <3>1
  <2>3. CASE ~(m.answer = "error" /\ m.row /\ roster # None /\ roster[m.id] = 0)
    <3>1. m.answer = "error" => PutBack(m) = roster
      BY <2>1, <2>3 DEF PutBack, Rows
    <3> QED BY <1>1, <2>3, <3>1
  <2> QED BY <2>2, <2>3
<1> QED BY <1>6, <1>7, <1>8

LEMMA InitBooks == ASSUME Init PROVE Books
<1> DEFINE m == Request("session", None)
<1>1. m.kind = "session"
  BY DEF Request
<1>2. net = SetToBag({m}) /\ roster = None
  BY DEF Init
<1> HIDE DEF m
<1>3. BagToSet(net) = {m}
  BY <1>2 DEF SetToBag, BagToSet
<1>4. InFlight({"roster"}, net) = {} /\ InFlight({"delete"}, net) = {}
  BY <1>1, <1>3 DEF InFlight
<1> QED BY <1>2, <1>4 DEF Books, Ledger, Lists, Deletes, Gone, Present

LEMMA NextBooks == ASSUME IInv, Books, [Next]_vars PROVE Books'
<1>1. CASE UNCHANGED vars
  BY <1>1 DEF vars, Books
<1>2. CASE Administrator
  <2>1. ASSUME NEW c \in Card, Save(c) PROVE Books'
    BY <2>1, AskBooks
  <2>2. CASE ViewContract \/ SignIn
    BY <2>2, AskBooks
  <2>3. ASSUME NEW t \in {"roster", "scouts"} \cup Creator, Navigate(t) \/ NavigateEarly(t)
        PROVE  Books'
    BY <2>3, NavigateBooks, AskBooks
  <2> QED BY <1>2, <2>1, <2>2, <2>3, OpenBooks, LinkBooks, DialogBooks, ConfirmDeleteBooks
          DEF Administrator
<1>3. CASE Server
  <2>1. CASE Expire
    BY <2>1, QuietStep DEF Expire, Tame, Quiet
  <2> QED BY <1>3, <2>1, ServeBooks, FailBooks DEF Server
<1>4. ASSUME NEW m \in BagToSet(net), Handler(m) PROVE Books'
  BY <1>4, SignInBooks, RosterBooks, PageAnswerBooks, DeleteBooks DEF Handler
<1> QED BY <1>1, <1>2, <1>3, <1>4 DEF Next

\* Once no list and no delete is on its way, every creator there is has his row,
\* once, unless a list left him out because there were more than it takes; who is
\* gone and still listed was deleted across a load of the roster, or without an
\* answer.
\* (app.js confirmDelete "so the roster reflects reality again"; roster.service.ts roster)
THEOREM RosterCorrect == Spec => []RosterAgrees
<1> QED BY InitGood, NextGood, InitBooks, NextBooks, BooksImply, PTL DEF Spec

WholeRoster == ListSettled => \A c \in db : roster[c] = 1
NobodyCut == cut = {}
\* No set of creators is too long for a list.
AllFit == \A all \in SUBSET Creator : Cardinality(all) <= RosterLimit

LEMMA WholeLists == ASSUME AllFit, IInv, NobodyCut, [Next]_vars PROVE NobodyCut'
<1>1. db \in SUBSET Creator
  BY DEF IInv, Others
<1>2. ListOf(db) = {db}
  BY <1>1 DEF ListOf, AllFit
<1>3. ASSUME NEW m, Serve(m) PROVE NobodyCut'
  BY <1>2, <1>3 DEF Serve, ServeLogin, ServeSignedOut, ServeRoster, ServeCreator, Refuse, NobodyCut
<1>4. ASSUME UNCHANGED cut PROVE NobodyCut'
  BY <1>4 DEF NobodyCut
<1>5. CASE Administrator
  BY <1>4, <1>5
  DEF Administrator, Open, Back, GoTo, Navigate, NavigateEarly, EditCards, Save, ViewContract,
      CloseContract, OpenDelete, UseDialog, ConfirmDelete, SignOut, SignIn, server
<1>6. CASE Server
  BY <1>3, <1>4, <1>6 DEF Server, Expire, Fail
<1>7. ASSUME NEW m, Handler(m) PROVE NobodyCut'
  BY <1>4, <1>7
  DEF Handler, SessionAnswer, LoginAnswer, RosterAnswer, ProfileAnswer, ContractsAnswer,
      DetailsAnswer, DeleteAnswer, server
<1> QED BY <1>4, <1>5, <1>6, <1>7 DEF Next, vars

\* While there are no more creators than a list takes, every one of them has his
\* row, once, as soon as no list and no delete is on its way.
\* (app.js confirmDelete, roster.service.ts roster)
THEOREM RosterWhole ==
    ASSUME AllFit
    PROVE  Spec => []WholeRoster
<1>1. Init => NobodyCut
  BY DEF Init, NobodyCut
<1>2. IInv /\ NobodyCut /\ [Next]_vars => NobodyCut'
  BY WholeLists
<1>3. RosterAgrees /\ NobodyCut /\ IInv => WholeRoster
  BY DEF RosterAgrees, NobodyCut, WholeRoster, IInv, Others
<1> QED BY <1>1, <1>2, <1>3, InvariantHolds, RosterCorrect, PTL DEF Spec
=============================================================================
