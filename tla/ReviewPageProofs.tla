-------------------------- MODULE ReviewPageProofs --------------------------
(***************************************************************************)
(* Proofs about ReviewPage, for any number of rows, campaigns, clicks and  *)
(* failures: type correctness, with one request in flight for every button *)
(* that waits; that the page settles on the row the database has; and that *)
(* a promoted row goes to the campaign its dialog named.                   *)
(*                                                                         *)
(* The argument.  A row that two requests are never in flight about at a   *)
(* time has at most one, once, in the queue.  Before it is answered the    *)
(* page shows the row as the database has it; with the answer the database *)
(* moves on and the answer carries what it has now, the rows under the     *)
(* filter of the page or the row itself; the handler puts that on the      *)
(* page.  A row that is not listed has no place to put it: a review is     *)
(* only asked for from the list, and a promotion or a send leaves the      *)
(* verdict, so that the filter leaves the row out as before.  The dialog   *)
(* of a row opens with nothing in flight about it, so that it names the    *)
(* campaign of the scout; another campaign is picked only with a request   *)
(* about all rows.                                                         *)
(***************************************************************************)
EXTENDS ReviewPage, TLAPS

OneRow == {"review", "promote", "send"}    \* the requests about one row

Message == [kind : Kind, row : Row \cup {None},
            value : Filter \cup Campaign \cup {None} \cup BOOLEAN,
            answer : {None, "ok", "error", "401"}, list : List, user : User \cup {Gone, None}]

\* What a request carries, and its answer.
Proper(m) ==
    /\ m.kind \in OneRow => m.row \in Row
    /\ m.kind = "rows" => m.value \in Filter
    /\ m.kind = "review" => m.value \in Verdict \cup {None}
    /\ m.kind = "pick" => m.value \in Campaign \cup {None}
    /\ m.kind = "active" => m.value \in BOOLEAN
    /\ m.kind = "users" /\ m.answer = "ok" => m.user # None
    /\ m.kind # "rows" => \A r \in Row : m.list[r] # None => r = m.row

QueueGood(B) == IsABag(B) /\ \A m \in BagToSet(B) : m \in Message /\ Proper(m)

\* What a button shows as under way is: one request, never two.
Buttons(p, B) ==
    /\ Awaits(p.sending # None, "send", B)
    /\ Awaits(p.syncing, "sync", B)
    /\ Awaits(p.creating, "create", B)
    /\ Awaits(p.saving, "pick", B)
    /\ InFlight("promote", B) # {} => p.promoting /\ Alone("promote", B)

\* What the page shows as loading is to come.
Coming(p, B) ==
    /\ p.view = "app" /\ p.entries = None => InFlight("rows", B) # {}
    /\ p.view = "app" /\ p.users = None => InFlight("users", B) # {}

ServerGood ==
    /\ rows \in [Row -> Entry \cup {None}] /\ user \in User \cup {Gone}
    /\ user = Gone => rows = Nothing
    /\ session \in BOOLEAN /\ events \in 0 .. MaxEvents /\ crossed \subseteq Row

Types == page \in Page /\ QueueGood(net) /\ ServerGood
Flags == Buttons(page, net) /\ Coming(page, net)

\* The requests in flight about a row.
Pend(r, B) == {m \in BagToSet(B) : r \in About(m)}

Listing(list, r) == list[r] = View(r) \/ (list[r] = None /\ ~Matches(r, page.filter))

\* A row with one request in flight at a time: the page has it as the database
\* does, or an answer is to come, or has come, that will make it so.
OneEach(r) == \A m \in Pend(r, net) : Pend(r, net) = {m} /\ net[m] = 1
ErrorEmpty(r) == page.error => page.entries # None /\ page.entries[r] = None
ListComes(r) ==
    \A m \in Pend(r, net) : m.kind = "rows" =>
        /\ m.value = page.filter /\ ~page.error
        /\ m.answer = "ok" => Listing(m.list, r)
RowComes(r) ==
    \A m \in Pend(r, net) : m.kind \in OneRow /\ m.answer = "ok" =>
        m.list[r] = View(r) /\ m.list[r] # None
ShowsRow(r) ==
    /\ page.view = "app" /\ ~page.error /\ page.entries # None
    /\ \A m \in Pend(r, net) : m.kind # "rows" /\ m.answer # "ok"
    => Listing(page.entries, r)
\* A row that the list leaves out still has no place there.
LeavesOut(r) ==
    page.view = "app" /\ ~page.error =>
        \A m \in Pend(r, net) : m.kind \in OneRow /\ page.entries[r] = None =>
            m.kind # "review" /\ ~Matches(r, page.filter)

RowGood(r) ==
    OneEach(r) /\ ErrorEmpty(r) /\ ListComes(r) /\ RowComes(r) /\ ShowsRow(r) /\ LeavesOut(r)
RowsGood == \A r \in Row \ crossed : RowGood(r)

\* The dialog is about the row of the promotion in flight, and has named the
\* campaign that the scout is still assigned.
DialogGood ==
    /\ \A m \in InFlight("promote", net) : m.row = page.dialog /\ m.value = page.named
    /\ page.dialog # None /\ page.dialog \notin crossed =>
          /\ user # Gone /\ page.named = user.campaign
          /\ \A m \in Pend(page.dialog, net) : m.kind \in {"rows", "promote"}

\* The inductive invariant.
IInv == Types /\ Flags /\ RowsGood /\ DialogGood

LEMMA Implied == IInv => TypeOK /\ RowsSettle
<1> SUFFICES ASSUME IInv PROVE TypeOK /\ RowsSettle
  OBVIOUS
<1>1. TypeOK
  BY DEF IInv, Types, Flags, QueueGood, ServerGood, Message, Proper, Buttons, Coming, TypeOK
<1>2. ASSUME page.view = "app", page.entries # None, ~page.error, NEW r \in Row, Settled(r)
      PROVE  page.entries[r] = View(r) \/ (page.entries[r] = None /\ ~Matches(r, page.filter))
  <2>1. RowGood(r) /\ Pend(r, net) = {}
    BY <1>2 DEF IInv, RowsGood, Settled, AboutAny, Pend
  <2> QED BY <1>2, <2>1 DEF RowGood, ShowsRow, Listing
<1> QED BY <1>1, <1>2 DEF RowsSettle

-----------------------------------------------------------------------------
(* Queues.                                                                 *)

LEMMA AddBag ==
    ASSUME NEW B, IsABag(B), NEW m
    PROVE  LET C == BagAdd(B, m) IN
           /\ IsABag(C) /\ BagToSet(C) = BagToSet(B) \cup {m}
           /\ \A x \in BagToSet(B) : x # m => C[x] = B[x]
           /\ m \notin BagToSet(B) => C[m] = 1
  BY DEF BagAdd, IsABag, BagToSet

LEMMA RemoveBag ==
    ASSUME NEW B, IsABag(B), NEW m \in BagToSet(B)
    PROVE  LET C == BagRemove(B, m) IN
           /\ IsABag(C) /\ BagToSet(C) \subseteq BagToSet(B)
           /\ BagToSet(B) \ {m} \subseteq BagToSet(C)
           /\ \A x \in BagToSet(C) : x # m => C[x] = B[x]
           /\ B[m] = 1 => m \notin BagToSet(C)
  BY DEF BagRemove, IsABag, BagToSet

LEMMA PlusBag ==
    ASSUME NEW B, IsABag(B), NEW S
    PROVE  LET C == B (+) SetToBag(S) IN
           /\ IsABag(C) /\ BagToSet(C) = BagToSet(B) \cup S
           /\ \A x \in BagToSet(B) \ S : C[x] = B[x]
           /\ \A x \in S \ BagToSet(B) : C[x] = 1
  BY DEF (+), SetToBag, IsABag, BagToSet

\* An answer takes its request's place.
LEMMA SwapBag ==
    ASSUME NEW B, IsABag(B), NEW m \in BagToSet(B), NEW a
    PROVE  LET C == BagAdd(BagRemove(B, m), a) IN
           /\ IsABag(C) /\ BagToSet(C) \subseteq BagToSet(B) \cup {a}
           /\ a \in BagToSet(C) /\ BagToSet(B) \ {m} \subseteq BagToSet(C)
           /\ \A x \in BagToSet(C) \ {m, a} : C[x] = B[x]
           /\ B[m] = 1 /\ a # m => m \notin BagToSet(C)
           /\ B[m] = 1 /\ a \notin BagToSet(B) \ {m} => C[a] = 1
<1> DEFINE D == BagRemove(B, m)
<1>1. /\ IsABag(D) /\ BagToSet(D) \subseteq BagToSet(B)
      /\ BagToSet(B) \ {m} \subseteq BagToSet(D)
      /\ \A x \in BagToSet(D) : x # m => D[x] = B[x]
      /\ B[m] = 1 => m \notin BagToSet(D)
  BY RemoveBag
<1> HIDE DEF D
<1>2. LET C == BagAdd(D, a) IN
      /\ IsABag(C) /\ BagToSet(C) = BagToSet(D) \cup {a}
      /\ \A x \in BagToSet(D) : x # a => C[x] = D[x]
      /\ a \notin BagToSet(D) => C[a] = 1
  BY <1>1, AddBag
<1> QED BY <1>1, <1>2 DEF D

\* Other requests, in the same number, and those of another kind are as they were.
LEMMA KindKept ==
    ASSUME NEW B, NEW C, NEW k, InFlight(k, C) = InFlight(k, B),
           \A m \in InFlight(k, B) : C[m] = B[m]
    PROVE  (Alone(k, B) => Alone(k, C)) /\ \A b : Awaits(b, k, B) => Awaits(b, k, C)
  BY DEF Alone, Awaits

LEMMA AddKind ==
    ASSUME NEW B, IsABag(B), NEW m, NEW k
    PROVE  LET C == BagAdd(B, m) IN
           /\ InFlight(k, C) = InFlight(k, B) \cup (IF m.kind = k THEN {m} ELSE {})
           /\ m.kind # k => \A n \in InFlight(k, B) : C[n] = B[n]
           /\ m.kind = k /\ InFlight(k, B) = {} => Alone(k, C)
<1> DEFINE C == BagAdd(B, m)
<1>1. /\ BagToSet(C) = BagToSet(B) \cup {m}
      /\ \A x \in BagToSet(B) : x # m => C[x] = B[x]
      /\ m \notin BagToSet(B) => C[m] = 1
  BY AddBag
<1> HIDE DEF C
<1>2. InFlight(k, C) = InFlight(k, B) \cup (IF m.kind = k THEN {m} ELSE {})
  BY <1>1 DEF InFlight
<1>3. m.kind # k => \A n \in InFlight(k, B) : C[n] = B[n]
  BY <1>1 DEF InFlight
<1>4. ASSUME m.kind = k, InFlight(k, B) = {} PROVE Alone(k, C)
  <2>1. m \notin BagToSet(B) /\ InFlight(k, C) = {m}
    BY <1>2, <1>4 DEF InFlight
  <2> QED BY <1>1, <2>1 DEF Alone
<1> QED BY <1>2, <1>3, <1>4 DEF C

LEMMA RemoveKind ==
    ASSUME NEW B, IsABag(B), NEW m \in BagToSet(B), NEW k
    PROVE  LET C == BagRemove(B, m) IN
           /\ m.kind # k => InFlight(k, C) = InFlight(k, B) /\ \A n \in InFlight(k, B) : C[n] = B[n]
           /\ m.kind = k /\ Alone(k, B) => InFlight(k, C) = {}
<1> DEFINE C == BagRemove(B, m)
<1>1. /\ BagToSet(C) \subseteq BagToSet(B) /\ BagToSet(B) \ {m} \subseteq BagToSet(C)
      /\ \A x \in BagToSet(C) : x # m => C[x] = B[x]
      /\ B[m] = 1 => m \notin BagToSet(C)
  BY RemoveBag
<1> HIDE DEF C
<1>2. m.kind # k => InFlight(k, C) = InFlight(k, B) /\ \A n \in InFlight(k, B) : C[n] = B[n]
  BY <1>1 DEF InFlight
<1>3. ASSUME m.kind = k, Alone(k, B) PROVE InFlight(k, C) = {}
  <2>1. PICK x \in InFlight(k, B) : InFlight(k, B) = {x} /\ B[x] = 1
    BY <1>3 DEF Alone
  <2>2. x = m
    BY <1>3, <2>1 DEF InFlight
  <2> QED BY <1>1, <2>1, <2>2 DEF InFlight
<1> QED BY <1>2, <1>3 DEF C

LEMMA SwapKind ==
    ASSUME NEW B, IsABag(B), NEW m \in BagToSet(B), NEW a, a.kind = m.kind, NEW k
    PROVE  LET C == BagAdd(BagRemove(B, m), a) IN
           /\ InFlight(k, C) = {} <=> InFlight(k, B) = {}
           /\ Alone(k, B) => Alone(k, C)
           /\ \A b : Awaits(b, k, B) => Awaits(b, k, C)
<1> DEFINE D == BagRemove(B, m)
           C == BagAdd(D, a)
<1>1. IsABag(D)
  BY RemoveBag
<1>2. /\ m.kind # k => InFlight(k, D) = InFlight(k, B) /\ \A n \in InFlight(k, B) : D[n] = B[n]
      /\ m.kind = k /\ Alone(k, B) => InFlight(k, D) = {}
  BY RemoveKind
<1> HIDE DEF D
<1>3. /\ InFlight(k, C) = InFlight(k, D) \cup (IF a.kind = k THEN {a} ELSE {})
      /\ a.kind # k => \A n \in InFlight(k, D) : C[n] = D[n]
      /\ a.kind = k /\ InFlight(k, D) = {} => Alone(k, C)
  BY <1>1, AddKind
<1> HIDE DEF C
<1>4. m.kind = k => m \in InFlight(k, B)
  BY DEF InFlight
<1>5. InFlight(k, C) = {} <=> InFlight(k, B) = {}
  BY <1>2, <1>3, <1>4
<1>6. Alone(k, B) => Alone(k, C)
  <2>1. CASE m.kind = k
    BY <1>2, <1>3, <2>1
  <2>2. CASE m.kind # k
    BY <1>2, <1>3, <2>2, KindKept
  <2> QED BY <2>1, <2>2
<1> QED BY <1>5, <1>6 DEF Awaits, C, D

-----------------------------------------------------------------------------
(* The buttons and the requests they wait for.                             *)

\* The page q after p as far as the buttons go.
SameButtons(p, q) ==
    /\ q.sending = p.sending /\ q.syncing = p.syncing /\ q.creating = p.creating
    /\ q.saving = p.saving /\ (p.promoting => q.promoting)

LEMMA SendFlags ==
    ASSUME NEW p, NEW q, NEW B, NEW m, IsABag(B), Buttons(p, B), Coming(p, B),
           IF m.kind = "send" THEN p.sending = None /\ q.sending # None ELSE q.sending = p.sending,
           IF m.kind = "sync" THEN ~p.syncing /\ q.syncing ELSE q.syncing = p.syncing,
           IF m.kind = "create" THEN ~p.creating /\ q.creating ELSE q.creating = p.creating,
           IF m.kind = "pick" THEN ~p.saving /\ q.saving ELSE q.saving = p.saving,
           IF m.kind = "promote" THEN ~p.promoting /\ q.promoting ELSE p.promoting => q.promoting,
           q.view = "app" => p.view = "app" /\ q.entries = p.entries /\ q.users = p.users
    PROVE  Buttons(q, BagAdd(B, m)) /\ Coming(q, BagAdd(B, m))
<1> DEFINE C == BagAdd(B, m)
<1>1. \A k : /\ InFlight(k, C) = InFlight(k, B) \cup (IF m.kind = k THEN {m} ELSE {})
             /\ m.kind = k /\ InFlight(k, B) = {} => Alone(k, C)
             /\ m.kind # k => \A b : Awaits(b, k, B) => Awaits(b, k, C)
             /\ m.kind # k => (Alone(k, B) => Alone(k, C))
  <2> SUFFICES ASSUME NEW k
               PROVE  /\ InFlight(k, C) = InFlight(k, B) \cup (IF m.kind = k THEN {m} ELSE {})
                      /\ m.kind = k /\ InFlight(k, B) = {} => Alone(k, C)
                      /\ m.kind # k => \A b : Awaits(b, k, B) => Awaits(b, k, C)
                      /\ m.kind # k => (Alone(k, B) => Alone(k, C))
    OBVIOUS
  <2> HIDE DEF C
  <2>1. /\ InFlight(k, C) = InFlight(k, B) \cup (IF m.kind = k THEN {m} ELSE {})
        /\ m.kind # k => \A n \in InFlight(k, B) : C[n] = B[n]
        /\ m.kind = k /\ InFlight(k, B) = {} => Alone(k, C)
    BY AddKind DEF C
  <2> QED BY <2>1, KindKept
<1> HIDE DEF C
<1>2. Awaits(q.sending # None, "send", C)
  BY <1>1 DEF Buttons, Awaits
<1>3. Awaits(q.syncing, "sync", C)
  BY <1>1 DEF Buttons, Awaits
<1>4. Awaits(q.creating, "create", C)
  BY <1>1 DEF Buttons, Awaits
<1>5. Awaits(q.saving, "pick", C)
  BY <1>1 DEF Buttons, Awaits
<1>6. InFlight("promote", C) # {} => q.promoting /\ Alone("promote", C)
  BY <1>1 DEF Buttons
<1>7. Coming(q, C)
  BY <1>1 DEF Coming
<1> QED BY <1>2, <1>3, <1>4, <1>5, <1>6, <1>7 DEF Buttons, C

LEMMA AnswerFlags ==
    ASSUME NEW p, NEW B, NEW m \in BagToSet(B), NEW a, IsABag(B), Buttons(p, B), Coming(p, B),
           a.kind = m.kind
    PROVE  LET C == BagAdd(BagRemove(B, m), a) IN Buttons(p, C) /\ Coming(p, C)
<1> DEFINE C == BagAdd(BagRemove(B, m), a)
<1>1. \A k : /\ InFlight(k, C) = {} <=> InFlight(k, B) = {}
             /\ Alone(k, B) => Alone(k, C)
             /\ \A b : Awaits(b, k, B) => Awaits(b, k, C)
  BY SwapKind
<1> HIDE DEF C
<1> QED BY <1>1 DEF Buttons, Coming, C

LEMMA HandleButtons ==
    ASSUME NEW p, NEW q, NEW B, NEW m \in BagToSet(B), IsABag(B), Buttons(p, B),
           q.sending = IF m.kind = "send" THEN None ELSE p.sending,
           IF m.kind = "sync" THEN ~q.syncing ELSE q.syncing = p.syncing,
           IF m.kind = "create" THEN ~q.creating ELSE q.creating = p.creating,
           IF m.kind = "pick" THEN ~q.saving ELSE q.saving = p.saving,
           m.kind # "promote" => q.promoting = p.promoting
    PROVE  Buttons(q, BagRemove(B, m))
<1> DEFINE C == BagRemove(B, m)
<1>1. \A k : /\ m.kind # k => InFlight(k, C) = InFlight(k, B) /\ \A n \in InFlight(k, B) : C[n] = B[n]
             /\ m.kind = k /\ Alone(k, B) => InFlight(k, C) = {}
  BY RemoveKind
<1> HIDE DEF C
<1>2. \A k : m.kind # k => /\ \A b : Awaits(b, k, B) => Awaits(b, k, C)
                           /\ (Alone(k, B) => Alone(k, C))
  BY <1>1, KindKept
<1>3. m \in InFlight(m.kind, B)
  BY DEF InFlight
<1>4. Awaits(q.sending # None, "send", C)
  BY <1>1, <1>2, <1>3 DEF Buttons, Awaits
<1>5. Awaits(q.syncing, "sync", C)
  BY <1>1, <1>2, <1>3 DEF Buttons, Awaits
<1>6. Awaits(q.creating, "create", C)
  BY <1>1, <1>2, <1>3 DEF Buttons, Awaits
<1>7. Awaits(q.saving, "pick", C)
  BY <1>1, <1>2, <1>3 DEF Buttons, Awaits
<1>8. InFlight("promote", C) # {} => q.promoting /\ Alone("promote", C)
  BY <1>1, <1>2, <1>3 DEF Buttons
<1> QED BY <1>4, <1>5, <1>6, <1>7, <1>8 DEF Buttons, C

LEMMA HandleComing ==
    ASSUME NEW p, NEW q, NEW B, NEW m \in BagToSet(B), IsABag(B), Coming(p, B),
           q.view = "app" /\ q.entries = None =>
               p.view = "app" /\ p.entries = None /\ m.kind # "rows",
           q.view = "app" /\ q.users = None => p.view = "app" /\ p.users = None /\ m.kind # "users"
    PROVE  Coming(q, BagRemove(B, m))
<1>1. \A k : m.kind # k => InFlight(k, BagRemove(B, m)) = InFlight(k, B)
  BY RemoveKind
<1> QED BY <1>1 DEF Coming

\* More requests for the rows, the accounts and the campaigns.
LEMMA MoreFlags ==
    ASSUME NEW p, NEW B, NEW S, IsABag(B), Buttons(p, B),
           \A m \in S : m.kind \in {"rows", "users", "campaigns"}
    PROVE  LET C == B (+) SetToBag(S) IN
           /\ Buttons(p, C)
           /\ \A m \in S : InFlight(m.kind, C) # {}
           /\ \A k : InFlight(k, B) \subseteq InFlight(k, C)
           /\ InFlight("promote", C) = InFlight("promote", B)
<1> DEFINE C == B (+) SetToBag(S)
<1>1. BagToSet(C) = BagToSet(B) \cup S /\ \A x \in BagToSet(B) \ S : C[x] = B[x]
  BY PlusBag
<1> HIDE DEF C
<1>2. \A k \in {"send", "sync", "create", "pick", "promote"} :
         InFlight(k, C) = InFlight(k, B) /\ \A n \in InFlight(k, B) : C[n] = B[n]
  BY <1>1 DEF InFlight
<1>3. \A k \in {"send", "sync", "create", "pick", "promote"} :
         /\ \A b : Awaits(b, k, B) => Awaits(b, k, C)
         /\ Alone(k, B) => Alone(k, C)
  BY <1>2, KindKept
<1>4. Buttons(p, C)
  BY <1>2, <1>3 DEF Buttons
<1>5. (\A m \in S : InFlight(m.kind, C) # {}) /\ \A k : InFlight(k, B) \subseteq InFlight(k, C)
  BY <1>1 DEF InFlight
<1> QED BY <1>2, <1>4, <1>5 DEF C

LEMMA AddButtons ==
    ASSUME NEW p, NEW B, IsABag(B), Buttons(p, B), NEW m, m.kind \in {"rows", "users", "campaigns"}
    PROVE  Buttons(p, BagAdd(B, m))
<1> DEFINE C == BagAdd(B, m)
<1>1. \A k \in {"send", "sync", "create", "pick", "promote"} :
         InFlight(k, C) = InFlight(k, B) /\ \A n \in InFlight(k, B) : C[n] = B[n]
  <2> SUFFICES ASSUME NEW k \in {"send", "sync", "create", "pick", "promote"}
               PROVE  InFlight(k, C) = InFlight(k, B) /\ \A n \in InFlight(k, B) : C[n] = B[n]
    OBVIOUS
  <2>1. m.kind # k
    OBVIOUS
  <2> HIDE DEF C
  <2>2. /\ InFlight(k, C) = InFlight(k, B) \cup (IF m.kind = k THEN {m} ELSE {})
        /\ m.kind # k => \A n \in InFlight(k, B) : C[n] = B[n]
    BY AddKind DEF C
  <2> QED BY <2>1, <2>2
<1> HIDE DEF C
<1>2. \A k \in {"send", "sync", "create", "pick", "promote"} :
         /\ \A b : Awaits(b, k, B) => Awaits(b, k, C)
         /\ Alone(k, B) => Alone(k, C)
  BY <1>1, KindKept
<1> QED BY <1>1, <1>2 DEF Buttons, C

-----------------------------------------------------------------------------
(* A row, step by step.                                                    *)

LEMMA Now ==
    ASSUME IInv
    PROVE  /\ page \in Page /\ IsABag(net) /\ Buttons(page, net) /\ Coming(page, net)
           /\ QueueGood(net) /\ ServerGood
           /\ \A m \in BagToSet(net) : m \in Message /\ Proper(m)
           /\ \A r \in Row \ crossed : RowGood(r)
  BY DEF IInv, Types, Flags, QueueGood, RowsGood

LEMMA AboutSame ==
    ASSUME NEW m, NEW a, a.kind = m.kind, a.row = m.row
    PROVE  About(a) = About(m)
  BY DEF About

\* Every view of a row that is there shows something.
LEMMA Views ==
    ASSUME IInv, NEW r \in Row
    PROVE  /\ View(r) \in ListRow \cup {None}
           /\ View(r) = None <=> rows[r] = None
           /\ rows[r] # None => user \in User /\ user # Gone
           /\ View(r) = None => \A f : ~Matches(r, f)
<1>1. rows[r] \in Entry \cup {None} /\ user \in User \cup {Gone} /\ (user = Gone => rows = Nothing)
  BY Now DEF ServerGood
<1>2. rows[r] # None => user \in User /\ user # Gone
  BY <1>1 DEF Nothing
<1>3. CASE rows[r] # None
  <2>1. View(r) = [entry |-> rows[r], campaign |-> user.campaign]
    BY <1>3 DEF View
  <2>2. View(r) \in ListRow
    BY <1>1, <1>2, <1>3, <2>1 DEF ListRow, User
  <2> QED BY <1>2, <1>3, <2>2, NoneAssumption
<1>4. CASE rows[r] = None
  BY <1>4 DEF View, Matches
<1> QED BY <1>3, <1>4

SameRow(r) ==
    View(r)' = View(r) /\ \A f \in Filter : Matches(r, f)' <=> Matches(r, f)

\* Nothing happens to the row, its requests, and what the page shows of it.
LEMMA RowFrame ==
    ASSUME IInv, NEW r \in Row \ crossed, SameRow(r),
           Pend(r, net') = Pend(r, net), \A m \in Pend(r, net) : net'[m] = net[m],
           page'.filter = page.filter, page'.error = page.error,
           page'.view \in {page.view, "login"},
           \/ page'.entries = page.entries
           \/ page.entries # None /\ page'.entries # None /\ page'.entries[r] = page.entries[r]
           \/ page.entries = None /\ page'.entries # None
    PROVE  RowGood(r)'
<1>1. /\ OneEach(r) /\ ErrorEmpty(r) /\ ListComes(r) /\ RowComes(r) /\ ShowsRow(r) /\ LeavesOut(r)
      /\ page.filter \in Filter
  BY Now DEF RowGood, Page
<1>2. page.view = "app" /\ page.entries = None => \E m \in Pend(r, net) : m.kind = "rows"
  <2>1. \A m \in InFlight("rows", net) : m \in Pend(r, net) /\ m.kind = "rows"
    BY DEF InFlight, Pend, About
  <2> QED BY <2>1, Now DEF Coming
<1>3. \A list : Listing(list, r) => Listing(list, r)'
  BY <1>1 DEF Listing, SameRow
<1>4. OneEach(r)'
  BY <1>1 DEF OneEach
<1>5. ErrorEmpty(r)'
  BY <1>1 DEF ErrorEmpty
<1>6. ListComes(r)'
  BY <1>1, <1>3 DEF ListComes
<1>7. RowComes(r)'
  BY <1>1 DEF RowComes, SameRow
<1>8. ShowsRow(r)'
  <2> SUFFICES ASSUME page'.view = "app", ~page'.error, page'.entries # None,
                      \A m \in Pend(r, net) : m.kind # "rows" /\ m.answer # "ok"
               PROVE  Listing(page.entries, r)'
    BY DEF ShowsRow
  <2>1. page.view = "app" /\ ~page.error /\ page.entries # None
    BY <1>2
  <2>2. Listing(page.entries, r)
    BY <1>1, <2>1 DEF ShowsRow
  <2> QED BY <1>1, <2>1, <2>2 DEF Listing, SameRow
<1>9. LeavesOut(r)'
  <2> SUFFICES ASSUME page'.view = "app", ~page'.error, NEW m \in Pend(r, net),
                      m.kind \in OneRow, page'.entries[r] = None
               PROVE  m.kind # "review" /\ ~Matches(r, page.filter)'
    BY DEF LeavesOut
  <2>1. page.view = "app" /\ ~page.error /\ page.entries # None
    BY <1>1, <1>2 DEF OneEach, OneRow
  <2> QED BY <1>1, <2>1 DEF LeavesOut, SameRow
<1> QED BY <1>4, <1>5, <1>6, <1>7, <1>8, <1>9 DEF RowGood

\* A request for a change goes out.
LEMMA RowSent ==
    ASSUME IInv, NEW r \in Row, NEW m \in Message, Send(m), m.answer = None, m.kind # "rows",
           r \notin crossed', SameRow(r), page.view = "app", page'.filter = page.filter,
           page'.error = page.error, page'.view = page.view, page'.entries = page.entries,
           m.kind = "review" => page.entries[m.row] # None
    PROVE  RowGood(r)'
<1>1. /\ r \notin crossed /\ net' = BagAdd(net, m) /\ IsABag(net)
      /\ r \in About(m) => r \notin AboutAny(net)
  BY Now DEF Send, Cross
<1>2. /\ BagToSet(net') = BagToSet(net) \cup {m}
      /\ \A x \in BagToSet(net) : x # m => net'[x] = net[x]
      /\ m \notin BagToSet(net) => net'[m] = 1
  BY <1>1, AddBag
<1>3. CASE r \notin About(m)
  <2>1. Pend(r, net') = Pend(r, net) /\ \A n \in Pend(r, net) : net'[n] = net[n]
    BY <1>2, <1>3 DEF Pend
  <2> QED BY <1>1, <2>1, RowFrame
<1>4. CASE r \in About(m)
  <2>1. Pend(r, net) = {} /\ Pend(r, net') = {m} /\ net'[m] = 1
    BY <1>1, <1>2, <1>4 DEF AboutAny, Pend
  <2>2. RowGood(r) /\ page.filter \in Filter
    BY <1>1, Now DEF Page
  <2>3. page.entries # None
    <3>1. page.entries = None => \E n \in BagToSet(net) : n.kind = "rows"
      BY Now DEF Coming, InFlight
    <3>2. \A n \in BagToSet(net) : n.kind = "rows" => r \in About(n)
      BY DEF About
    <3> QED BY <2>1, <3>1, <3>2 DEF Pend
  <2>4. ~page.error => Listing(page.entries, r)
    BY <2>1, <2>2, <2>3 DEF RowGood, ShowsRow
  <2>5. (~page.error => Listing(page.entries, r)')
    BY <2>2, <2>4 DEF Listing, SameRow
  <2>6. OneEach(r)' /\ ErrorEmpty(r)' /\ ListComes(r)' /\ RowComes(r)' /\ ShowsRow(r)'
    <3>1. OneEach(r)' /\ ErrorEmpty(r)'
      BY <2>1, <2>2 DEF RowGood, OneEach, ErrorEmpty
    <3>2. ListComes(r)' /\ RowComes(r)'
      BY <2>1, NoneAssumption DEF ListComes, RowComes
    <3>3. ShowsRow(r)'
      BY <2>1, <2>5 DEF ShowsRow
    <3> QED BY <3>1, <3>2, <3>3
  <2>7. LeavesOut(r)'
    <3>1. m.kind \in OneRow => m.row = r
      BY <1>4 DEF About, OneRow
    <3>2. ~page.error /\ page.entries[r] = None => ~Matches(r, page.filter)
      BY <2>4, <1>1, Views DEF Listing
    <3> QED BY <2>1, <2>2, <3>1, <3>2 DEF LeavesOut, SameRow
  <2> QED BY <2>6, <2>7 DEF RowGood
<1> QED BY <1>3, <1>4

\* The rows are loaded again.
LEMMA RowLoaded ==
    ASSUME IInv, NEW r \in Row, NEW p \in Page, NEW B, IsABag(B), LoadScouts(p, B),
           r \notin crossed'
    PROVE  RowGood(r)'
<1> DEFINE m == Request("rows", None, p.filter)
           S == {m} \cup (IF p.campaigns = None THEN {Campaigns} ELSE {})
                    \cup (IF p.users = None THEN {Users} ELSE {})
<1>1. /\ page'.entries = None /\ ~page'.error /\ page'.filter = p.filter
      /\ net' = B (+) SetToBag(S) /\ r \notin AboutAny(B)
  BY DEF LoadScouts, Loads, Cross, Page
<1>2. m.kind = "rows" /\ m.value = p.filter /\ m.answer = None /\ r \in About(m)
      /\ \A n \in S : r \in About(n) => n = m
  BY DEF Request, About, Campaigns, Users
<1> HIDE DEF m
<1> HIDE DEF S
<1>3. /\ BagToSet(net') = BagToSet(B) \cup S
      /\ \A x \in S \ BagToSet(B) : net'[x] = 1
  BY <1>1, PlusBag
<1>4. m \in S
  BY DEF S
<1>5. Pend(r, net') = {m} /\ net'[m] = 1
  BY <1>1, <1>2, <1>3, <1>4 DEF Pend, AboutAny
<1>6. OneEach(r)' /\ ErrorEmpty(r)'
  BY <1>1, <1>5 DEF OneEach, ErrorEmpty
<1>7. ListComes(r)' /\ RowComes(r)'
  BY <1>1, <1>2, <1>5, NoneAssumption DEF ListComes, RowComes, OneRow
<1>8. ShowsRow(r)' /\ LeavesOut(r)'
  BY <1>1, <1>2, <1>5 DEF ShowsRow, LeavesOut, OneRow
<1> QED BY <1>6, <1>7, <1>8 DEF RowGood

\* A request is answered: what the answer to a request about the row must be.
AnswerGood(m, a, r) ==
    IF a.answer = "ok"
    THEN /\ m.answer = None
         /\ a.kind = "rows" => SameRow(r) /\ Listing(a.list, r)
         /\ a.kind \in OneRow => a.list[r] = View(r)' /\ a.list[r] # None
         /\ a.kind \in {"promote", "send"} => \A f \in Filter : Matches(r, f)' <=> Matches(r, f)
    ELSE SameRow(r) /\ m.answer = None

LEMMA RowAnswered ==
    ASSUME IInv, NEW r \in Row \ crossed, NEW m \in BagToSet(net), NEW a, Answer(m, a),
           a # m, a.kind = m.kind, a.row = m.row, a.value = m.value, a.answer # None,
           UNCHANGED page, IF r \in About(m) THEN AnswerGood(m, a, r) ELSE SameRow(r)
    PROVE  RowGood(r)'
<1>1. /\ IsABag(net) /\ RowGood(r) /\ About(a) = About(m) /\ page.filter \in Filter
      /\ net' = BagAdd(BagRemove(net, m), a)
  BY Now, AboutSame DEF Answer, Page
<1>2. LET C == net' IN
      /\ BagToSet(C) \subseteq BagToSet(net) \cup {a}
      /\ a \in BagToSet(C) /\ BagToSet(net) \ {m} \subseteq BagToSet(C)
      /\ \A x \in BagToSet(C) \ {m, a} : C[x] = net[x]
      /\ net[m] = 1 /\ a # m => m \notin BagToSet(C)
      /\ net[m] = 1 /\ a \notin BagToSet(net) \ {m} => C[a] = 1
  BY <1>1, SwapBag
<1>3. CASE r \notin About(m)
  <2>1. Pend(r, net') = Pend(r, net) /\ \A n \in Pend(r, net) : net'[n] = net[n]
    BY <1>1, <1>2, <1>3 DEF Pend
  <2> QED BY <1>3, <2>1, RowFrame
<1>4. CASE r \in About(m)
  <2>1. Pend(r, net) = {m} /\ net[m] = 1
    BY <1>1, <1>4 DEF Pend, RowGood, OneEach
  <2>2. a \notin BagToSet(net) \ {m}
    BY <1>1, <1>4, <2>1 DEF Pend
  <2>3. Pend(r, net') = {a} /\ net'[a] = 1
    BY <1>1, <1>2, <1>4, <2>1, <2>2 DEF Pend
  <2>4. OneEach(r)' /\ ErrorEmpty(r)'
    BY <1>1, <2>3 DEF RowGood, OneEach, ErrorEmpty
  <2>5. ListComes(r)'
    BY <1>1, <1>4, <2>1, <2>3 DEF RowGood, ListComes, AnswerGood, Listing, SameRow
  <2>6. RowComes(r)'
    BY <1>1, <1>4, <2>3 DEF RowComes, AnswerGood
  <2>7. ShowsRow(r)'
    <3> SUFFICES ASSUME page.view = "app", ~page.error, page.entries # None,
                        a.kind # "rows", a.answer # "ok"
                 PROVE  Listing(page.entries, r)'
      BY <2>3 DEF ShowsRow
    <3>1. SameRow(r) /\ m.answer = None
      BY <1>4 DEF AnswerGood
    <3>2. Listing(page.entries, r)
      BY <1>1, <2>1, <3>1, NoneAssumption DEF RowGood, ShowsRow
    <3> QED BY <1>1, <3>1, <3>2 DEF Listing, SameRow
  <2>8. LeavesOut(r)'
    <3>1. a.kind \in OneRow => a.kind = "review" \/ \A f \in Filter : Matches(r, f)' <=> Matches(r, f)
      BY <1>4 DEF AnswerGood, OneRow, SameRow
    <3> QED BY <1>1, <2>1, <2>3, <3>1 DEF RowGood, LeavesOut
  <2> QED BY <2>4, <2>5, <2>6, <2>7, <2>8 DEF RowGood
<1> QED BY <1>3, <1>4

\* An answer is handled: what the page must show of the row then.
LEMMA RowHandled ==
    ASSUME IInv, NEW r \in Row \ crossed, NEW m \in BagToSet(net), r \in About(m),
           net' = Rest(m), page'.error => page'.entries # None /\ page'.entries[r] = None,
           page'.view = "app" /\ ~page'.error /\ page'.entries # None => Listing(page.entries, r)'
    PROVE  RowGood(r)'
<1>1. IsABag(net) /\ RowGood(r)
  BY Now
<1>2. Pend(r, net) = {m} /\ net[m] = 1
  BY <1>1 DEF Pend, RowGood, OneEach
<1>3. BagToSet(net') \subseteq BagToSet(net) /\ m \notin BagToSet(net')
  BY <1>1, <1>2, RemoveBag DEF Rest
<1>4. Pend(r, net') = {}
  BY <1>2, <1>3 DEF Pend
<1> QED BY <1>4 DEF RowGood, OneEach, ErrorEmpty, ListComes, RowComes, ShowsRow, LeavesOut

-----------------------------------------------------------------------------
(* The dialog and the queue.                                               *)

\* The dialog stays as it is, and so does what it named; nothing new is promoted.
LEMMA DialogKept ==
    ASSUME IInv, page'.dialog = page.dialog, page'.named = page.named, crossed \subseteq crossed',
           \/ user' = user
           \/ user # Gone /\ user' # Gone /\ user'.campaign = user.campaign
           \/ page.dialog \in crossed' \cup {None},
           \A n \in BagToSet(net') :
              \/ \E m \in BagToSet(net) : n.kind = m.kind /\ n.row = m.row /\ n.value = m.value
              \/ n.kind \in {"rows", "users", "campaigns"}
              \/ page.dialog = None /\ n.kind # "promote"
    PROVE  DialogGood'
<1>1. DialogGood
  BY DEF IInv
<1>2. ASSUME NEW n \in InFlight("promote", net')
      PROVE  n.row = page'.dialog /\ n.value = page'.named
  <2>1. n \in BagToSet(net') /\ n.kind = "promote"
    BY <1>2 DEF InFlight
  <2>2. PICK m \in BagToSet(net) : n.kind = m.kind /\ n.row = m.row /\ n.value = m.value
    BY <2>1
  <2> QED BY <1>1, <2>1, <2>2 DEF DialogGood, InFlight
<1>3. ASSUME page.dialog # None, page.dialog \notin crossed',
             NEW n \in Pend(page.dialog, net')
      PROVE  n.kind \in {"rows", "promote"}
  <2>1. CASE n.kind \in {"rows", "users", "campaigns"}
    BY <1>3, <2>1 DEF Pend, About
  <2>2. CASE n.kind \notin {"rows", "users", "campaigns"}
    <3>1. PICK m \in BagToSet(net) : n.kind = m.kind /\ n.row = m.row
      BY <1>3, <2>2 DEF Pend
    <3>2. m \in Pend(page.dialog, net)
      BY <1>3, <3>1, AboutSame DEF Pend
    <3> QED BY <1>1, <1>3, <3>1, <3>2 DEF DialogGood
  <2> QED BY <2>1, <2>2
<1> QED BY <1>1, <1>2, <1>3 DEF DialogGood

LEMMA QueueAdd ==
    ASSUME NEW B, QueueGood(B), NEW m \in Message, Proper(m)
    PROVE  QueueGood(BagAdd(B, m))
  BY AddBag DEF QueueGood

LEMMA QueueRest ==
    ASSUME NEW B, QueueGood(B), NEW m \in BagToSet(B)
    PROVE  QueueGood(BagRemove(B, m))
  BY RemoveBag DEF QueueGood

LEMMA QueuePlus ==
    ASSUME NEW B, QueueGood(B), NEW S \in SUBSET Message, \A m \in S : Proper(m)
    PROVE  QueueGood(B (+) SetToBag(S))
  BY PlusBag DEF QueueGood

LEMMA RequestGood ==
    ASSUME NEW kind \in Kind, NEW row \in Row \cup {None},
           NEW value \in Filter \cup Campaign \cup {None} \cup BOOLEAN,
           kind \in OneRow => row \in Row, kind = "rows" => value \in Filter,
           kind = "review" => value \in Verdict \cup {None},
           kind = "pick" => value \in Campaign \cup {None},
           kind = "active" => value \in BOOLEAN
    PROVE  LET m == Request(kind, row, value) IN
           /\ m \in Message /\ Proper(m) /\ m.kind = kind /\ m.row = row /\ m.value = value
           /\ m.answer = None
<1>1. Nothing \in List /\ \A r \in Row : Nothing[r] = None
  BY DEF Nothing, List
<1> QED BY <1>1, NoneAssumption DEF Request, Message, Proper

LEMMA LoadsGood ==
    ASSUME NEW p \in Page
    PROVE  \E S \in SUBSET Message :
              /\ Loads(p) = SetToBag(S)
              /\ \A m \in S : Proper(m) /\ m.kind \in {"rows", "users", "campaigns"}
              /\ \E m \in S : m.kind = "rows"
              /\ p.users = None => \E m \in S : m.kind = "users"
<1> DEFINE m == Request("rows", None, p.filter)
           S == {m} \cup (IF p.campaigns = None THEN {Campaigns} ELSE {})
                    \cup (IF p.users = None THEN {Users} ELSE {})
<1>1. m \in Message /\ Proper(m) /\ m.kind = "rows"
  <2>1. p.filter \in Filter /\ "rows" \in Kind \ OneRow
    BY DEF Page, Kind, OneRow
  <2> QED BY <2>1, RequestGood
<1>2. Users \in Message /\ Proper(Users) /\ Users.kind = "users"
  BY RequestGood DEF Users, Kind, OneRow
<1>3. Campaigns \in Message /\ Proper(Campaigns) /\ Campaigns.kind = "campaigns"
  BY RequestGood DEF Campaigns, Kind, OneRow
<1>4. Loads(p) = SetToBag(S)
  BY DEF Loads
<1> HIDE DEF m
<1> QED BY <1>1, <1>2, <1>3, <1>4

-----------------------------------------------------------------------------
(* The steps, by what they do to the page and the queue.                   *)

\* A click that asks for nothing.
LEMMA PageStep ==
    ASSUME IInv, NEW q \in Page, page' = q, UNCHANGED <<net, server>>,
           events' \in 0 .. MaxEvents, crossed \subseteq crossed', crossed' \subseteq Row,
           q.view = page.view, q.filter = page.filter, q.error = page.error,
           q.entries = page.entries, q.users = page.users, SameButtons(page, q), DialogGood'
    PROVE  IInv'
<1>1. Types'
  BY Now DEF Types, ServerGood, server
<1>2. Flags'
  BY Now DEF Flags, Buttons, Coming, SameButtons
<1>3. RowsGood'
  <2> SUFFICES ASSUME NEW r \in Row \ crossed' PROVE RowGood(r)'
    BY DEF RowsGood
  <2>1. SameRow(r)
    BY DEF SameRow, View, Matches, server
  <2> QED BY <2>1, RowFrame
<1> QED BY <1>1, <1>2, <1>3 DEF IInv

LEMMA SendStep ==
    ASSUME IInv, page.view = "app", NEW q \in Page, page' = q, NEW m \in Message, Send(m),
           Proper(m), m.answer = None, m.kind # "rows", UNCHANGED server,
           events' \in 0 .. MaxEvents, q.view = page.view, q.filter = page.filter,
           q.error = page.error, q.entries = page.entries, q.users = page.users,
           IF m.kind = "send" THEN page.sending = None /\ q.sending # None
                              ELSE q.sending = page.sending,
           IF m.kind = "sync" THEN ~page.syncing /\ q.syncing ELSE q.syncing = page.syncing,
           IF m.kind = "create" THEN ~page.creating /\ q.creating ELSE q.creating = page.creating,
           IF m.kind = "pick" THEN ~page.saving /\ q.saving ELSE q.saving = page.saving,
           IF m.kind = "promote" THEN ~page.promoting /\ q.promoting
                                 ELSE page.promoting => q.promoting,
           m.kind = "review" => page.entries[m.row] # None, DialogGood'
    PROVE  IInv'
<1>1. net' = BagAdd(net, m) /\ crossed' = crossed \cup (About(m) \cap AboutAny(net))
  BY DEF Send, Cross
<1>2. crossed' \subseteq Row
  BY <1>1, Now DEF ServerGood, About, Proper, OneRow, Message, Kind
<1>3. Types'
  BY <1>1, <1>2, Now, QueueAdd DEF Types, ServerGood, server
<1>4. Flags'
  BY <1>1, Now, SendFlags DEF Flags
<1>5. RowsGood'
  <2> SUFFICES ASSUME NEW r \in Row \ crossed' PROVE RowGood(r)'
    BY DEF RowsGood
  <2>1. SameRow(r)
    BY DEF SameRow, View, Matches, server
  <2> QED BY <2>1, RowSent
<1> QED BY <1>3, <1>4, <1>5 DEF IInv

LEMMA LoadStep ==
    ASSUME IInv, NEW p \in Page, NEW B, QueueGood(B), LoadScouts(p, B), Buttons(p, B),
           UNCHANGED <<rows, user>>, session' \in BOOLEAN, events' \in 0 .. MaxEvents,
           AboutAny(B) \subseteq Row, DialogGood'
    PROVE  IInv'
<1> DEFINE q == [p EXCEPT !.entries = None, !.error = FALSE]
<1>1. /\ page' = q /\ net' = B (+) Loads(p) /\ crossed' = crossed \cup AboutAny(B)
      /\ IsABag(B)
  BY DEF LoadScouts, Cross, QueueGood
<1>2. q \in Page /\ q.users = p.users /\ q.view = p.view /\ q.entries = None
  BY DEF Page
<1>3. PICK S \in SUBSET Message :
              /\ Loads(p) = SetToBag(S)
              /\ \A m \in S : Proper(m) /\ m.kind \in {"rows", "users", "campaigns"}
              /\ \E m \in S : m.kind = "rows"
              /\ p.users = None => \E m \in S : m.kind = "users"
  BY LoadsGood
<1>4. Types'
  BY <1>1, <1>2, <1>3, Now, QueuePlus DEF Types, ServerGood
<1>5. Flags'
  <2>1. /\ Buttons(p, net') /\ \A m \in S : InFlight(m.kind, net') # {}
    BY <1>1, <1>3, MoreFlags
  <2>2. Buttons(q, net')
    BY <2>1 DEF Buttons, Page
  <2>3. Coming(q, net')
    BY <1>2, <1>3, <2>1 DEF Coming
  <2> QED BY <1>1, <2>2, <2>3 DEF Flags
<1>6. RowsGood'
  BY <1>1, RowLoaded DEF RowsGood
<1> QED BY <1>4, <1>5, <1>6 DEF IInv

LEMMA AnswerStep ==
    ASSUME IInv, NEW m \in BagToSet(net), NEW a \in Message, Answer(m, a), Proper(a), a # m,
           a.kind = m.kind, a.row = m.row, a.value = m.value, a.answer # None, UNCHANGED page,
           ServerGood', crossed \subseteq crossed',
           \A r \in Row \ crossed' : IF r \in About(m) THEN AnswerGood(m, a, r) ELSE SameRow(r),
           \/ user' = user
           \/ user # Gone /\ user' # Gone /\ user'.campaign = user.campaign
           \/ page.dialog \in crossed' \cup {None}
    PROVE  IInv'
<1>1. net' = BagAdd(BagRemove(net, m), a)
  BY DEF Answer
<1>2. BagToSet(net') \subseteq BagToSet(net) \cup {a}
  BY <1>1, Now, SwapBag
<1>3. Types'
  BY <1>1, Now, QueueAdd, QueueRest DEF Types
<1>4. Flags'
  BY <1>1, Now, AnswerFlags DEF Flags
<1>5. RowsGood'
  BY RowAnswered DEF RowsGood
<1>6. DialogGood'
  BY <1>2, DialogKept
<1> QED BY <1>3, <1>4, <1>5, <1>6 DEF IInv

LEMMA HandleStep ==
    ASSUME IInv, NEW m \in BagToSet(net), NEW q \in Page, page' = q, net' = Rest(m),
           UNCHANGED <<server, events, crossed>>, q.filter = page.filter,
           q.view \in {page.view, "login"},
           q.sending = IF m.kind = "send" THEN None ELSE page.sending,
           IF m.kind = "sync" THEN ~q.syncing ELSE q.syncing = page.syncing,
           IF m.kind = "create" THEN ~q.creating ELSE q.creating = page.creating,
           IF m.kind = "pick" THEN ~q.saving ELSE q.saving = page.saving,
           m.kind # "promote" => q.promoting = page.promoting,
           q.view = "app" /\ q.entries = None => page.entries = None /\ m.kind # "rows",
           q.view = "app" /\ q.users = None => page.users = None /\ m.kind # "users",
           m.kind # "rows" => q.error = page.error,
           \A r \in Row \ (crossed \cup About(m)) :
              \/ q.entries = page.entries
              \/ page.entries # None /\ q.entries # None /\ q.entries[r] = page.entries[r]
              \/ page.entries = None /\ q.entries # None,
           \A r \in About(m) \ crossed :
              /\ q.error => q.entries # None /\ q.entries[r] = None
              /\ q.view = "app" /\ ~q.error /\ q.entries # None => Listing(q.entries, r),
           DialogGood'
    PROVE  IInv'
<1>1. Types'
  BY Now, QueueRest DEF Types, ServerGood, server, Rest
<1>2. Flags'
  <2>1. Buttons(q, net')
    BY Now, HandleButtons DEF Rest
  <2>2. Coming(q, net')
    BY Now, HandleComing, "login" # "app" DEF Rest
  <2> QED BY <2>1, <2>2 DEF Flags
<1>3. RowsGood'
  <2> SUFFICES ASSUME NEW r \in Row \ crossed PROVE RowGood(r)'
    BY DEF RowsGood
  <2>1. SameRow(r)
    BY DEF SameRow, View, Matches, server
  <2>2. CASE r \in About(m)
    <3>1. Listing(q.entries, r) => Listing(page.entries, r)'
      BY <2>1, Now DEF Listing, SameRow, Page
    <3> QED BY <2>2, <3>1, RowHandled
  <2>3. CASE r \notin About(m)
    <3>1. Pend(r, net') = Pend(r, net) /\ \A n \in Pend(r, net) : net'[n] = net[n]
      BY <2>3, Now, RemoveBag DEF Pend, Rest
    <3>2. m.kind # "rows"
      BY <2>3 DEF About
    <3> QED BY <2>1, <2>3, <3>1, <3>2, RowFrame
  <2> QED BY <2>2, <2>3
<1> QED BY <1>1, <1>2, <1>3 DEF IInv

-----------------------------------------------------------------------------
(* The administrator.                                                      *)

LEMMA EventGood == ASSUME IInv, Event PROVE events' \in 0 .. MaxEvents
  BY Now, BoundAssumption DEF Event, ServerGood

\* Nothing but a promotion is asked for with the dialog open.
LEMMA NoDialog ==
    ASSUME IInv, Shown, page'.dialog = page.dialog, page'.named = page.named, NEW m,
           Send(m), m.kind # "promote", UNCHANGED server
    PROVE  DialogGood'
<1>1. BagToSet(net') = BagToSet(net) \cup {m} /\ crossed \subseteq crossed'
  BY Now, AddBag DEF Send, Cross
<1> QED BY <1>1, DialogKept DEF Shown, server

LEMMA AboutRows ==
    ASSUME IInv, NEW m \in BagToSet(net)
    PROVE  About(m) \subseteq Row
  BY Now DEF About, Proper, Message, Kind, OneRow

LEMMA AllAbout ==
    ASSUME NEW B, QueueGood(B)
    PROVE  AboutAny(B) \subseteq Row
<1>1. \A m \in BagToSet(B) : About(m) \subseteq Row
  BY DEF QueueGood, About, Proper, Message, Kind, OneRow
<1> QED BY <1>1 DEF AboutAny

\* Loading the rows again leaves the dialog alone.
LEMMA LoadsDialog ==
    ASSUME IInv, NEW p \in Page, NEW B, QueueGood(B), LoadScouts(p, B), user' = user,
           p.dialog = page.dialog, p.named = page.named,
           \A n \in BagToSet(B) : n \in BagToSet(net) \/ n.kind = "users"
    PROVE  DialogGood'
<1>1. PICK S : Loads(p) = SetToBag(S) /\ \A m \in S : m.kind \in {"rows", "users", "campaigns"}
  BY LoadsGood
<1>2. BagToSet(net') = BagToSet(B) \cup S /\ crossed \subseteq crossed'
  BY <1>1, PlusBag DEF LoadScouts, QueueGood, Cross
<1>3. page'.dialog = page.dialog /\ page'.named = page.named
  BY DEF LoadScouts, Page
<1> QED BY <1>1, <1>2, <1>3, DialogKept

LEMMA FilterStep ==
    ASSUME IInv, NEW f \in Filter, ChangeFilter(f)
    PROVE  IInv'
<1> DEFINE p == [page EXCEPT !.filter = f]
<1>1. LoadScouts(p, net) /\ Event /\ UNCHANGED server
  BY DEF ChangeFilter
<1>2. p \in Page /\ p.dialog = page.dialog /\ p.named = page.named
      /\ SameButtons(page, p) /\ p.promoting = page.promoting
  BY Now DEF Page, SameButtons
<1> HIDE DEF p
<1>3. Buttons(p, net)
  BY <1>2, Now DEF Buttons, SameButtons
<1>4. DialogGood'
  BY <1>1, <1>2, Now, LoadsDialog DEF server
<1> QED BY <1>1, <1>2, <1>3, <1>4, Now, EventGood, AllAbout, LoadStep DEF server, ServerGood

LEMMA SignInStep ==
    ASSUME IInv, SignIn
    PROVE  IInv'
<1> DEFINE p == [page EXCEPT !.view = "app"]
<1>1. LoadScouts(p, net) /\ Event /\ session' = TRUE /\ UNCHANGED <<rows, user>>
  BY DEF SignIn
<1>2. p \in Page /\ p.dialog = page.dialog /\ p.named = page.named
      /\ SameButtons(page, p) /\ p.promoting = page.promoting
  BY Now DEF Page, SameButtons
<1> HIDE DEF p
<1>3. Buttons(p, net)
  BY <1>2, Now DEF Buttons, SameButtons
<1>4. DialogGood'
  BY <1>1, <1>2, Now, LoadsDialog
<1> QED BY <1>1, <1>2, <1>3, <1>4, Now, EventGood, AllAbout, LoadStep DEF ServerGood

LEMMA ReviewStep ==
    ASSUME IInv, NEW r \in Row, NEW want \in {"QUALIFIED", "REJECTED", None}, ReviewRow(r, want)
    PROVE  IInv'
<1> DEFINE value == IF page.entries[r].entry.verdict = want THEN "PENDING" ELSE want
<1>1. /\ Shown /\ page.entries # None /\ page.entries[r] # None /\ Event
      /\ Send(Request("review", r, value)) /\ UNCHANGED <<page, server>>
  BY DEF ReviewRow, Listed
<1>2. value \in Verdict \cup {None}
  BY DEF Verdict
<1> HIDE DEF value
<1> PICK m : m = Request("review", r, value)
  OBVIOUS
<1>3. m \in Message /\ Proper(m) /\ m.kind = "review" /\ m.row = r /\ m.answer = None
  <2>1. "review" \in Kind \ {"rows", "pick", "active"} /\ value \in Filter \cup {None}
    BY <1>2 DEF Kind, Filter
  <2> QED BY <1>2, <2>1, RequestGood
<1>4. DialogGood'
  BY <1>1, <1>3, NoDialog
<1> QED BY <1>1, <1>3, <1>4, Now, EventGood, SendStep DEF Shown, server

LEMMA OpenPromoteStep ==
    ASSUME IInv, NEW r \in Row, OpenPromote(r)
    PROVE  IInv'
<1> DEFINE q == [page EXCEPT !.dialog = r, !.named = page.entries[r].campaign]
<1>1. /\ page.view = "app" /\ page.dialog = None /\ page.entries # None
      /\ page.entries[r] # None /\ page' = q /\ crossed' = crossed \cup ({r} \cap AboutAny(net))
      /\ UNCHANGED <<net, server, events>>
  BY DEF OpenPromote, Listed, Shown, Cross
<1>2. page.entries[r].campaign \in Campaign \cup {None}
  BY <1>1, Now DEF Page, List, ListRow
<1>3. /\ q \in Page /\ q.view = page.view /\ q.filter = page.filter /\ q.error = page.error
      /\ q.entries = page.entries /\ q.users = page.users /\ SameButtons(page, q)
      /\ q.dialog = r /\ q.named = page.entries[r].campaign
  BY <1>2, Now DEF Page, SameButtons
<1> HIDE DEF q
<1>4. InFlight("promote", net) = {}
  BY <1>1, Now, NoneAssumption DEF IInv, DialogGood, InFlight, Proper, OneRow
<1>5. ASSUME r \notin crossed'
      PROVE  /\ user # Gone /\ page.entries[r].campaign = user.campaign /\ Pend(r, net) = {}
  <2>1. RowGood(r) /\ Pend(r, net) = {}
    BY <1>1, <1>5, Now DEF AboutAny, Pend
  <2>2. Listing(page.entries, r)
    BY <1>1, <2>1 DEF RowGood, ShowsRow, ErrorEmpty
  <2>3. page.entries[r] = View(r) /\ rows[r] # None
    BY <1>1, <2>2, Views DEF Listing
  <2> QED BY <2>1, <2>3, Views DEF View
<1>6. DialogGood'
  BY <1>1, <1>3, <1>4, <1>5 DEF DialogGood, server
<1> QED BY <1>1, <1>3, <1>6, Now, PageStep DEF ServerGood

LEMMA ClosePromoteStep ==
    ASSUME IInv, ClosePromote
    PROVE  IInv'
<1> DEFINE q == [page EXCEPT !.dialog = None, !.named = None]
<1>1. ~page.promoting /\ page' = q /\ UNCHANGED <<net, server, events, crossed>>
  BY DEF ClosePromote
<1>2. /\ q \in Page /\ q.view = page.view /\ q.filter = page.filter /\ q.error = page.error
      /\ q.entries = page.entries /\ q.users = page.users /\ SameButtons(page, q)
      /\ q.dialog = None
  BY Now DEF Page, SameButtons
<1> HIDE DEF q
<1>3. DialogGood'
  BY <1>1, <1>2, Now DEF Buttons, DialogGood
<1> QED BY <1>1, <1>2, <1>3, Now, PageStep DEF ServerGood

LEMMA ConfirmPromoteStep ==
    ASSUME IInv, ConfirmPromote
    PROVE  IInv'
<1> DEFINE q == [page EXCEPT !.promoting = TRUE]
<1>1. /\ page.view = "app" /\ page.dialog # None /\ ~page.promoting /\ page' = q
      /\ Send(Request("promote", page.dialog, page.named)) /\ Event /\ UNCHANGED server
  BY DEF ConfirmPromote
<1> PICK m : m = Request("promote", page.dialog, page.named)
  OBVIOUS
<1>2. /\ m \in Message /\ Proper(m) /\ m.kind = "promote" /\ m.row = page.dialog
      /\ m.value = page.named /\ m.answer = None
  <2>1. "promote" \in Kind \ {"rows", "pick", "active", "review"} /\ page.dialog \in Row
        /\ page.named \in Campaign \cup {None}
    BY <1>1, Now DEF Kind, Page
  <2> QED BY <2>1, RequestGood
<1>3. /\ q \in Page /\ q.view = page.view /\ q.filter = page.filter /\ q.error = page.error
      /\ q.entries = page.entries /\ q.users = page.users /\ q.sending = page.sending
      /\ q.syncing = page.syncing /\ q.creating = page.creating /\ q.saving = page.saving
      /\ q.promoting /\ q.dialog = page.dialog /\ q.named = page.named
  BY Now DEF Page
<1> HIDE DEF q
<1>4. DialogGood'
  <2>1. InFlight("promote", net) = {}
    BY <1>1, Now DEF Buttons
  <2>2. BagToSet(net') = BagToSet(net) \cup {m} /\ crossed \subseteq crossed'
    BY <1>1, Now, AddBag DEF Send, Cross
  <2>3. \A n \in InFlight("promote", net') : n = m
    BY <2>1, <2>2 DEF InFlight
  <2> QED BY <1>1, <1>2, <1>3, <2>2, <2>3 DEF IInv, DialogGood, Pend, server
<1> QED BY <1>1, <1>2, <1>3, <1>4, EventGood, SendStep

LEMMA SendToStudioStep ==
    ASSUME IInv, NEW r \in Row, SendToStudio(r)
    PROVE  IInv'
<1> DEFINE q == [page EXCEPT !.sending = r]
<1>1. /\ Shown /\ page.sending = None /\ page' = q
      /\ Send(Request("send", r, None)) /\ Event /\ UNCHANGED server
  BY DEF SendToStudio, Listed
<1> PICK m : m = Request("send", r, None)
  OBVIOUS
<1>2. m \in Message /\ Proper(m) /\ m.kind = "send" /\ m.answer = None
  <2>1. "send" \in Kind \ {"rows", "pick", "active", "review"}
    BY DEF Kind
  <2> QED BY <2>1, RequestGood
<1>3. /\ q \in Page /\ q.view = page.view /\ q.filter = page.filter /\ q.error = page.error
      /\ q.entries = page.entries /\ q.users = page.users /\ q.sending # None
      /\ q.syncing = page.syncing /\ q.creating = page.creating /\ q.saving = page.saving
      /\ q.promoting = page.promoting /\ q.dialog = page.dialog /\ q.named = page.named
  BY Now, NoneAssumption DEF Page
<1> HIDE DEF q
<1>4. DialogGood'
  BY <1>1, <1>2, <1>3, NoDialog
<1> QED BY <1>1, <1>2, <1>3, <1>4, EventGood, SendStep DEF Shown

\* The requests about the scout's account, and the inbox.
LEMMA AccountAsk ==
    ASSUME IInv, Shown, NEW q \in Page, page' = q, UNCHANGED server, events' \in 0 .. MaxEvents,
           NEW m \in Message, Proper(m), m.answer = None, Send(m),
           m.kind \in {"campaigns", "pick", "active", "remove", "create", "sync"},
           q.view = page.view, q.filter = page.filter, q.error = page.error,
           q.entries = page.entries, q.users = page.users, q.sending = page.sending,
           IF m.kind = "sync" THEN ~page.syncing /\ q.syncing ELSE q.syncing = page.syncing,
           IF m.kind = "create" THEN ~page.creating /\ q.creating ELSE q.creating = page.creating,
           IF m.kind = "pick" THEN ~page.saving /\ q.saving ELSE q.saving = page.saving,
           q.promoting = page.promoting, q.dialog = page.dialog, q.named = page.named
    PROVE  IInv'
<1>1. DialogGood'
  BY NoDialog
<1> QED BY <1>1, SendStep DEF Shown

LEMMA AccountStep ==
    ASSUME IInv, ChangeAccount \/ CreateAccount \/ SyncInbox
                    \/ \E c \in Campaign \cup {None} : PickCampaign(c)
    PROVE  IInv'
<1>1. CASE ChangeAccount
  <2>1. /\ Shown /\ Event /\ UNCHANGED <<page, server>> /\ page.users \in User
        /\ \/ Send(Request("active", None, ~page.users.active))
           \/ Send(Request("remove", None, None))
    BY <1>1, Now DEF ChangeAccount, Account, Page
  <2>2. (~page.users.active) \in BOOLEAN
    OBVIOUS
  <2>3. {"active", "remove"} \subseteq Kind \ (OneRow \cup {"rows", "pick"})
    BY DEF Kind, OneRow
  <2>4. PICK m : /\ m \in Message /\ Proper(m) /\ m.kind \in {"active", "remove"}
                 /\ m.answer = None /\ Send(m)
    <3>1. \A b \in BOOLEAN : LET m == Request("active", None, b) IN
             m \in Message /\ Proper(m) /\ m.kind = "active" /\ m.answer = None
      BY <2>3, RequestGood DEF OneRow
    <3>2. LET m == Request("remove", None, None) IN
             m \in Message /\ Proper(m) /\ m.kind = "remove" /\ m.answer = None
      BY <2>3, RequestGood DEF OneRow
    <3> QED BY <2>1, <2>2, <3>1, <3>2
  <2> QED BY <2>1, <2>4, Now, EventGood, AccountAsk
<1>2. CASE CreateAccount
  <2> PICK q : q = [page EXCEPT !.creating = TRUE]
    OBVIOUS
  <2> PICK m : m = Request("create", None, None)
    OBVIOUS
  <2>1. Shown /\ ~page.creating /\ Event /\ page' = q /\ Send(m) /\ UNCHANGED server
    BY <1>2 DEF CreateAccount
  <2>2. m \in Message /\ Proper(m) /\ m.kind = "create" /\ m.answer = None
    BY RequestGood DEF Kind, OneRow
  <2>3. /\ q \in Page /\ q.view = page.view /\ q.filter = page.filter /\ q.error = page.error
        /\ q.entries = page.entries /\ q.users = page.users /\ q.sending = page.sending
        /\ q.syncing = page.syncing /\ q.creating /\ q.saving = page.saving
        /\ q.promoting = page.promoting /\ q.dialog = page.dialog /\ q.named = page.named
    BY Now DEF Page
  <2> QED BY <2>1, <2>2, <2>3, EventGood, AccountAsk
<1>3. CASE SyncInbox
  <2> PICK q : q = [page EXCEPT !.syncing = TRUE]
    OBVIOUS
  <2> PICK m : m = Request("sync", None, None)
    OBVIOUS
  <2>1. Shown /\ ~page.syncing /\ Event /\ page' = q /\ Send(m) /\ UNCHANGED server
    BY <1>3 DEF SyncInbox
  <2>2. m \in Message /\ Proper(m) /\ m.kind = "sync" /\ m.answer = None
    BY RequestGood DEF Kind, OneRow
  <2>3. /\ q \in Page /\ q.view = page.view /\ q.filter = page.filter /\ q.error = page.error
        /\ q.entries = page.entries /\ q.users = page.users /\ q.sending = page.sending
        /\ q.syncing /\ q.creating = page.creating /\ q.saving = page.saving
        /\ q.promoting = page.promoting /\ q.dialog = page.dialog /\ q.named = page.named
    BY Now DEF Page
  <2> QED BY <2>1, <2>2, <2>3, EventGood, AccountAsk
<1>4. ASSUME NEW c \in Campaign \cup {None}, PickCampaign(c) PROVE IInv'
  <2> PICK q : q = [page EXCEPT !.saving = TRUE]
    OBVIOUS
  <2> PICK m : m = Request("pick", None, c)
    OBVIOUS
  <2>1. Shown /\ ~page.saving /\ Event /\ page' = q /\ Send(m) /\ UNCHANGED server
    BY <1>4 DEF PickCampaign, Account
  <2>2. m \in Message /\ Proper(m) /\ m.kind = "pick" /\ m.answer = None
    BY RequestGood DEF Kind, OneRow
  <2>3. /\ q \in Page /\ q.view = page.view /\ q.filter = page.filter /\ q.error = page.error
        /\ q.entries = page.entries /\ q.users = page.users /\ q.sending = page.sending
        /\ q.syncing = page.syncing /\ q.creating = page.creating /\ q.saving
        /\ q.promoting = page.promoting /\ q.dialog = page.dialog /\ q.named = page.named
    BY Now DEF Page
  <2> QED BY <2>1, <2>2, <2>3, EventGood, AccountAsk
<1> QED BY <1>1, <1>2, <1>3, <1>4

LEMMA EditCampaignStep ==
    ASSUME IInv, EditCampaign \/ StopEditing
    PROVE  IInv'
<1>1. Shown /\ UNCHANGED server
      /\ \/ UNCHANGED <<net, events, crossed>>
         \/ Event /\ Send(Campaigns)
  BY DEF EditCampaign, StopEditing, Account
<1>2. PICK q \in Page :
         /\ page' = q /\ q.view = page.view /\ q.filter = page.filter /\ q.error = page.error
         /\ q.entries = page.entries /\ q.users = page.users /\ SameButtons(page, q)
         /\ q.promoting = page.promoting /\ q.dialog = page.dialog /\ q.named = page.named
  <2> PICK b, c : page' = [page EXCEPT !.picking = b, !.campaigns = c]
                  /\ b \in BOOLEAN /\ c \in {page.campaigns, None}
    <3>1. \/ page' = [page EXCEPT !.picking = TRUE]
          \/ page' = [page EXCEPT !.picking = FALSE]
          \/ page' = [page EXCEPT !.campaigns = None]
      BY DEF EditCampaign, StopEditing
    <3>2. /\ [page EXCEPT !.picking = TRUE] = [page EXCEPT !.picking = TRUE, !.campaigns = @]
          /\ [page EXCEPT !.picking = FALSE] = [page EXCEPT !.picking = FALSE, !.campaigns = @]
          /\ [page EXCEPT !.campaigns = None]
               = [page EXCEPT !.picking = page.picking, !.campaigns = None]
          /\ page.picking \in BOOLEAN
      BY Now DEF Page
    <3> QED BY <3>1, <3>2
  <2> PICK q : q = [page EXCEPT !.picking = b, !.campaigns = c]
    OBVIOUS
  <2>1. /\ q \in Page /\ q.view = page.view /\ q.filter = page.filter /\ q.error = page.error
        /\ q.entries = page.entries /\ q.users = page.users /\ SameButtons(page, q)
        /\ q.promoting = page.promoting /\ q.dialog = page.dialog /\ q.named = page.named
    BY Now DEF Page, SameButtons
  <2>2. page' = q
    OBVIOUS
  <2> QED BY <2>1, <2>2
<1>3. CASE UNCHANGED <<net, events, crossed>>
  <2>1. DialogGood'
    BY <1>1, <1>2, <1>3, DialogKept DEF server
  <2> QED BY <1>1, <1>2, <1>3, <2>1, Now, PageStep DEF ServerGood
<1>4. CASE Event /\ Send(Campaigns)
  <2>1. Campaigns \in Message /\ Proper(Campaigns) /\ Campaigns.kind = "campaigns"
        /\ Campaigns.answer = None
    BY RequestGood DEF Campaigns, Kind, OneRow
  <2> QED BY <1>1, <1>2, <1>4, <2>1, EventGood, AccountAsk DEF SameButtons
<1> QED BY <1>1, <1>3, <1>4

LEMMA OpenAccountsStep ==
    ASSUME IInv, OpenAccounts
    PROVE  IInv'
<1> DEFINE S == {Users, Campaigns}
<1>1. /\ net' = net (+) SetToBag(S) /\ Event /\ UNCHANGED <<page, server, crossed>>
  BY DEF OpenAccounts
<1>2. /\ S \in SUBSET Message
      /\ \A m \in S : Proper(m) /\ m.kind \in {"users", "campaigns"}
  BY RequestGood DEF Users, Campaigns, Kind, OneRow
<1> HIDE DEF S
<1>3. /\ BagToSet(net') = BagToSet(net) \cup S
      /\ \A x \in BagToSet(net) \ S : net'[x] = net[x]
  BY <1>1, Now, PlusBag
<1>4. Types'
  BY <1>1, <1>2, Now, EventGood, QueuePlus DEF Types, ServerGood, server
<1>5. Flags'
  <2>1. Buttons(page, net') /\ \A k : InFlight(k, net) \subseteq InFlight(k, net')
    BY <1>1, <1>2, Now, MoreFlags
  <2>2. Coming(page, net')
    BY <2>1, Now DEF Coming
  <2> QED BY <1>1, <2>1, <2>2 DEF Flags
<1>6. RowsGood'
  <2> SUFFICES ASSUME NEW r \in Row \ crossed PROVE RowGood(r)'
    BY <1>1 DEF RowsGood
  <2>1. SameRow(r)
    BY <1>1 DEF SameRow, View, Matches, server
  <2>2. \A m \in S : r \notin About(m)
    BY <1>2 DEF About
  <2>3. Pend(r, net') = Pend(r, net) /\ \A m \in Pend(r, net) : net'[m] = net[m]
    BY <1>3, <2>2 DEF Pend
  <2> QED BY <1>1, <2>1, <2>3, RowFrame
<1>7. DialogGood'
  BY <1>1, <1>2, <1>3, DialogKept DEF server
<1> QED BY <1>4, <1>5, <1>6, <1>7 DEF IInv

-----------------------------------------------------------------------------
(* The server.                                                             *)

LEMMA ServerSame ==
    ASSUME UNCHANGED server
    PROVE  \A r \in Row : SameRow(r)
  BY DEF SameRow, View, Matches, server

LEMMA ServeReadStep ==
    ASSUME IInv, NEW m \in BagToSet(net), ServeRead(m)
    PROVE  IInv'
<1>1. /\ m \in Message /\ Proper(m) /\ m.answer = None /\ page.filter \in Filter
      /\ m.kind \in {"rows", "users", "campaigns"} /\ UNCHANGED <<page, server, events, crossed>>
  BY Now DEF ServeRead, Due, Page
<1>2. PICK a : /\ Answer(m, a)
               /\ a = CASE m.kind = "rows" -> [Ok(m) EXCEPT !.list = Matching(m.value)]
                        [] m.kind = "users" -> [Ok(m) EXCEPT !.user = user]
                        [] m.kind = "campaigns" -> Ok(m)
  BY DEF ServeRead
<1>3. Matching(m.value) \in List
  BY Views DEF Matching, List
<1>4. user \in User \cup {Gone} /\ user # None
  BY Now, NoneAssumption DEF ServerGood
<1>5. /\ a.kind = m.kind /\ a.row = m.row /\ a.value = m.value /\ a.answer = "ok"
      /\ a \in Message
  <2>1. CASE m.kind = "rows"
    BY <1>1, <1>2, <1>3, <2>1 DEF Ok, Message
  <2>2. CASE m.kind = "users"
    BY <1>1, <1>2, <1>4, <2>2 DEF Ok, Message
  <2>3. CASE m.kind = "campaigns"
    BY <1>1, <1>2, <2>3 DEF Ok, Message
  <2> QED BY <1>1, <2>1, <2>2, <2>3
<1>6. /\ m.kind = "rows" => a.list = Matching(m.value)
      /\ m.kind = "users" => a.user = user /\ a.list = m.list
      /\ m.kind = "campaigns" => a.list = m.list
  <2>1. CASE m.kind = "rows"
    BY <1>1, <1>2, <2>1 DEF Ok, Message
  <2>2. CASE m.kind = "users"
    BY <1>1, <1>2, <2>2 DEF Ok, Message
  <2>3. CASE m.kind = "campaigns"
    BY <1>1, <1>2, <2>3 DEF Ok, Message
  <2> QED BY <1>1, <2>1, <2>2, <2>3
<1>7. Proper(a)
  BY <1>1, <1>4, <1>5, <1>6 DEF Proper, OneRow
<1>8. ASSUME NEW r \in Row \ crossed'
      PROVE  IF r \in About(m) THEN AnswerGood(m, a, r) ELSE SameRow(r)
  <2>1. SameRow(r)
    BY <1>1, ServerSame
  <2>2. ASSUME r \in About(m) PROVE AnswerGood(m, a, r)
    <3>1. m.kind = "rows"
      BY <1>1, <2>2 DEF About
    <3>2. m.value = page.filter
      BY <1>1, <2>2, <3>1, Now DEF RowGood, ListComes, Pend
    <3>3. Listing(a.list, r)
      BY <1>6, <3>1, <3>2 DEF Listing, Matching
    <3> QED BY <1>1, <1>5, <2>1, <3>1, <3>3 DEF AnswerGood, OneRow
  <2> QED BY <2>1, <2>2
<1>9. a # m /\ a.answer # None
  BY <1>1, <1>5, NoneAssumption
<1>10. ServerGood'
  BY <1>1, Now DEF ServerGood, server
<1> QED BY <1>1, <1>2, <1>5, <1>7, <1>8, <1>9, <1>10, AnswerStep DEF server

\* A row after its promotion is a row with the same verdict.
LEMMA StudioEntry ==
    ASSUME IInv, user # Gone, NEW e \in Entry, NEW took
    PROVE  LET x == Studio([e EXCEPT !.promoted = TRUE], took) IN
           x \in Entry /\ x.verdict = e.verdict
<1> PICK f : f = [e EXCEPT !.promoted = TRUE]
  OBVIOUS
<1>1. f \in Entry /\ f.verdict = e.verdict
  BY DEF Entry
<1>2. user.campaign \in Campaign \cup {None}
  BY Now DEF ServerGood, User
<1>3. Studio(f, took) \in Entry /\ Studio(f, took).verdict = f.verdict
  <2>1. CASE f.sent # None \/ user.campaign = None
    BY <1>1, <2>1 DEF Studio
  <2>2. CASE ~(f.sent # None \/ user.campaign = None) /\ took
    BY <1>1, <1>2, <2>2 DEF Studio, Entry
  <2>3. CASE ~(f.sent # None \/ user.campaign = None) /\ ~took
    BY <1>1, <1>2, <2>3 DEF Studio, Entry
  <2> QED BY <2>1, <2>2, <2>3
<1> QED BY <1>1, <1>3

LEMMA ServeRowStep ==
    ASSUME IInv, NEW m \in BagToSet(net), ServeRow(m)
    PROVE  IInv'
<1>1. /\ m \in Message /\ Proper(m) /\ m.answer = None /\ m.row \in Row
      /\ m.kind \in {"review", "promote", "send"} /\ UNCHANGED <<page, user, session, crossed>>
      /\ rows[m.row] \in Entry
  BY Now DEF ServeRow, Due, Proper, OneRow, ServerGood
<1>2. user # Gone /\ user \in User
  BY <1>1, Views DEF ServeRow
<1>3. PICK new \in Entry :
         /\ rows' = [rows EXCEPT ![m.row] = new]
         /\ Answer(m, [Ok(m) EXCEPT !.list[m.row] = [entry |-> new, campaign |-> user.campaign]])
         /\ m.kind # "review" => new.verdict = rows[m.row].verdict
  <2>1. CASE m.kind = "review"
    <3>1. (IF m.value = None THEN rows[m.row] ELSE [rows[m.row] EXCEPT !.verdict = m.value])
             \in Entry
      BY <1>1, <2>1 DEF Proper, Entry
    <3> QED BY <2>1, <3>1 DEF ServeRow
  <2>2. CASE m.kind # "review"
    <3>1. \A took \in BOOLEAN :
             LET x == Studio([rows[m.row] EXCEPT !.promoted = TRUE], took) IN
             x \in Entry /\ x.verdict = rows[m.row].verdict
      BY <1>1, <1>2, StudioEntry
    <3> QED BY <2>2, <3>1 DEF ServeRow
  <2> QED BY <2>1, <2>2
<1>4. events' \in 0 .. MaxEvents
  <2>1. UNCHANGED events \/ Event
    BY DEF ServeRow
  <2> QED BY <2>1, Now, EventGood DEF ServerGood
<1> DEFINE listed == [entry |-> new, campaign |-> user.campaign]
<1>5. listed \in ListRow /\ listed # None
  BY <1>2, NoneAssumption DEF ListRow, User
<1> HIDE DEF listed
<1>6. PICK a : Answer(m, a) /\ a = [Ok(m) EXCEPT !.list[m.row] = listed]
  BY <1>3 DEF listed
<1>7. /\ a.kind = m.kind /\ a.row = m.row /\ a.value = m.value /\ a.answer = "ok"
      /\ a \in Message /\ a.list = [m.list EXCEPT ![m.row] = listed]
  BY <1>1, <1>5, <1>6 DEF Ok, Message, List
<1>8. Proper(a)
  <2>1. \A r \in Row : a.list[r] # None => r = m.row
    BY <1>1, <1>7 DEF Proper, Message, List
  <2> QED BY <1>1, <1>7, <2>1 DEF Proper
<1>9. ServerGood'
  BY <1>1, <1>2, <1>3, <1>4, Now DEF ServerGood
<1>10. ASSUME NEW r \in Row \ crossed'
       PROVE  IF r \in About(m) THEN AnswerGood(m, a, r) ELSE SameRow(r)
  <2>1. r \in About(m) <=> r = m.row
    BY <1>1 DEF About
  <2>2. CASE r # m.row
    <3>1. rows'[r] = rows[r]
      BY <1>3, <2>2, Now DEF ServerGood
    <3> QED BY <1>1, <2>1, <2>2, <3>1 DEF SameRow, View, Matches
  <2>3. CASE r = m.row
    <3>1. rows'[r] = new /\ new # None /\ rows[r] # None
      BY <1>1, <1>3, <2>3, Now, NoneAssumption DEF ServerGood
    <3>2. View(r)' = listed
      BY <1>1, <3>1 DEF View, listed
    <3>3. a.list[r] = listed
      BY <1>1, <1>7, <2>3 DEF Message, List
    <3>4. m.kind # "review" => \A f \in Filter : Matches(r, f)' <=> Matches(r, f)
      BY <1>3, <2>3, <3>1 DEF Matches
    <3> QED BY <1>1, <1>5, <1>7, <2>1, <2>3, <3>2, <3>3, <3>4 DEF AnswerGood
  <2> QED BY <2>2, <2>3
<1>11. a # m /\ a.answer # None
  BY <1>1, <1>7, NoneAssumption
<1> QED BY <1>1, <1>6, <1>7, <1>8, <1>9, <1>10, <1>11, AnswerStep

\* The answer without anything from the sheet.
LEMMA PlainAnswer ==
    ASSUME NEW m \in Message, Proper(m), NEW s \in {"ok", "error", "401"}, m.answer # s,
           s = "ok" => m.kind # "users"
    PROVE  LET a == [m EXCEPT !.answer = s] IN
           /\ a \in Message /\ Proper(a) /\ a.kind = m.kind /\ a.row = m.row /\ a.value = m.value
           /\ a.answer = s /\ a # m /\ a.answer # None
<1> PICK a : a = [m EXCEPT !.answer = s]
  OBVIOUS
<1>1. /\ a \in Message /\ a.kind = m.kind /\ a.row = m.row /\ a.value = m.value
      /\ a.answer = s /\ a.list = m.list /\ a.user = m.user
  BY DEF Message
<1>2. Proper(a)
  BY <1>1 DEF Proper
<1> QED BY <1>1, <1>2, NoneAssumption

LEMMA ServeAccountStep ==
    ASSUME IInv, NEW m \in BagToSet(net), ServeAccount(m)
    PROVE  IInv'
<1>1. /\ m \in Message /\ Proper(m) /\ m.answer = None
      /\ m.kind \in {"pick", "active", "remove", "create", "sync"}
      /\ m.kind \in {"pick", "active", "remove"} => user \in User
      /\ Answer(m, Ok(m)) /\ UNCHANGED <<page, session, events, crossed>>
  BY Now DEF ServeAccount, Due, ServerGood
<1> PICK a : a = Ok(m)
  OBVIOUS
<1>2. /\ a \in Message /\ Proper(a) /\ a.kind = m.kind /\ a.row = m.row /\ a.value = m.value
      /\ a.answer = "ok" /\ a # m /\ a.answer # None
  BY <1>1, PlainAnswer, NoneAssumption DEF Ok
<1>3. ServerGood'
  <2>1. CASE m.kind = "pick"
    <3>1. rows' = rows /\ user' = [user EXCEPT !.campaign = m.value]
      BY <2>1 DEF ServeAccount
    <3>2. user' \in User
      BY <1>1, <2>1, <3>1 DEF User, Proper
    <3> QED BY <1>1, <3>1, <3>2, Now, NoneAssumption DEF ServerGood
  <2>2. CASE m.kind = "active"
    <3>1. rows' = rows /\ user' = [user EXCEPT !.active = m.value]
      BY <2>2 DEF ServeAccount
    <3>2. user' \in User
      BY <1>1, <2>2, <3>1 DEF User, Proper
    <3> QED BY <1>1, <3>1, <3>2, Now, NoneAssumption DEF ServerGood
  <2>3. CASE m.kind = "remove"
    <3>1. rows' = Nothing /\ user' = Gone
      BY <2>3 DEF ServeAccount
    <3>2. Nothing \in [Row -> Entry \cup {None}]
      BY DEF Nothing
    <3> QED BY <1>1, <3>1, <3>2, Now DEF ServerGood
  <2>4. CASE m.kind = "create"
    <3>1. rows' = rows /\ user' = user
      BY <2>4 DEF ServeAccount
    <3> QED BY <1>1, <3>1, Now DEF ServerGood
  <2>5. CASE m.kind = "sync"
    <3>1. /\ user' = user
          /\ \/ rows' = rows
             \/ user # Gone /\ \E r \in Row : rows' = [rows EXCEPT ![r] = NewEntry]
      BY <2>5 DEF ServeAccount
    <3>2. NewEntry \in Entry
      BY DEF NewEntry, Entry, Verdict
    <3> QED BY <1>1, <3>1, <3>2, Now DEF ServerGood
  <2> QED BY <1>1, <2>1, <2>2, <2>3, <2>4, <2>5
<1>4. \/ user' = user
      \/ user # Gone /\ user' # Gone /\ user'.campaign = user.campaign
      \/ m.kind \in {"pick", "remove"}
  <2>1. CASE m.kind = "active"
    <3>1. user' = [user EXCEPT !.active = m.value]
      BY <2>1 DEF ServeAccount
    <3>2. user' \in User /\ user'.campaign = user.campaign
      BY <1>1, <2>1, <3>1 DEF User, Proper
    <3> QED BY <1>1, <2>1, <3>2, NoneAssumption
  <2>2. CASE m.kind \in {"create", "sync"}
    BY <2>2 DEF ServeAccount
  <2> QED BY <1>1, <2>1, <2>2
<1>5. \/ user' = user
      \/ user # Gone /\ user' # Gone /\ user'.campaign = user.campaign
      \/ page.dialog \in crossed' \cup {None}
  <2> SUFFICES ASSUME m.kind \in {"pick", "remove"}, page.dialog # None, page.dialog \notin crossed
               PROVE  FALSE
    BY <1>1, <1>4
  <2>1. m \in Pend(page.dialog, net)
    BY Now DEF Pend, About, Page
  <2> QED BY <2>1 DEF IInv, DialogGood
<1>6. ASSUME NEW r \in Row \ crossed'
      PROVE  IF r \in About(m) THEN AnswerGood(m, a, r) ELSE SameRow(r)
  <2>1. CASE m.kind \in {"pick", "remove", "sync"}
    BY <1>1, <1>2, <2>1 DEF About, AnswerGood, OneRow
  <2>2. CASE m.kind \in {"active", "create"}
    <3>1. rows' = rows /\ user'.campaign = user.campaign
      <4>1. CASE m.kind = "active"
        <5>1. rows' = rows /\ user' = [user EXCEPT !.active = m.value]
          BY <4>1 DEF ServeAccount
        <5> QED BY <1>1, <4>1, <5>1 DEF User
      <4>2. CASE m.kind = "create"
        BY <4>2 DEF ServeAccount
      <4> QED BY <2>2, <4>1, <4>2
    <3> QED BY <2>2, <3>1 DEF About, SameRow, View, Matches
  <2> QED BY <1>1, <2>1, <2>2
<1>7. crossed \subseteq crossed'
  BY <1>1
<1> QED BY <1>1, <1>2, <1>3, <1>5, <1>6, <1>7, AnswerStep

LEMMA RefuseStep ==
    ASSUME IInv, NEW m \in BagToSet(net), Refuse(m) \/ Fail(m)
    PROVE  IInv'
<1>1. /\ m \in Message /\ Proper(m) /\ UNCHANGED <<page, server>>
      /\ m.answer \in {None, "ok"} /\ crossed \subseteq crossed' /\ crossed' \subseteq Row
      /\ m.answer = "ok" => About(m) \subseteq crossed'
  <2>1. m \in Message /\ Proper(m) /\ About(m) \subseteq Row /\ crossed \subseteq Row
    BY Now, AboutRows DEF ServerGood
  <2>2. CASE Refuse(m)
    BY <2>1, <2>2, NoneAssumption DEF Refuse, Due
  <2>3. CASE Fail(m)
    BY <2>1, <2>3 DEF Fail, Cross
  <2> QED BY <2>2, <2>3
<1>2. events' \in 0 .. MaxEvents
  BY Now, EventGood DEF Refuse, Fail, ServerGood
<1>3. PICK s \in {"error", "401"} : Answer(m, [m EXCEPT !.answer = s])
  BY DEF Refuse, Fail
<1>4. m.answer # s
  BY <1>1, NoneAssumption
<1> PICK a : a = [m EXCEPT !.answer = s]
  OBVIOUS
<1>5. /\ a \in Message /\ Proper(a) /\ a.kind = m.kind /\ a.row = m.row /\ a.value = m.value
      /\ a.answer = s /\ a # m /\ a.answer # None
  <2>1. s \in {"ok", "error", "401"} /\ s # "ok"
    BY <1>3
  <2> QED BY <1>1, <1>4, <2>1, PlainAnswer
<1>6. ServerGood'
  BY <1>1, <1>2, Now DEF ServerGood, server
<1>7. ASSUME NEW r \in Row \ crossed'
      PROVE  IF r \in About(m) THEN AnswerGood(m, a, r) ELSE SameRow(r)
  BY <1>1, <1>5, ServerSame DEF AnswerGood
<1>8. user' = user
  BY <1>1 DEF server
<1> QED BY <1>1, <1>3, <1>5, <1>6, <1>7, <1>8, AnswerStep

\* Somebody else's change crosses the rows it is about.
LEMMA ElsewhereStep ==
    ASSUME IInv, Elsewhere \/ Expire
    PROVE  IInv'
<1>1. /\ UNCHANGED <<page, net>> /\ events' \in 0 .. MaxEvents
      /\ crossed \subseteq crossed' /\ crossed' \subseteq Row /\ session' \in BOOLEAN
  BY Now, EventGood DEF Elsewhere, Expire, Cross, ServerGood
<1>2. ServerGood'
  <2>1. CASE Expire
    BY <1>1, <2>1, Now DEF Expire, ServerGood
  <2>2. CASE UNCHANGED user /\ \E r \in Row : rows' = [rows EXCEPT ![r] = None]
    BY <1>1, <2>2, Now DEF ServerGood, Nothing
  <2>3. ASSUME NEW c \in Campaign, user # Gone, user' = [user EXCEPT !.campaign = c], rows' = rows
        PROVE  ServerGood'
    <3>1. user' \in User
      BY <2>3, Now DEF ServerGood, User
    <3> QED BY <1>1, <2>3, <3>1, Now, NoneAssumption DEF ServerGood
  <2> QED BY <2>1, <2>2, <2>3 DEF Elsewhere
<1>3. \A r \in Row \ crossed' : SameRow(r)
  <2> SUFFICES ASSUME NEW r \in Row \ crossed' PROVE SameRow(r)
    OBVIOUS
  <2>1. rows'[r] = rows[r] /\ user' = user
    BY Now DEF Elsewhere, Expire, Cross, ServerGood
  <2> QED BY <2>1 DEF SameRow, View, Matches
<1>4. RowsGood'
  <2> SUFFICES ASSUME NEW r \in Row \ crossed' PROVE RowGood(r)'
    BY DEF RowsGood
  <2> QED BY <1>1, <1>3, RowFrame
<1>5. DialogGood'
  <2>1. \/ user' = user
        \/ page.dialog \in crossed' \cup {None}
    BY Now DEF Elsewhere, Expire, Cross, Page
  <2> QED BY <1>1, <2>1, DialogKept
<1> QED BY <1>1, <1>2, <1>4, <1>5, Now DEF IInv, Types, Flags

-----------------------------------------------------------------------------
(* The answers.                                                            *)

\* The page p after page, but for the flags and the dialog: one button does not wait any more.
Released(p, m) ==
    /\ p.view = page.view /\ p.filter = page.filter /\ p.error = page.error
    /\ p.sending = IF m.kind = "send" THEN None ELSE page.sending
    /\ IF m.kind = "sync" THEN ~p.syncing ELSE p.syncing = page.syncing
    /\ IF m.kind = "create" THEN ~p.creating ELSE p.creating = page.creating
    /\ IF m.kind = "pick" THEN ~p.saving ELSE p.saving = page.saving
    /\ m.kind # "promote" => p.promoting = page.promoting

LEMMA RestSet ==
    ASSUME IInv, NEW m \in BagToSet(net)
    PROVE  QueueGood(Rest(m)) /\ BagToSet(Rest(m)) \subseteq BagToSet(net)
  BY Now, QueueRest, RemoveBag DEF Rest

LEMMA DialogHandled ==
    ASSUME IInv, NEW m \in BagToSet(net), net' = Rest(m), UNCHANGED <<server, crossed>>,
           page'.dialog = page.dialog, page'.named = page.named
    PROVE  DialogGood'
<1>1. BagToSet(net') \subseteq BagToSet(net) /\ user' = user
  BY RestSet DEF server
<1> QED BY <1>1, DialogKept

LEMMA HandleBy ==
    ASSUME NEW m, NEW ok, NEW error, NEW refused, Handle(m, ok, error, refused)
    PROVE  /\ net' = Rest(m) /\ UNCHANGED <<server, events, crossed>>
           /\ m.answer = "ok" => page' = ok
           /\ m.answer = "error" => page' = error
           /\ m.answer = "401" => page' = SignedOut(refused)
  BY DEF Handle

LEMMA OutOf ==
    ASSUME NEW p \in Page
    PROVE  LET q == SignedOut(p) IN
           /\ q \in Page /\ q.view = "login" /\ q.filter = p.filter /\ q.error = p.error
           /\ q.entries = p.entries /\ q.users = p.users /\ q.sending = p.sending
           /\ q.syncing = p.syncing /\ q.creating = p.creating /\ q.saving = p.saving
           /\ q.promoting = p.promoting /\ q.dialog = p.dialog /\ q.named = p.named
  BY DEF SignedOut, Page

\* What the page shows of a row whose request was in vain.
LEMMA InVain ==
    ASSUME IInv, NEW m \in BagToSet(net), m.kind # "rows", m.answer # "ok",
           NEW r \in About(m) \ crossed
    PROVE  /\ page.error => page.entries # None /\ page.entries[r] = None
           /\ page.view = "app" /\ ~page.error /\ page.entries # None => Listing(page.entries, r)
<1>1. r \in Row /\ RowGood(r)
  BY Now, AboutRows
<1>2. Pend(r, net) = {m}
  BY <1>1 DEF RowGood, OneEach, Pend
<1> QED BY <1>1, <1>2 DEF RowGood, ErrorEmpty, ShowsRow

LEMMA FailedStep ==
    ASSUME IInv, NEW m \in BagToSet(net), m.kind # "rows", m.answer \in {"error", "401"},
           NEW p \in Page, page' = IF m.answer = "401" THEN SignedOut(p) ELSE p,
           net' = Rest(m), UNCHANGED <<server, events, crossed>>, Released(p, m),
           p.entries = page.entries, IF m.kind = "users" THEN p.users # None ELSE p.users = page.users,
           p.dialog = page.dialog, p.named = page.named
    PROVE  IInv'
<1> PICK q : q = IF m.answer = "401" THEN SignedOut(p) ELSE p
  OBVIOUS
<1>1. /\ q \in Page /\ page' = q /\ q.view \in {p.view, "login"} /\ q.filter = p.filter
      /\ q.error = p.error /\ q.entries = p.entries /\ q.users = p.users
      /\ q.sending = p.sending /\ q.syncing = p.syncing /\ q.creating = p.creating
      /\ q.saving = p.saving /\ q.promoting = p.promoting
      /\ q.dialog = p.dialog /\ q.named = p.named
  BY OutOf
<1>2. DialogGood'
  BY <1>1, DialogHandled
<1>3. \A r \in About(m) \ crossed :
         /\ q.error => q.entries # None /\ q.entries[r] = None
         /\ q.view = "app" /\ ~q.error /\ q.entries # None => Listing(q.entries, r)
  BY <1>1, InVain DEF Released
<1> QED BY <1>1, <1>2, <1>3, HandleStep DEF Released

\* The accounts or the campaigns have come, or not.
LEMMA LoadedStep ==
    ASSUME IInv, NEW m \in BagToSet(net), m.kind \in {"users", "campaigns"},
           m.answer \in {"ok", "error", "401"}, NEW ok \in Page, NEW p \in Page,
           Handle(m, ok, p, p), Released(ok, m), Released(p, m),
           ok.entries = page.entries, p.entries = page.entries,
           ok.dialog = page.dialog, ok.named = page.named,
           p.dialog = page.dialog, p.named = page.named,
           m.answer = "ok" => IF m.kind = "users" THEN ok.users # None ELSE ok.users = page.users,
           IF m.kind = "users" THEN p.users # None ELSE p.users = page.users
    PROVE  IInv'
<1>1. CASE m.answer = "ok"
  <2>1. page' = ok /\ net' = Rest(m) /\ UNCHANGED <<server, events, crossed>>
    BY <1>1, HandleBy
  <2>2. DialogGood'
    BY <2>1, DialogHandled
  <2>3. About(m) = {}
    BY DEF About
  <2> QED BY <1>1, <2>1, <2>2, <2>3, HandleStep DEF Released
<1>2. CASE m.answer # "ok"
  <2>1. /\ page' = IF m.answer = "401" THEN SignedOut(p) ELSE p
        /\ net' = Rest(m) /\ UNCHANGED <<server, events, crossed>>
    BY <1>2, HandleBy
  <2>2. m.answer \in {"error", "401"} /\ m.kind # "rows"
    BY <1>2
  <2> QED BY <2>1, <2>2, FailedStep
<1> QED BY <1>1, <1>2

LEMMA LoadAnswerStep ==
    ASSUME IInv, NEW m \in BagToSet(net), LoadAnswer(m)
    PROVE  IInv'
<1>1. m \in Message /\ Proper(m) /\ page \in Page
  BY Now
<1>2. CASE m.kind = "rows"
  <2>1. m.answer \in {"ok", "error", "401"}
        /\ Handle(m, [page EXCEPT !.entries = m.list],
                    [page EXCEPT !.entries = Nothing, !.error = TRUE], page)
    BY <1>1, <1>2 DEF LoadAnswer, Answered, Message
  <2>2. PICK q : /\ page' = q
                 /\ m.answer = "ok" => q = [page EXCEPT !.entries = m.list]
                 /\ m.answer = "error" => q = [page EXCEPT !.entries = Nothing, !.error = TRUE]
                 /\ m.answer = "401" => q = SignedOut(page)
    BY <2>1, HandleBy
  <2>3. net' = Rest(m) /\ UNCHANGED <<server, events, crossed>>
    BY <2>1, HandleBy
  <2>4. Nothing \in List /\ (\A r \in Row : Nothing[r] = None) /\ m.list \in List
    BY <1>1 DEF Nothing, List, Message
  <2>5. /\ q \in Page /\ q.filter = page.filter /\ q.view \in {page.view, "login"}
        /\ Released([q EXCEPT !.view = page.view, !.error = page.error], m)
        /\ q.sending = page.sending /\ q.syncing = page.syncing /\ q.creating = page.creating
        /\ q.saving = page.saving /\ q.promoting = page.promoting /\ q.users = page.users
        /\ q.dialog = page.dialog /\ q.named = page.named
        /\ m.answer = "ok" => q.entries = m.list /\ q.error = page.error
        /\ m.answer = "error" => q.entries = Nothing /\ q.error
        /\ m.answer = "401" => q.view = "login" /\ q.error = page.error
    <3>1. CASE m.answer = "ok"
      BY <1>1, <1>2, <2>2, <2>4, <3>1 DEF Page, Released
    <3>2. CASE m.answer = "error"
      BY <1>1, <1>2, <2>2, <2>4, <3>2 DEF Page, Released
    <3>3. CASE m.answer = "401"
      BY <1>1, <1>2, <2>2, <3>3 DEF Page, Released, SignedOut
    <3> QED BY <2>1, <3>1, <3>2, <3>3
  <2>6. DialogGood'
    BY <2>2, <2>3, <2>5, DialogHandled
  <2>7. About(m) = Row
    BY <1>2 DEF About
  <2>8. ASSUME NEW r \in Row \ crossed
        PROVE  /\ q.error => q.entries # None /\ q.entries[r] = None
               /\ q.view = "app" /\ ~q.error /\ q.entries # None => Listing(q.entries, r)
    <3>1. m \in Pend(r, net) /\ RowGood(r)
      BY <2>7, Now DEF Pend
    <3>2. ~page.error /\ (m.answer = "ok" => Listing(m.list, r))
      BY <1>2, <3>1 DEF RowGood, ListComes
    <3> QED BY <2>1, <2>4, <2>5, <3>2, NoneAssumption
  <2>9. q.view = "app" => q.entries # None
    BY <2>1, <2>4, <2>5, NoneAssumption
  <2> QED BY <1>2, <2>2, <2>3, <2>5, <2>6, <2>7, <2>8, <2>9, Now, HandleStep, Zenon DEF Coming
<1>3. CASE m.kind = "users"
  <2> PICK none : none = [page EXCEPT !.users = Gone]
    OBVIOUS
  <2> PICK ok : ok = [page EXCEPT !.users = m.user]
    OBVIOUS
  <2>1. m.answer \in {"ok", "error", "401"} /\ Handle(m, ok, none, none)
    BY <1>1, <1>3 DEF LoadAnswer, Answered, Message
  <2>2. /\ ok \in Page /\ none \in Page /\ none.users # None
        /\ m.answer = "ok" => ok.users # None
    BY <1>1, <1>3, NoneAssumption DEF Page, Message, Proper
  <2>3. /\ Released(ok, m) /\ ok.entries = page.entries
        /\ ok.dialog = page.dialog /\ ok.named = page.named
    BY <1>1, <1>3 DEF Page, Released
  <2>4. /\ Released(none, m) /\ none.entries = page.entries
        /\ none.dialog = page.dialog /\ none.named = page.named
    BY <1>1, <1>3 DEF Page, Released
  <2> QED BY <1>3, <2>1, <2>2, <2>3, <2>4, LoadedStep
<1>4. CASE m.kind = "campaigns"
  <2> PICK broken : broken = [page EXCEPT !.campaigns = "error"]
    OBVIOUS
  <2> PICK ok : ok = [page EXCEPT !.campaigns = "ok"]
    OBVIOUS
  <2>1. m.answer \in {"ok", "error", "401"} /\ Handle(m, ok, broken, broken)
    BY <1>1, <1>4 DEF LoadAnswer, Answered, Message
  <2>2. ok \in Page /\ broken \in Page
    BY <1>1 DEF Page
  <2>3. /\ Released(ok, m) /\ ok.entries = page.entries /\ ok.users = page.users
        /\ ok.dialog = page.dialog /\ ok.named = page.named
    BY <1>1, <1>4 DEF Page, Released
  <2>4. /\ Released(broken, m) /\ broken.entries = page.entries /\ broken.users = page.users
        /\ broken.dialog = page.dialog /\ broken.named = page.named
    BY <1>1, <1>4 DEF Page, Released
  <2> QED BY <1>4, <2>1, <2>2, <2>3, <2>4, LoadedStep
<1> QED BY <1>2, <1>3, <1>4 DEF LoadAnswer, Answered

LEMMA RefreshedPage ==
    ASSUME NEW p \in Page, NEW m \in Message
    PROVE  LET q == Refreshed(p, m) IN
           /\ q \in Page /\ q.view = p.view /\ q.filter = p.filter /\ q.error = p.error
           /\ q.users = p.users /\ q.sending = p.sending /\ q.syncing = p.syncing
           /\ q.creating = p.creating /\ q.saving = p.saving /\ q.promoting = p.promoting
           /\ q.dialog = p.dialog /\ q.named = p.named /\ q.entries # None
           /\ p.entries # None => \A r \in Row :
                 q.entries[r] = IF p.entries[r] # None /\ m.list[r] # None THEN m.list[r]
                                                                       ELSE p.entries[r]
<1> DEFINE list == [r \in Row |-> IF p.entries[r] # None /\ m.list[r] # None THEN m.list[r]
                                                                        ELSE p.entries[r]]
           new == IF p.entries = None THEN Nothing ELSE list
<1>1. Nothing \in List
  BY DEF Nothing, List
<1>2. p.entries # None => list \in List
  BY DEF Page, Message, List
<1>3. new \in List /\ new # None
  BY <1>1, <1>2, NoneAssumption
<1>4. p.entries # None => \A r \in Row :
         new[r] = IF p.entries[r] # None /\ m.list[r] # None THEN m.list[r] ELSE p.entries[r]
  OBVIOUS
<1>5. Refreshed(p, m) = [p EXCEPT !.entries = new]
  BY DEF Refreshed
<1> HIDE DEF new
<1> QED BY <1>3, <1>4, <1>5 DEF Page

\* A request about one row that succeeded: the page shows what it made of the row.
LEMMA RowRefreshed ==
    ASSUME IInv, NEW m \in BagToSet(net), m.kind \in OneRow, m.answer = "ok",
           NEW p \in Page, Released(p, m), p.entries = page.entries, p.users = page.users,
           page' = Refreshed(p, m), net' = Rest(m), UNCHANGED <<server, events, crossed>>,
           DialogGood'
    PROVE  IInv'
<1> PICK q : q = Refreshed(p, m)
  OBVIOUS
<1>1. /\ m \in Message /\ Proper(m) /\ m.row \in Row /\ About(m) = {m.row}
      /\ m.kind \notin {"rows", "users", "sync", "create", "pick"}
  BY Now DEF Proper, About, OneRow
<1>2. /\ q \in Page /\ q.view = p.view /\ q.filter = p.filter /\ q.error = p.error
      /\ q.users = p.users /\ q.sending = p.sending /\ q.syncing = p.syncing
      /\ q.creating = p.creating /\ q.saving = p.saving /\ q.promoting = p.promoting
      /\ q.dialog = p.dialog /\ q.named = p.named /\ q.entries # None
      /\ p.entries # None => \A r \in Row :
            q.entries[r] = IF p.entries[r] # None /\ m.list[r] # None THEN m.list[r]
                                                                  ELSE p.entries[r]
  BY <1>1, RefreshedPage
<1>3. \A r \in Row \ (crossed \cup About(m)) :
         \/ q.entries = page.entries
         \/ page.entries # None /\ q.entries # None /\ q.entries[r] = page.entries[r]
         \/ page.entries = None /\ q.entries # None
  BY <1>1, <1>2 DEF Proper
<1>4. ASSUME NEW r \in About(m) \ crossed
      PROVE  /\ q.error => q.entries # None /\ q.entries[r] = None
             /\ q.view = "app" /\ ~q.error /\ q.entries # None => Listing(q.entries, r)
  <2>1. r = m.row /\ RowGood(r) /\ m \in Pend(r, net)
    BY <1>1, <1>4, Now DEF Pend
  <2>2. Pend(r, net) = {m}
    BY <2>1 DEF RowGood, OneEach
  <2>3. q.error => page.entries # None /\ page.entries[r] = None
    BY <1>2, <2>1 DEF RowGood, ErrorEmpty, Released
  <2>4. m.list[r] = View(r) /\ m.list[r] # None
    BY <2>1 DEF RowGood, RowComes
  <2>5. ASSUME q.view = "app", ~q.error PROVE Listing(q.entries, r)
    <3>1. page.entries # None
      <4>1. \A n \in InFlight("rows", net) : n \in Pend(r, net)
        BY <1>1, <2>1 DEF InFlight, Pend, About
      <4>2. InFlight("rows", net) = {}
        BY <1>1, <2>2, <4>1 DEF InFlight
      <4> QED BY <1>2, <2>5, <4>2, Now DEF Coming, Released
    <3>2. CASE page.entries[r] = None
      <4>1. ~Matches(r, page.filter)
        BY <1>2, <2>1, <2>5, <3>2 DEF RowGood, LeavesOut, Released
      <4> QED BY <1>1, <1>2, <2>1, <3>1, <3>2, <4>1 DEF Listing
    <3>3. CASE page.entries[r] # None
      <4>1. q.entries[r] = View(r)
        BY <1>1, <1>2, <2>1, <2>4, <3>1, <3>3
      <4> QED BY <4>1 DEF Listing
    <3> QED BY <3>2, <3>3
  <2> QED BY <1>1, <1>2, <2>1, <2>3, <2>5
<1>5. page' = q
  OBVIOUS
<1> QED BY <1>1, <1>2, <1>3, <1>4, <1>5, HandleStep DEF Released

LEMMA RowAnswerStep ==
    ASSUME IInv, NEW m \in BagToSet(net), ReviewAnswer(m) \/ PromoteAnswer(m) \/ SendAnswer(m)
    PROVE  IInv'
<1>1. m \in Message /\ page \in Page /\ m.answer \in {"ok", "error", "401"}
  BY Now DEF ReviewAnswer, PromoteAnswer, SendAnswer, Answered, Message
<1> PICK p : p = CASE m.kind = "review" -> page
                   [] m.kind = "promote" -> [page EXCEPT !.promoting = FALSE]
                   [] m.kind = "send" -> [page EXCEPT !.sending = None]
  OBVIOUS
<1> PICK ok : ok = IF m.kind = "promote"
                   THEN [page EXCEPT !.promoting = FALSE, !.dialog = None, !.named = None] ELSE p
  OBVIOUS
<1>2. /\ m.kind \in {"review", "promote", "send"}
      /\ Handle(m, Refreshed(ok, m), p, IF m.kind = "promote" THEN page ELSE p)
  <2>1. CASE ReviewAnswer(m)
    BY <2>1 DEF ReviewAnswer, Answered
  <2>2. CASE PromoteAnswer(m)
    <3>1. [[page EXCEPT !.promoting = FALSE] EXCEPT !.dialog = None, !.named = None]
             = [page EXCEPT !.promoting = FALSE, !.dialog = None, !.named = None]
      OBVIOUS
    <3> QED BY <2>2, <3>1 DEF PromoteAnswer, Answered
  <2>3. CASE SendAnswer(m)
    BY <2>3 DEF SendAnswer, Answered
  <2> QED BY <2>1, <2>2, <2>3
<1>3. /\ p \in Page /\ Released(p, m) /\ p.entries = page.entries /\ p.users = page.users
      /\ p.dialog = page.dialog /\ p.named = page.named
  <2>1. CASE m.kind = "review"
    BY <1>1, <2>1 DEF Released, Page
  <2>2. CASE m.kind = "promote"
    BY <1>1, <2>2 DEF Released, Page
  <2>3. CASE m.kind = "send"
    BY <1>1, <2>3 DEF Released, Page
  <2> QED BY <1>2, <2>1, <2>2, <2>3
<1>4. /\ ok \in Page /\ Released(ok, m) /\ ok.entries = page.entries /\ ok.users = page.users
      /\ IF m.kind = "promote" THEN ok.dialog = None
                               ELSE ok.dialog = page.dialog /\ ok.named = page.named
  <2>1. CASE m.kind = "promote"
    BY <1>1, <2>1 DEF Released, Page
  <2>2. CASE m.kind # "promote"
    BY <1>3, <2>2
  <2> QED BY <2>1, <2>2
<1>5. net' = Rest(m) /\ UNCHANGED <<server, events, crossed>>
  BY <1>2, HandleBy
<1>6. CASE m.answer = "ok"
  <2>1. page' = Refreshed(ok, m)
    BY <1>2, <1>6, HandleBy
  <2>2. page'.dialog = ok.dialog /\ page'.named = ok.named
    BY <1>1, <1>4, <2>1, RefreshedPage
  <2>3. DialogGood'
    <3>1. CASE m.kind = "promote"
      <4>1. m \in InFlight("promote", net)
        BY <3>1 DEF InFlight
      <4>2. InFlight("promote", net') = {}
        BY <1>5, <3>1, <4>1, Now, RemoveKind DEF Buttons, Rest
      <4> QED BY <1>4, <2>2, <3>1, <4>2 DEF DialogGood
    <3>2. CASE m.kind # "promote"
      BY <1>4, <1>5, <2>2, <3>2, DialogHandled
    <3> QED BY <3>1, <3>2
  <2> QED BY <1>2, <1>4, <1>5, <1>6, <2>1, <2>3, RowRefreshed DEF OneRow
<1>7. CASE m.answer # "ok"
  <2>1. /\ m.answer = "error" => page' = p
        /\ m.answer = "401" => page' = SignedOut(IF m.kind = "promote" THEN page ELSE p)
    BY <1>2, HandleBy
  <2>2. CASE m.kind = "promote" /\ m.answer = "401"
    <3>1. Released(page, m) /\ page' = SignedOut(page)
      BY <2>1, <2>2 DEF Released
    <3> QED BY <1>1, <1>5, <2>2, <3>1, FailedStep
  <2>3. CASE ~(m.kind = "promote" /\ m.answer = "401")
    BY <1>1, <1>2, <1>3, <1>5, <1>7, <2>1, <2>3, FailedStep
  <2> QED BY <2>2, <2>3
<1> QED BY <1>6, <1>7

\* An answer after which the rows are loaded again.
LEMMA ReloadStep ==
    ASSUME IInv, NEW m \in BagToSet(net), NEW p \in Page, Released(p, m), m.kind # "promote",
           p.dialog = page.dialog, p.named = page.named,
           NEW B, B = Rest(m) \/ B = BagAdd(Rest(m), Users),
           LoadScouts(p, B), UNCHANGED <<server, events>>
    PROVE  IInv'
<1>1. QueueGood(Rest(m)) /\ BagToSet(Rest(m)) \subseteq BagToSet(net) /\ IsABag(Rest(m))
  BY RestSet DEF QueueGood
<1>2. Users \in Message /\ Proper(Users) /\ Users.kind = "users"
  BY RequestGood DEF Users, Kind, OneRow
<1>3. QueueGood(B) /\ \A n \in BagToSet(B) : n \in BagToSet(net) \/ n.kind = "users"
  BY <1>1, <1>2, QueueAdd, AddBag
<1>4. Buttons(p, Rest(m))
  BY Now, HandleButtons DEF Rest, Released
<1>5. Buttons(p, BagAdd(Rest(m), Users))
  BY <1>1, <1>2, <1>4, AddButtons
<1>6. DialogGood'
  BY <1>3, LoadsDialog DEF server
<1>7. session' \in BOOLEAN /\ events' \in 0 .. MaxEvents /\ UNCHANGED <<rows, user>>
  BY Now DEF ServerGood, server
<1> QED BY <1>3, <1>4, <1>5, <1>6, <1>7, AllAbout, LoadStep

LEMMA PickAnswerStep ==
    ASSUME IInv, NEW m \in BagToSet(net), PickAnswer(m)
    PROVE  IInv'
<1>1. m.kind = "pick" /\ m \in Message /\ Proper(m) /\ page \in Page
  BY Now DEF PickAnswer, Answered
<1> PICK p : p = [page EXCEPT !.saving = FALSE]
  OBVIOUS
<1>2. /\ p \in Page /\ Released(p, m) /\ p.entries = page.entries /\ p.users = page.users
      /\ p.dialog = page.dialog /\ p.named = page.named
  BY <1>1 DEF Page, Released
<1>3. CASE m.answer = "ok"
  <2> DEFINE u == IF p.users \in {None, Gone} THEN Gone ELSE [p.users EXCEPT !.campaign = m.value]
  <2> PICK q : q = [p EXCEPT !.picking = FALSE, !.users = u]
    OBVIOUS
  <2>1. LoadScouts(q, Rest(m)) /\ UNCHANGED <<server, events>>
    <3>1. Picked([p EXCEPT !.picking = FALSE], m.value) = q
      BY <1>2 DEF Picked, Page
    <3> QED BY <1>3, <3>1 DEF PickAnswer
  <2>2. u \in User \cup {Gone}
    BY <1>1, <1>2 DEF Page, User, Proper
  <2> HIDE DEF u
  <2>3. q \in Page /\ Released(q, m) /\ q.dialog = page.dialog /\ q.named = page.named
    BY <1>1, <1>2, <2>2 DEF Page, Released
  <2> QED BY <1>1, <2>1, <2>3, ReloadStep
<1>4. CASE m.answer # "ok"
  <2>1. Handle(m, page, p, p) /\ m.answer \in {"error", "401"}
    BY <1>1, <1>4 DEF PickAnswer, Answered, Message
  <2>2. /\ net' = Rest(m) /\ UNCHANGED <<server, events, crossed>>
        /\ page' = IF m.answer = "401" THEN SignedOut(p) ELSE p
    BY <2>1, HandleBy
  <2> QED BY <1>1, <1>2, <2>1, <2>2, FailedStep
<1> QED BY <1>3, <1>4

LEMMA SyncAnswerStep ==
    ASSUME IInv, NEW m \in BagToSet(net), SyncAnswer(m)
    PROVE  IInv'
<1>1. m.kind = "sync" /\ m \in Message /\ page \in Page
  BY Now DEF SyncAnswer, Answered
<1> PICK p : p = [page EXCEPT !.syncing = FALSE]
  OBVIOUS
<1>2. /\ p \in Page /\ Released(p, m) /\ p.entries = page.entries /\ p.users = page.users
      /\ p.dialog = page.dialog /\ p.named = page.named
  BY <1>1 DEF Page, Released
<1>3. CASE m.answer = "ok"
  <2>1. LoadScouts(p, Rest(m)) /\ UNCHANGED <<server, events>>
    BY <1>3 DEF SyncAnswer
  <2> QED BY <1>1, <1>2, <2>1, ReloadStep
<1>4. CASE m.answer # "ok"
  <2>1. Handle(m, p, p, p) /\ m.answer \in {"error", "401"}
    BY <1>1, <1>4 DEF SyncAnswer, Answered, Message
  <2>2. /\ net' = Rest(m) /\ UNCHANGED <<server, events, crossed>>
        /\ page' = IF m.answer = "401" THEN SignedOut(p) ELSE p
    BY <2>1, HandleBy
  <2> QED BY <1>1, <1>2, <2>1, <2>2, FailedStep
<1> QED BY <1>3, <1>4

LEMMA AccountAnswerStep ==
    ASSUME IInv, NEW m \in BagToSet(net), AccountAnswer(m)
    PROVE  IInv'
<1>1. m.kind \in {"active", "remove", "create"} /\ m \in Message /\ page \in Page
      /\ m.answer \in {"ok", "error", "401"}
  BY Now DEF AccountAnswer, Answered, Message
<1> PICK p : p = [page EXCEPT !.creating = @ /\ m.kind # "create"]
  OBVIOUS
<1>2. /\ p \in Page /\ Released(p, m) /\ p.entries = page.entries /\ p.users = page.users
      /\ p.dialog = page.dialog /\ p.named = page.named
  <2>1. CASE m.kind = "create"
    <3>1. p = [page EXCEPT !.creating = FALSE]
      BY <2>1
    <3> QED BY <1>1, <2>1, <3>1 DEF Page, Released
  <2>2. CASE m.kind # "create"
    <3>1. (page.creating /\ m.kind # "create") = page.creating
      BY <1>1, <2>2 DEF Page
    <3>2. p = page
      BY <1>1, <3>1 DEF Page
    <3> QED BY <1>1, <2>2, <3>2 DEF Released
  <2> QED BY <2>1, <2>2
<1>3. CASE m.answer = "ok" /\ m.kind = "remove"
  <2>1. LoadScouts(p, BagAdd(Rest(m), Users)) /\ UNCHANGED <<server, events>>
    BY <1>3 DEF AccountAnswer
  <2> QED BY <1>1, <1>2, <1>3, <2>1, ReloadStep
<1>4. CASE m.answer = "ok" /\ m.kind # "remove"
  <2>1. page' = p /\ net' = BagAdd(Rest(m), Users) /\ UNCHANGED <<server, events, crossed>>
    BY <1>4 DEF AccountAnswer
  <2>2. /\ QueueGood(Rest(m)) /\ BagToSet(Rest(m)) \subseteq BagToSet(net) /\ IsABag(Rest(m))
        /\ BagToSet(net) \ {m} \subseteq BagToSet(Rest(m))
        /\ \A x \in BagToSet(Rest(m)) : x # m => Rest(m)[x] = net[x]
    BY Now, RestSet, RemoveBag DEF Rest
  <2>3. Users \in Message /\ Proper(Users) /\ Users.kind = "users"
    BY RequestGood DEF Users, Kind, OneRow
  <2>4. Types'
    BY <1>2, <2>1, <2>2, <2>3, Now, QueueAdd DEF Types, ServerGood, server
  <2>5. Flags'
    <3>1. Buttons(p, Rest(m)) /\ Coming(p, Rest(m))
      BY <1>1, <1>2, Now, HandleButtons, HandleComing DEF Rest, Released
    <3>2. Buttons(p, net')
      BY <2>1, <2>2, <2>3, <3>1, AddButtons
    <3>3. Coming(p, net')
      BY <2>1, <2>2, <3>1, AddKind DEF Coming
    <3> QED BY <2>1, <3>2, <3>3 DEF Flags
  <2>6. BagToSet(net') = BagToSet(Rest(m)) \cup {Users}
        /\ \A x \in BagToSet(Rest(m)) : x # Users => net'[x] = Rest(m)[x]
    BY <2>1, <2>2, AddBag
  <2>7. RowsGood'
    <3> SUFFICES ASSUME NEW r \in Row \ crossed PROVE RowGood(r)'
      BY <2>1 DEF RowsGood
    <3>1. SameRow(r)
      BY <2>1, ServerSame
    <3>2. r \notin About(m) /\ r \notin About(Users)
      BY <1>1, <1>4, <2>3 DEF About
    <3>3. Pend(r, net') = Pend(r, net) /\ \A n \in Pend(r, net) : net'[n] = net[n]
      BY <2>2, <2>6, <3>2 DEF Pend
    <3> QED BY <1>2, <2>1, <3>1, <3>3, RowFrame DEF Released
  <2>8. DialogGood'
    BY <1>2, <2>1, <2>2, <2>3, <2>6, DialogKept DEF server
  <2> QED BY <2>4, <2>5, <2>7, <2>8 DEF IInv
<1>5. CASE m.answer # "ok"
  <2>1. Handle(m, p, p, p) /\ m.answer \in {"error", "401"}
    BY <1>1, <1>5 DEF AccountAnswer
  <2>2. /\ net' = Rest(m) /\ UNCHANGED <<server, events, crossed>>
        /\ page' = IF m.answer = "401" THEN SignedOut(p) ELSE p
    BY <2>1, HandleBy
  <2> QED BY <1>1, <1>2, <2>1, <2>2, FailedStep
<1> QED BY <1>1, <1>3, <1>4, <1>5

-----------------------------------------------------------------------------
(* The invariant.                                                          *)

LEMMA SetBag ==
    ASSUME NEW S
    PROVE  LET C == SetToBag(S) IN IsABag(C) /\ BagToSet(C) = S /\ \A x \in S : C[x] = 1
  BY DEF SetToBag, IsABag, BagToSet

LEMMA InitGood == Init => IInv
<1> SUFFICES ASSUME Init PROVE IInv
  OBVIOUS
<1> DEFINE m == Request("rows", None, page.filter)
<1>1. /\ page.view = "app" /\ page.filter = "any" /\ page.entries = None /\ ~page.error
      /\ page.users = None /\ page.campaigns = None /\ ~page.saving /\ page.dialog = None
      /\ page.sending = None /\ ~page.syncing /\ ~page.creating /\ page \in Page
  BY NoneAssumption DEF Init, Page, Filter
<1>2. net = SetToBag({m, Campaigns, Users})
  <2>1. {m} \cup {Campaigns} \cup {Users} = {m, Campaigns, Users}
    OBVIOUS
  <2> QED BY <1>1, <2>1 DEF Init, Loads
<1>3. /\ m \in Message /\ Proper(m) /\ m.kind = "rows" /\ m.value = page.filter /\ m.answer = None
      /\ Users \in Message /\ Proper(Users) /\ Users.kind = "users"
      /\ Campaigns \in Message /\ Proper(Campaigns) /\ Campaigns.kind = "campaigns"
  <2>1. page.filter \in Filter
    BY <1>1 DEF Filter
  <2> QED BY <2>1, RequestGood DEF Users, Campaigns, Kind, OneRow
<1> HIDE DEF m
<1>4. /\ IsABag(net) /\ BagToSet(net) = {m, Campaigns, Users}
      /\ \A x \in {m, Campaigns, Users} : net[x] = 1
  BY <1>2, SetBag
<1>5. ServerGood
  <2>1. QualifiedEntry \in Entry /\ FailedEntry \in Entry
    BY DEF QualifiedEntry, FailedEntry, NewEntry, Entry, Verdict
  <2>2. rows \in [Row -> Entry \cup {None}]
    BY <2>1 DEF Init
  <2>3. user \in User /\ user # Gone
    BY NoneAssumption DEF Init, User
  <2> QED BY <2>2, <2>3, BoundAssumption DEF Init, ServerGood
<1>6. Types
  BY <1>1, <1>3, <1>4, <1>5 DEF Types, QueueGood
<1>7. Flags
  BY <1>1, <1>3, <1>4 DEF Flags, Buttons, Coming, Awaits, InFlight
<1>8. RowsGood
  <2> SUFFICES ASSUME NEW r \in Row PROVE RowGood(r)
    BY DEF RowsGood
  <2>1. Pend(r, net) = {m}
    BY <1>3, <1>4 DEF Pend, About
  <2>2. OneEach(r) /\ ErrorEmpty(r) /\ RowComes(r) /\ ShowsRow(r) /\ LeavesOut(r)
    BY <1>1, <1>3, <1>4, <2>1 DEF OneEach, ErrorEmpty, RowComes, ShowsRow, LeavesOut, OneRow
  <2>3. ListComes(r)
    BY <1>1, <1>3, <2>1, NoneAssumption DEF ListComes
  <2> QED BY <2>2, <2>3 DEF RowGood
<1>9. DialogGood
  BY <1>1, <1>3, <1>4 DEF DialogGood, InFlight
<1> QED BY <1>6, <1>7, <1>8, <1>9 DEF IInv

LEMMA StutterGood == IInv /\ UNCHANGED vars => IInv'
<1> SUFFICES ASSUME IInv, UNCHANGED vars PROVE IInv'
  OBVIOUS
<1>1. /\ UNCHANGED <<page, net, server, crossed>> /\ events' \in 0 .. MaxEvents
      /\ crossed' \subseteq Row /\ crossed \subseteq crossed'
  BY Now DEF vars, server, ServerGood
<1>2. DialogGood'
  BY <1>1, DialogKept DEF server
<1>3. SameButtons(page, page)
  BY DEF SameButtons
<1> QED BY <1>1, <1>2, <1>3, Now, PageStep

LEMMA NextGood == IInv /\ [Next]_vars => IInv'
<1> SUFFICES ASSUME IInv, [Next]_vars PROVE IInv'
  OBVIOUS
<1>1. CASE Administrator
  BY <1>1, FilterStep, OpenPromoteStep, SendToStudioStep, ReviewStep, ClosePromoteStep,
     ConfirmPromoteStep, EditCampaignStep, AccountStep, OpenAccountsStep, SignInStep
     DEF Administrator
<1>2. CASE Elsewhere \/ Expire
  BY <1>2, ElsewhereStep
<1>3. ASSUME NEW m \in BagToSet(net), Serve(m) \/ Fail(m) PROVE IInv'
  BY <1>3, ServeReadStep, ServeRowStep, ServeAccountStep, RefuseStep DEF Serve
<1>4. ASSUME NEW m \in BagToSet(net), Handler(m) PROVE IInv'
  BY <1>4, LoadAnswerStep, RowAnswerStep, PickAnswerStep, AccountAnswerStep, SyncAnswerStep
     DEF Handler
<1>5. CASE UNCHANGED vars
  BY <1>5, StutterGood
<1> QED BY <1>1, <1>2, <1>3, <1>4, <1>5 DEF Next

LEMMA InvariantHolds == Spec => []IInv
  BY InitGood, NextGood, PTL DEF Spec

\* The types, and what the page shows as under way is under way: one request for
\* every button that waits, never two for one, rows to come where the page says it
\* loads them; whatever order the answers come in, and whichever of them fail.
\* (app.js, the handlers of the scouts page)
THEOREM TypeCorrect == Spec => []TypeOK
  BY InvariantHolds, Implied, PTL

\* When the answers about a row are in, the page lists the row as the database has
\* it, unless two requests about it were in flight at a time, an answer was lost or
\* somebody else changed it. (app.js refreshScoutRow, loadScouts)
THEOREM RowsSettled == Spec => []RowsSettle
  BY InvariantHolds, Implied, PTL

\* What changes a row: a request about it, the inbox, a deletion.
LEMMA RowsChange ==
    ASSUME IInv, [Next]_vars, NEW r \in Row, rows[r] # None, rows'[r] # None, rows'[r] # rows[r]
    PROVE  \E m \in BagToSet(net) : ServeRow(m) /\ m.row = r
<1>1. CASE Administrator
  BY <1>1 DEF Administrator, ChangeFilter, OpenPromote, SendToStudio, ReviewRow, ClosePromote,
     ConfirmPromote, EditCampaign, StopEditing, PickCampaign, ChangeAccount, CreateAccount,
     OpenAccounts, SyncInbox, SignIn, server
<1>2. CASE Elsewhere \/ Expire
  BY <1>2, Now DEF Elsewhere, Expire, ServerGood
<1>3. ASSUME NEW m \in BagToSet(net), Handler(m) PROVE rows' = rows
  BY <1>3 DEF Handler, LoadAnswer, ReviewAnswer, PromoteAnswer, SendAnswer, PickAnswer,
     AccountAnswer, SyncAnswer, Handle, server
<1>4. ASSUME NEW m \in BagToSet(net), ServeRead(m) \/ Refuse(m) \/ Fail(m) PROVE rows' = rows
  BY <1>4 DEF ServeRead, Refuse, Fail, server
<1>5. ASSUME NEW m \in BagToSet(net), ServeAccount(m) PROVE FALSE
  <2>1. \/ rows' = rows \/ rows' = Nothing
        \/ \E s \in Row : rows[s] = None /\ rows' = [rows EXCEPT ![s] = NewEntry]
    BY <1>5 DEF ServeAccount
  <2> QED BY <2>1, Now DEF ServerGood, Nothing
<1>6. ASSUME NEW m \in BagToSet(net), ServeRow(m) PROVE m.row = r
  <2>1. \E new : rows' = [rows EXCEPT ![m.row] = new]
    BY <1>6 DEF ServeRow
  <2> QED BY <2>1, Now DEF ServerGood
<1>7. CASE UNCHANGED vars
  BY <1>7 DEF vars
<1> QED BY <1>1, <1>2, <1>3, <1>4, <1>5, <1>6, <1>7 DEF Next, Serve

LEMMA SentStep ==
    ASSUME IInv, [Next]_vars, NEW m \in BagToSet(net), m.kind = "promote", Due(m),
           rows[m.row] # None, m.row \notin crossed, rows'[m.row] # None,
           rows'[m.row].sent # rows[m.row].sent
    PROVE  rows'[m.row].sent = m.value
<1>1. m.row \in Row /\ m \in Pend(m.row, net) /\ rows[m.row] \in Entry
  BY Now DEF Proper, OneRow, Pend, About, ServerGood
<1>2. PICK n \in BagToSet(net) : ServeRow(n) /\ n.row = m.row
  BY <1>1, RowsChange
<1>3. n = m
  <2>1. n \in Pend(m.row, net)
    BY <1>1, <1>2 DEF Pend, About, ServeRow
  <2> QED BY <1>1, <2>1, Now DEF RowGood, OneEach
<1>4. m.value = user.campaign
  BY <1>1, NoneAssumption DEF IInv, DialogGood, InFlight
<1>5. PICK took \in BOOLEAN :
         rows' = [rows EXCEPT ![m.row] = Studio([rows[m.row] EXCEPT !.promoted = TRUE], took)]
  BY <1>2, <1>3 DEF ServeRow
<1>6. rows'[m.row] = Studio([rows[m.row] EXCEPT !.promoted = TRUE], took)
  BY <1>1, <1>5, Now DEF ServerGood
<1> PICK e : e = [rows[m.row] EXCEPT !.promoted = TRUE]
  OBVIOUS
<1>7. e.sent = rows[m.row].sent /\ e \in Entry
  BY <1>1 DEF Entry
<1>8. Studio(e, took).sent \in {e.sent, user.campaign}
  BY <1>7 DEF Studio, Entry
<1> QED BY <1>4, <1>6, <1>7, <1>8

\* A row that is promoted goes to the campaign that the dialog named, or to none if
\* it named none, under the same conditions. (app.js promoteModal)
THEOREM SentAsNamed == Spec => SentWhereNamed
<1>1. IInv /\ [Next]_vars =>
         [\A m \in BagToSet(net) :
             /\ m.kind = "promote" /\ Due(m) /\ rows[m.row] # None /\ m.row \notin crossed
             /\ rows'[m.row] # None /\ rows'[m.row].sent # rows[m.row].sent
             => rows'[m.row].sent = m.value]_vars
  BY SentStep
<1> QED BY <1>1, InvariantHolds, PTL DEF Spec, SentWhereNamed
=============================================================================
