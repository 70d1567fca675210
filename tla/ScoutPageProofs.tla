-------------------------- MODULE ScoutPageProofs --------------------------
(***************************************************************************)
(* Proofs about ScoutPage, for any number of rows, verdicts, clicks,       *)
(* failures and polls: type correctness, with one request in flight for    *)
(* each button that waits and the timer set while the sheet is shown; and  *)
(* that an answer to a poll disturbs nobody and leaves no row behind.      *)
(*                                                                         *)
(* The argument.  A flag goes up with its request and down with the        *)
(* answer.  The first request, for the session, is alone until the tab     *)
(* leaves its loading view, and a sign-in is only in flight on the sign-in *)
(* page, so that no other answer finds the sheet entered twice or the      *)
(* timer set elsewhere.  What is typed into a cell is in the one with the  *)
(* focus: without a focus in the table only the form for the handle can    *)
(* lose something when a poll renders the sheet.                           *)
(***************************************************************************)
EXTENDS ScoutPage, FiniteSetTheorems, WellFoundedInduction, TLAPS

\* What an answer may say, and what it carries.
Proper(m) ==
    /\ m.kind \in {"rows", "poll", "add", "delete"} => m.answer \in {None, "ok", "error", "401"}
    /\ m.kind \in {"save", "ig"} => m.answer \in {None, "ok", "more", "error", "401"}
    /\ m.kind = "add" /\ m.answer = "ok" => m.entry \in Entry
    /\ m.kind = "save" /\ m.answer \in {"ok", "more"} => m.entry \in Entry

QueueGood(B) == IsABag(B) /\ \A m \in BagToSet(B) : m \in Message /\ Proper(m)

ServerGood ==
    /\ db \in Seq(Entry) /\ last \in 0 .. MaxRows
    /\ session \in BOOLEAN /\ events \in 0 .. MaxEvents

\* A page and the requests it waits for.
Buttons(p, B) ==
    /\ Awaits(p.adding, "add", B)
    /\ Awaits(p.loggingIn, "login", B)
    /\ InFlight("ig", B) # {} => p.igSaving /\ Alone("ig", B)
    /\ p.timer = (p.view = "sheet")

\* The session is asked for alone, a sign-in only on its page.
Entrance(p, B) ==
    /\ InFlight("session", B) # {} => p.view = "loading" /\ Alone("session", B)
    /\ InFlight("login", B) # {} => p.view = "login"
    /\ p.view = "loading" => \A m \in BagToSet(B) : m.kind = "session"
    /\ p.view = "left" => BagToSet(B) = {}

Fits(p, B) == (p.view # "left" => Buttons(p, B)) /\ Entrance(p, B)

\* A draft is typed into the cell that has the focus, which is on the sheet.
Typed(p) == (p.draft => SheetHasFocus(p)) /\ (p.cell # None => p.view = "sheet")

\* The rows shown are the rows held, if not their verdicts.
Shows(p) == p.shown # <<>> => p.view = "sheet" /\ Ids(p.shown) = Ids(p.rows)

Types == page \in Page /\ QueueGood(net) /\ ServerGood

\* The inductive invariant.
IInv == Types /\ Fits(page, net) /\ Typed(page) /\ Shows(page)

LEMMA Now ==
    ASSUME IInv
    PROVE  /\ page \in Page /\ IsABag(net) /\ QueueGood(net) /\ ServerGood
           /\ Fits(page, net) /\ Typed(page) /\ Shows(page)
           /\ \A m \in BagToSet(net) : m \in Message /\ Proper(m)
  BY DEF IInv, Types, QueueGood

LEMMA Implied == IInv => TypeOK
  BY DEF IInv, Types, QueueGood, ServerGood, Fits, Buttons, Shows, TypeOK

-----------------------------------------------------------------------------
(* Queues.                                                                 *)

LEMMA AddBag ==
    ASSUME NEW B, IsABag(B), NEW m
    PROVE  LET C == B (+) One(m) IN
           /\ IsABag(C) /\ BagToSet(C) = BagToSet(B) \cup {m}
           /\ \A x \in BagToSet(B) : x # m => C[x] = B[x]
           /\ m \notin BagToSet(B) => C[m] = 1
  BY DEF (+), One, SetToBag, IsABag, BagToSet

LEMMA RemoveBag ==
    ASSUME NEW B, IsABag(B), NEW m \in BagToSet(B)
    PROVE  LET C == B (-) One(m) IN
           /\ IsABag(C) /\ BagToSet(C) \subseteq BagToSet(B)
           /\ BagToSet(B) \ {m} \subseteq BagToSet(C)
           /\ \A x \in BagToSet(C) : x # m => C[x] = B[x]
           /\ B[m] = 1 => m \notin BagToSet(C)
  BY DEF (-), One, SetToBag, IsABag, BagToSet

LEMMA SwapBag ==
    ASSUME NEW B, IsABag(B), NEW m \in BagToSet(B), NEW a
    PROVE  LET C == (B (-) One(m)) (+) One(a) IN
           /\ IsABag(C) /\ BagToSet(C) \subseteq BagToSet(B) \cup {a}
           /\ a \in BagToSet(C) /\ BagToSet(B) \ {m} \subseteq BagToSet(C)
           /\ \A x \in BagToSet(C) \ {m, a} : C[x] = B[x]
           /\ B[m] = 1 /\ a # m => m \notin BagToSet(C)
           /\ B[m] = 1 /\ a \notin BagToSet(B) \ {m} => C[a] = 1
<1> DEFINE D == B (-) One(m)
<1>1. /\ IsABag(D) /\ BagToSet(D) \subseteq BagToSet(B)
      /\ BagToSet(B) \ {m} \subseteq BagToSet(D)
      /\ \A x \in BagToSet(D) : x # m => D[x] = B[x]
      /\ B[m] = 1 => m \notin BagToSet(D)
  BY RemoveBag
<1> HIDE DEF D
<1>2. LET C == D (+) One(a) IN
      /\ IsABag(C) /\ BagToSet(C) = BagToSet(D) \cup {a}
      /\ \A x \in BagToSet(D) : x # a => C[x] = D[x]
      /\ a \notin BagToSet(D) => C[a] = 1
  BY <1>1, AddBag
<1> QED BY <1>1, <1>2 DEF D

LEMMA SetBag ==
    ASSUME NEW S
    PROVE  LET C == SetToBag(S) IN IsABag(C) /\ BagToSet(C) = S /\ \A x \in S : C[x] = 1
  BY DEF SetToBag, IsABag, BagToSet

LEMMA KindKept ==
    ASSUME NEW B, NEW C, NEW k, InFlight(k, C) = InFlight(k, B),
           \A m \in InFlight(k, B) : C[m] = B[m]
    PROVE  (Alone(k, B) => Alone(k, C)) /\ \A b : Awaits(b, k, B) => Awaits(b, k, C)
  BY DEF Alone, Awaits

LEMMA AddKind ==
    ASSUME NEW B, IsABag(B), NEW m, NEW k
    PROVE  LET C == B (+) One(m) IN
           /\ InFlight(k, C) = InFlight(k, B) \cup (IF m.kind = k THEN {m} ELSE {})
           /\ m.kind # k => \A n \in InFlight(k, B) : C[n] = B[n]
           /\ m.kind = k /\ InFlight(k, B) = {} => Alone(k, C)
<1> DEFINE C == B (+) One(m)
<1>1. /\ BagToSet(C) = BagToSet(B) \cup {m}
      /\ \A x \in BagToSet(B) : x # m => C[x] = B[x]
      /\ m \notin BagToSet(B) => C[m] = 1
  BY AddBag
<1> HIDE DEF C
<1>2. InFlight(k, C) = InFlight(k, B) \cup (IF m.kind = k THEN {m} ELSE {})
  BY <1>1 DEF InFlight
<1>3. m.kind # k => \A n \in InFlight(k, B) : C[n] = B[n]
  BY <1>1 DEF InFlight
<1>4. ASSUME m.kind = k, InFlight(k, B) = {} PROVE Alone(k, C)
  <2>1. m \notin BagToSet(B) /\ InFlight(k, C) = {m}
    BY <1>2, <1>4 DEF InFlight
  <2> QED BY <1>1, <2>1 DEF Alone
<1> QED BY <1>2, <1>3, <1>4 DEF C

LEMMA RemoveKind ==
    ASSUME NEW B, IsABag(B), NEW m \in BagToSet(B), NEW k
    PROVE  LET C == B (-) One(m) IN
           /\ m.kind # k => InFlight(k, C) = InFlight(k, B) /\ \A n \in InFlight(k, B) : C[n] = B[n]
           /\ m.kind = k /\ Alone(k, B) => InFlight(k, C) = {}
<1> DEFINE C == B (-) One(m)
<1>1. /\ BagToSet(C) \subseteq BagToSet(B) /\ BagToSet(B) \ {m} \subseteq BagToSet(C)
      /\ \A x \in BagToSet(C) : x # m => C[x] = B[x]
      /\ B[m] = 1 => m \notin BagToSet(C)
  BY RemoveBag
<1> HIDE DEF C
<1>2. m.kind # k => InFlight(k, C) = InFlight(k, B) /\ \A n \in InFlight(k, B) : C[n] = B[n]
  BY <1>1 DEF InFlight
<1>3. ASSUME m.kind = k, Alone(k, B) PROVE InFlight(k, C) = {}
  <2>1. PICK x \in InFlight(k, B) : InFlight(k, B) = {x} /\ B[x] = 1
    BY <1>3 DEF Alone
  <2>2. x = m
    BY <1>3, <2>1 DEF InFlight
  <2> QED BY <1>1, <2>1, <2>2 DEF InFlight
<1> QED BY <1>2, <1>3 DEF C

LEMMA SwapKind ==
    ASSUME NEW B, IsABag(B), NEW m \in BagToSet(B), NEW a, a.kind = m.kind, NEW k
    PROVE  LET C == (B (-) One(m)) (+) One(a) IN
           /\ InFlight(k, C) = {} <=> InFlight(k, B) = {}
           /\ Alone(k, B) => Alone(k, C)
           /\ \A b : Awaits(b, k, B) => Awaits(b, k, C)
<1> DEFINE D == B (-) One(m)
           C == D (+) One(a)
<1>1. IsABag(D)
  BY RemoveBag
<1>2. /\ m.kind # k => InFlight(k, D) = InFlight(k, B) /\ \A n \in InFlight(k, B) : D[n] = B[n]
      /\ m.kind = k /\ Alone(k, B) => InFlight(k, D) = {}
  BY RemoveKind
<1> HIDE DEF D
<1>3. /\ InFlight(k, C) = InFlight(k, D) \cup (IF a.kind = k THEN {a} ELSE {})
      /\ a.kind # k => \A n \in InFlight(k, D) : C[n] = D[n]
      /\ a.kind = k /\ InFlight(k, D) = {} => Alone(k, C)
  BY <1>1, AddKind
<1> HIDE DEF C
<1>4. m.kind = k => m \in InFlight(k, B)
  BY DEF InFlight
<1>5. InFlight(k, C) = {} <=> InFlight(k, B) = {}
  BY <1>2, <1>3, <1>4
<1>6. Alone(k, B) => Alone(k, C)
  <2>1. CASE m.kind = k
    BY <1>2, <1>3, <2>1
  <2>2. CASE m.kind # k
    BY <1>2, <1>3, <2>2, KindKept
  <2> QED BY <2>1, <2>2
<1> QED BY <1>5, <1>6 DEF Awaits, C, D

LEMMA QueueAdd ==
    ASSUME NEW B, QueueGood(B), NEW m \in Message, Proper(m)
    PROVE  QueueGood(B (+) One(m))
  BY AddBag DEF QueueGood

LEMMA QueueRest ==
    ASSUME NEW B, QueueGood(B), NEW m \in BagToSet(B)
    PROVE  QueueGood(B (-) One(m)) /\ BagToSet(B (-) One(m)) \subseteq BagToSet(B)
  BY RemoveBag DEF QueueGood

LEMMA RequestGood ==
    ASSUME NEW kind \in Kind, NEW id \in Row \cup {None}, NEW link \in BOOLEAN
    PROVE  LET m == [Request(kind, id) EXCEPT !.link = link] IN
           /\ m \in Message /\ Proper(m) /\ m.kind = kind
<1>1. <<>> \in Seq(Entry)
  OBVIOUS
<1> QED BY <1>1, NoneAssumption DEF Request, Message, Proper, Reply

LEMMA PlainRequest ==
    ASSUME NEW kind \in Kind, NEW id \in Row \cup {None}
    PROVE  LET m == Request(kind, id) IN m \in Message /\ Proper(m) /\ m.kind = kind
<1>1. <<>> \in Seq(Entry)
  OBVIOUS
<1> QED BY <1>1, NoneAssumption DEF Request, Message, Proper, Reply

-----------------------------------------------------------------------------
(* The page and its requests.                                              *)

LEMMA FitsSame ==
    ASSUME NEW p, NEW q, NEW B, Fits(p, B), q.view = p.view, q.timer = p.timer,
           q.adding = p.adding, q.loggingIn = p.loggingIn, q.igSaving = p.igSaving
    PROVE  Fits(q, B)
  BY DEF Fits, Buttons, Entrance

LEMMA FitsSend ==
    ASSUME NEW p, NEW q, NEW B, NEW m, IsABag(B), Fits(p, B), m.kind # "session",
           IF m.kind = "login" THEN p.view = "login" /\ ~p.loggingIn /\ q.loggingIn
                               ELSE p.view \in {"login", "sheet"} /\ q.loggingIn = p.loggingIn,
           IF m.kind = "add" THEN ~p.adding /\ q.adding ELSE q.adding = p.adding,
           IF m.kind = "ig" THEN ~p.igSaving /\ q.igSaving ELSE q.igSaving = p.igSaving,
           q.view = p.view, q.timer = p.timer
    PROVE  Fits(q, B (+) One(m))
<1> DEFINE C == B (+) One(m)
<1>1. \A k : /\ InFlight(k, C) = InFlight(k, B) \cup (IF m.kind = k THEN {m} ELSE {})
             /\ m.kind = k /\ InFlight(k, B) = {} => Alone(k, C)
             /\ m.kind # k => \A b : Awaits(b, k, B) => Awaits(b, k, C)
             /\ m.kind # k => (Alone(k, B) => Alone(k, C))
  <2> SUFFICES ASSUME NEW k
               PROVE  /\ InFlight(k, C) = InFlight(k, B) \cup (IF m.kind = k THEN {m} ELSE {})
                      /\ m.kind = k /\ InFlight(k, B) = {} => Alone(k, C)
                      /\ m.kind # k => \A b : Awaits(b, k, B) => Awaits(b, k, C)
                      /\ m.kind # k => (Alone(k, B) => Alone(k, C))
    OBVIOUS
  <2> HIDE DEF C
  <2>1. /\ InFlight(k, C) = InFlight(k, B) \cup (IF m.kind = k THEN {m} ELSE {})
        /\ m.kind # k => \A n \in InFlight(k, B) : C[n] = B[n]
        /\ m.kind = k /\ InFlight(k, B) = {} => Alone(k, C)
    BY AddKind DEF C
  <2> QED BY <2>1, KindKept
<1> HIDE DEF C
<1>2. p.view \in {"login", "sheet"} /\ Buttons(p, B) /\ Entrance(p, B)
  BY DEF Fits
<1>3. Awaits(q.adding, "add", C)
  BY <1>1, <1>2 DEF Buttons, Awaits
<1>4. Awaits(q.loggingIn, "login", C)
  BY <1>1, <1>2 DEF Buttons, Awaits
<1>5. InFlight("ig", C) # {} => q.igSaving /\ Alone("ig", C)
  BY <1>1, <1>2 DEF Buttons
<1>6. Entrance(q, C)
  BY <1>1, <1>2 DEF Entrance
<1> QED BY <1>2, <1>3, <1>4, <1>5, <1>6 DEF Fits, Buttons, C

LEMMA FitsAnswer ==
    ASSUME NEW p, NEW B, NEW m \in BagToSet(B), NEW a, IsABag(B), Fits(p, B), a.kind = m.kind
    PROVE  Fits(p, (B (-) One(m)) (+) One(a))
<1> DEFINE C == (B (-) One(m)) (+) One(a)
<1>1. \A k : /\ InFlight(k, C) = {} <=> InFlight(k, B) = {}
             /\ Alone(k, B) => Alone(k, C)
             /\ \A b : Awaits(b, k, B) => Awaits(b, k, C)
  BY SwapKind
<1>2. BagToSet(C) \subseteq BagToSet(B) \cup {a}
  BY SwapBag
<1> HIDE DEF C
<1>3. p.view # "left" => Buttons(p, C)
  BY <1>1 DEF Fits, Buttons
<1>4. Entrance(p, C)
  BY <1>1, <1>2 DEF Fits, Entrance
<1> QED BY <1>3, <1>4 DEF Fits, C

\* The page q after the answer m: the sheet is entered or left, or neither.
LEMMA FitsHandle ==
    ASSUME NEW p \in Page, NEW q \in Page, NEW B, NEW m \in BagToSet(B), IsABag(B), Fits(p, B),
           IF m.kind = "add" THEN ~q.adding ELSE q.adding = p.adding,
           m.kind # "ig" => q.igSaving = p.igSaving,
           IF m.kind \in {"session", "login"}
           THEN /\ q.view \in {"sheet", "login"} /\ ~q.loggingIn
                /\ q.view = "sheet" => q.timer
                /\ q.view = "login" => q.timer = p.timer
           ELSE /\ q.loggingIn = p.loggingIn
                /\ \/ q.view = p.view /\ q.timer = p.timer
                   \/ q.view = "login" /\ ~q.timer
    PROVE  Fits(q, B (-) One(m))
<1> DEFINE C == B (-) One(m)
<1>1. \A k : /\ m.kind # k => InFlight(k, C) = InFlight(k, B) /\ \A n \in InFlight(k, B) : C[n] = B[n]
             /\ m.kind = k /\ Alone(k, B) => InFlight(k, C) = {}
  BY RemoveKind
<1>2. BagToSet(C) \subseteq BagToSet(B)
  BY RemoveBag
<1> HIDE DEF C
<1>3. \A k : m.kind # k => /\ \A b : Awaits(b, k, B) => Awaits(b, k, C)
                           /\ (Alone(k, B) => Alone(k, C))
  BY <1>1, KindKept
<1>4. m \in InFlight(m.kind, B)
  BY DEF InFlight
<1>5. p.view # "left" /\ Buttons(p, B) /\ Entrance(p, B)
  BY DEF Fits, Entrance
<1>6. m.kind = "login" => p.view = "login" /\ Alone("login", B)
  BY <1>4, <1>5 DEF Entrance, Buttons, Awaits
<1>7. m.kind = "session" => p.view = "loading" /\ Alone("session", B)
  BY <1>4, <1>5 DEF Entrance
<1>8. p.view = "loading" <=> m.kind = "session"
  BY <1>5, <1>7 DEF Entrance
<1>9. m.kind \in {"session", "login"} => InFlight("session", C) = {} /\ InFlight("login", C) = {}
  <2>1. CASE m.kind = "session"
    <3>1. InFlight("login", B) = {}
      BY <1>5, <1>7, <2>1 DEF Entrance
    <3> QED BY <1>1, <1>7, <2>1, <3>1
  <2>2. CASE m.kind = "login"
    <3>1. InFlight("session", B) = {}
      BY <1>5, <1>6, <2>2 DEF Entrance
    <3> QED BY <1>1, <1>6, <2>2, <3>1
  <2> QED BY <2>1, <2>2
<1>10. m.kind \notin {"session", "login"} => InFlight("session", C) = {}
  <2>1. m.kind \notin {"session", "login"} => InFlight("session", B) = {}
    BY <1>5, <1>8 DEF Entrance
  <2> QED BY <1>1, <2>1
<1>11. Awaits(q.adding, "add", C)
  BY <1>1, <1>3, <1>4, <1>5 DEF Buttons, Awaits
<1>12. Awaits(q.loggingIn, "login", C)
  BY <1>3, <1>5, <1>9 DEF Buttons, Awaits
<1>13. InFlight("ig", C) # {} => q.igSaving /\ Alone("ig", C)
  BY <1>1, <1>3, <1>4, <1>5 DEF Buttons
<1>14. q.timer = (q.view = "sheet")
  <2>1. p.timer \in BOOLEAN /\ q.timer \in BOOLEAN
    BY DEF Page
  <2>2. m.kind \in {"session", "login"} => p.view # "sheet"
    BY <1>6, <1>7
  <2> QED BY <1>5, <2>1, <2>2, Zenon DEF Buttons
<1>15. q.view \notin {"loading", "left"}
  BY <1>5, <1>8
<1>16. Entrance(q, C)
  <2>1. InFlight("login", C) # {} => q.view = "login"
    <3>1. CASE m.kind \in {"session", "login"}
      BY <1>9, <3>1
    <3>2. CASE m.kind \notin {"session", "login"}
      <4>1. InFlight("login", C) = InFlight("login", B)
        BY <1>1, <3>2
      <4> QED BY <1>5, <3>2, <4>1 DEF Entrance
    <3> QED BY <3>1, <3>2
  <2> QED BY <1>9, <1>10, <1>15, <2>1 DEF Entrance
<1> QED BY <1>11, <1>12, <1>13, <1>14, <1>16 DEF Fits, Buttons, C

-----------------------------------------------------------------------------
(* The rows.                                                               *)

LEMMA Least ==
    ASSUME NEW T \in SUBSET Nat, T # {}
    PROVE  \E n \in T : \A k \in T : n <= k
<1>1. PICK n \in T : \A k \in T : ~(<<k, n>> \in OpToRel(<, Nat))
  BY NatLessThanWellFounded, WFMin
<1>2. \A k \in T : <<k, n>> \in OpToRel(<, Nat) <=> k < n
  BY DEF OpToRel
<1>3. \A k \in T : ~(k < n) /\ k \in Nat /\ n \in Nat
  BY <1>1, <1>2
<1> QED BY <1>3

LEMMA NthThere ==
    ASSUME NEW N \in Nat, NEW S \in SUBSET (1 .. N), NEW n \in 1 .. Cardinality(S)
    PROVE  Nth(S, n) \in S
<1> DEFINE upTo(i) == {k \in S : k <= i}
           T == {i \in 0 .. N : Cardinality(upTo(i)) >= n}
<1>1. IsFiniteSet(S) /\ Cardinality(S) \in Nat
  <2>1. IsFiniteSet(1 .. N)
    BY FS_Interval
  <2> QED BY <2>1, FS_Subset, FS_CardinalityType
<1>2. \A i \in 0 .. N : IsFiniteSet(upTo(i)) /\ Cardinality(upTo(i)) \in Nat
  <2> SUFFICES ASSUME NEW i \in 0 .. N
               PROVE  IsFiniteSet(upTo(i)) /\ Cardinality(upTo(i)) \in Nat
    OBVIOUS
  <2>1. upTo(i) \in SUBSET S
    OBVIOUS
  <2> QED BY <1>1, <2>1, FS_Subset, FS_CardinalityType
<1>3. \A k \in S : k \in Nat /\ 1 <= k /\ k <= N
  OBVIOUS
<1>4. N \in T
  <2>1. upTo(N) = S
    BY <1>3
  <2>2. n \in Nat /\ n <= Cardinality(S)
    BY <1>1
  <2> QED BY <1>1, <2>1, <2>2
<1>5. PICK i \in T : \A k \in T : i <= k
  <2>1. T \in SUBSET Nat
    OBVIOUS
  <2> HIDE DEF T
  <2> QED BY <1>4, <2>1, Least
<1>6. i \in 0 .. N /\ Cardinality(upTo(i)) >= n /\ n \in Nat /\ n >= 1
  BY <1>1
<1>7. i # 0
  <2>1. upTo(0) = {}
    <3>1. \A k \in S : ~(k <= 0)
      BY <1>3
    <3> QED BY <3>1
  <2>2. Cardinality(upTo(0)) = 0
    BY <2>1, FS_EmptySet
  <2> QED BY <1>6, <2>2
<1> DEFINE j == i - 1
<1>8. j \in 0 .. N /\ j + 1 = i /\ j < i
  BY <1>6, <1>7
<1>9. Cardinality(upTo(j)) < n /\ Cardinality(upTo(j)) \in Nat
  <2>1. j \notin T
    <3> HIDE DEF T, j
    <3> QED BY <1>5, <1>6, <1>8
  <2>2. ~(Cardinality(upTo(j)) >= n)
    BY <1>8, <2>1
  <2>3. Cardinality(upTo(j)) \in Nat
    BY <1>2, <1>8
  <2> HIDE DEF upTo, j
  <2> QED BY <1>6, <2>2, <2>3
<1>10. \A k \in S : k <= i <=> k <= j \/ k = i
  BY <1>3, <1>6, <1>8
<1>11. i \in S
  <2>1. i \notin S => upTo(i) = upTo(j)
    BY <1>10
  <2> QED BY <1>6, <1>9, <2>1
<1>12. upTo(i) = upTo(j) \cup {i} /\ i \notin upTo(j)
  <2>1. i \notin upTo(j)
    BY <1>6, <1>8
  <2>2. i <= i
    BY <1>6
  <2> QED BY <1>10, <1>11, <2>1, <2>2
<1>13. Cardinality(upTo(i)) = Cardinality(upTo(j)) + 1
  <2>1. IsFiniteSet(upTo(j))
    BY <1>2, <1>8
  <2> HIDE DEF upTo
  <2> QED BY <1>12, <2>1, FS_AddElement
<1>14. Cardinality(upTo(i)) = n
  BY <1>6, <1>9, <1>13
<1> QED BY <1>11, <1>14 DEF Nth

LEMMA WithoutGood ==
    ASSUME NEW rows \in Seq(Entry), NEW id
    PROVE  Without(rows, id) \in Seq(Entry)
<1> DEFINE others == {i \in DOMAIN rows : rows[i].id # id}
<1>1. others \in SUBSET (1 .. Len(rows)) /\ Len(rows) \in Nat
  OBVIOUS
<1>2. Cardinality(others) \in Nat
  <2>1. IsFiniteSet(1 .. Len(rows))
    BY <1>1, FS_Interval
  <2> QED BY <1>1, <2>1, FS_Subset, FS_CardinalityType
<1>3. \A n \in 1 .. Cardinality(others) : Nth(others, n) \in others
  BY <1>1, NthThere
<1>4. \A n \in 1 .. Cardinality(others) : rows[Nth(others, n)] \in Entry
  BY <1>3
<1>5. Without(rows, id) = [n \in 1 .. Cardinality(others) |-> rows[Nth(others, n)]]
  BY DEF Without
<1> HIDE DEF others
<1> QED BY <1>2, <1>4, <1>5

LEMMA PutGood ==
    ASSUME NEW rows \in Seq(Entry), NEW e \in Entry
    PROVE  Put(rows, e) \in Seq(Entry)
  BY DEF Put

-----------------------------------------------------------------------------
(* The document.                                                           *)

\* The page q after p but for the rows and what is shown of them.
SameTab(p, q) ==
    /\ q.view = p.view /\ q.hidden = p.hidden /\ q.timer = p.timer /\ q.adding = p.adding
    /\ q.igSaving = p.igSaving /\ q.loggingIn = p.loggingIn

LEMMA RenderGood ==
    ASSUME NEW p \in Page
    PROVE  LET q == Render(p) IN
           /\ q \in Page /\ SameTab(p, q) /\ q.rows = p.rows /\ q.loadError = p.loadError
           /\ q.cell = None /\ ~q.draft /\ Typed(q) /\ Shows(q)
           /\ q.shown = IF p.view = "sheet" /\ ~p.loadError THEN p.rows ELSE <<>>
<1> DEFINE new == IF p.view = "sheet" /\ ~p.loadError THEN p.rows ELSE <<>>
<1>1. new \in Seq(Entry)
  BY DEF Page
<1>2. Render(p) = [p EXCEPT !.shown = new, !.cell = None, !.draft = FALSE, !.text = FALSE]
  BY DEF Render
<1> HIDE DEF new
<1>3. LET q == Render(p) IN
      /\ q \in Page /\ SameTab(p, q) /\ q.rows = p.rows /\ q.loadError = p.loadError
      /\ q.cell = None /\ ~q.draft /\ Typed(q) /\ q.shown = new
  BY <1>1, <1>2 DEF Page, SameTab, Typed
<1> QED BY <1>3 DEF new, Shows, SameTab

LEMMA WithRows ==
    ASSUME NEW p \in Page, NEW rows \in Seq(Entry)
    PROVE  LET q == [p EXCEPT !.rows = rows] IN
           /\ q \in Page /\ SameTab(p, q) /\ q.rows = rows /\ q.loadError = p.loadError
           /\ q.cell = p.cell /\ q.draft = p.draft /\ q.shown = p.shown
  BY DEF Page, SameTab

LEMMA SignedOutGood ==
    ASSUME NEW p \in Page
    PROVE  LET q == SignedOut(p) IN
           /\ q \in Page /\ q.view = "login" /\ ~q.timer /\ q.adding = p.adding
           /\ q.igSaving = p.igSaving /\ q.loggingIn = p.loggingIn /\ Typed(q) /\ Shows(q)
<1> PICK s : s = [p EXCEPT !.timer = FALSE, !.view = "login", !.rows = <<>>]
  OBVIOUS
<1>1. /\ s \in Page /\ s.view = "login" /\ ~s.timer /\ s.adding = p.adding
      /\ s.igSaving = p.igSaving /\ s.loggingIn = p.loggingIn
  <2>1. <<>> \in Seq(Entry)
    OBVIOUS
  <2> QED BY <2>1 DEF Page
<1>2. SignedOut(p) = Render(s)
  BY DEF SignedOut
<1> QED BY <1>1, <1>2, RenderGood DEF SameTab

LEMMA FocusGood ==
    ASSUME NEW p \in Page, ~p.draft, Typed(p), Shows(p)
    PROVE  LET q == FocusLast(p) IN q \in Page /\ SameTab(p, q) /\ Typed(q) /\ Shows(q)
<1>1. CASE p.shown = <<>>
  BY <1>1 DEF FocusLast, SameTab, Typed, Shows
<1>2. CASE p.shown # <<>>
  <2>1. p.shown \in Seq(Entry)
    BY DEF Page
  <2>2. p.shown[Len(p.shown)] \in Entry
    BY <1>2, <2>1
  <2> PICK q : q = [p EXCEPT !.cell = p.shown[Len(p.shown)].id]
    OBVIOUS
  <2>3. q \in Page /\ SameTab(p, q) /\ Typed(q) /\ Shows(q)
    BY <1>2, <2>2 DEF Page, Entry, SameTab, Typed, SheetHasFocus, Shows
  <2>4. FocusLast(p) = q
    BY <1>2 DEF FocusLast
  <2> QED BY <2>3, <2>4
<1> QED BY <1>1, <1>2

\* The rows of a poll: a draft stays, the focus and what is typed into the form
\* too, or rows came or went, and no row is left behind.
LEMMA ApplyGood ==
    ASSUME NEW p \in Page, Typed(p), Shows(p), NEW list \in Seq(Entry)
    PROVE  LET q == ApplyLiveRows(p, list) IN
           /\ q \in Page /\ SameTab(p, q) /\ Typed(q) /\ Shows(q)
           /\ q.draft = p.draft
           /\ \/ q.cell = p.cell /\ q.text = p.text
              \/ ~SheetHasFocus(p) /\ Ids(list) # Ids(p.rows)
           /\ Unseen(q) \subseteq Unseen(p)
<1>1. CASE p.view # "sheet"
  BY <1>1 DEF ApplyLiveRows, SameTab
<1>2. CASE p.view = "sheet" /\ Ids(list) # Ids(p.rows) /\ SheetHasFocus(p)
  BY <1>2 DEF ApplyLiveRows, SameTab
<1>3. CASE p.view = "sheet" /\ Ids(list) # Ids(p.rows) /\ ~SheetHasFocus(p)
  <2> PICK r : r = [p EXCEPT !.rows = list]
    OBVIOUS
  <2>1. ApplyLiveRows(p, list) = Render(r)
    BY <1>3 DEF ApplyLiveRows
  <2>2. r \in Page /\ SameTab(p, r) /\ r.rows = list
    BY WithRows
  <2>3. p.draft = FALSE
    BY <1>3 DEF Typed, Page
  <2> PICK q : q = Render(r)
    OBVIOUS
  <2>4. /\ q \in Page /\ SameTab(r, q) /\ q.rows = list /\ q.cell = None /\ ~q.draft /\ Typed(q)
        /\ Shows(q) /\ (q.shown = list \/ q.shown = <<>>)
    BY <2>2, RenderGood
  <2>5. Unseen(q) = {}
    BY <2>4 DEF Unseen
  <2>6. q.draft = FALSE
    BY <2>4 DEF Page
  <2> QED BY <1>3, <2>1, <2>2, <2>3, <2>4, <2>5, <2>6 DEF SameTab
<1>4. CASE p.view = "sheet" /\ Ids(list) = Ids(p.rows)
  <2> DEFINE shown == [i \in DOMAIN p.shown |-> IF p.rows[i] = list[i] THEN p.shown[i] ELSE list[i]]
  <2>1. ApplyLiveRows(p, list) = [p EXCEPT !.rows = list, !.shown = shown]
    BY <1>4 DEF ApplyLiveRows
  <2>2. shown \in Seq(Entry) /\ (shown # <<>> => Ids(shown) = Ids(list))
    <3>1. p.shown \in Seq(Entry) /\ p.rows \in Seq(Entry)
      BY DEF Page
    <3>2. CASE p.shown = <<>>
      BY <3>2
    <3>3. CASE p.shown # <<>>
      <4>1. DOMAIN p.shown = DOMAIN list /\ DOMAIN p.rows = DOMAIN list
            /\ \A i \in DOMAIN list : p.shown[i].id = list[i].id
        BY <1>4, <3>3 DEF Shows, Ids
      <4>2. shown \in Seq(Entry) /\ DOMAIN shown = DOMAIN list
        BY <3>1, <4>1
      <4>3. \A i \in DOMAIN list : shown[i].id = list[i].id
        BY <4>1
      <4> HIDE DEF shown
      <4> QED BY <4>2, <4>3 DEF Ids
    <3> QED BY <3>2, <3>3
  <2>3. \A i \in DOMAIN shown : i \in DOMAIN p.shown
           /\ (shown[i] # list[i] => p.shown[i] # p.rows[i])
    OBVIOUS
  <2> HIDE DEF shown
  <2> PICK q : q = [p EXCEPT !.rows = list, !.shown = shown]
    OBVIOUS
  <2>4. /\ q \in Page /\ SameTab(p, q) /\ Typed(q) /\ Shows(q)
        /\ q.cell = p.cell /\ q.draft = p.draft /\ q.text = p.text
        /\ q.rows = list /\ q.shown = shown
    BY <1>4, <2>2 DEF Page, SameTab, Typed, SheetHasFocus, Shows
  <2>5. Unseen(q) \subseteq Unseen(p)
    BY <2>3, <2>4 DEF Unseen
  <2> QED BY <2>1, <2>4, <2>5
<1> QED BY <1>1, <1>2, <1>3, <1>4

-----------------------------------------------------------------------------
(* The steps, by what they do to the page and the queue.                   *)

LEMMA SameFits ==
    ASSUME NEW p, NEW q, NEW B, Fits(p, B), SameTab(p, q)
    PROVE  Fits(q, B)
  BY FitsSame DEF SameTab

\* A click that asks for nothing.
LEMMA PageStep ==
    ASSUME IInv, NEW q \in Page, page' = q, Fits(q, net), Typed(q), Shows(q), net' = net, ServerGood'
    PROVE  IInv'
  BY Now DEF IInv, Types

LEMMA SendStep ==
    ASSUME IInv, NEW q \in Page, page' = q, Typed(q), Shows(q), NEW m \in Message, Proper(m),
           Send(m), Fits(q, net (+) One(m)), ServerGood'
    PROVE  IInv'
  BY Now, QueueAdd DEF IInv, Types, Send

LEMMA AnswerStep ==
    ASSUME IInv, NEW m \in BagToSet(net), NEW a \in Message, Proper(a), a.kind = m.kind,
           Answer(m, a), UNCHANGED page, ServerGood'
    PROVE  IInv'
<1>1. QueueGood((net (-) One(m)) (+) One(a))
  BY Now, QueueRest, QueueAdd
<1>2. Fits(page, (net (-) One(m)) (+) One(a))
  BY Now, FitsAnswer
<1> QED BY <1>1, <1>2, Now DEF IInv, Types, Answer

LEMMA HandleStep ==
    ASSUME IInv, NEW m \in BagToSet(net), NEW q \in Page, page' = q, Typed(q), Shows(q),
           net' = Rest(m), Fits(q, Rest(m)), ServerGood'
    PROVE  IInv'
  BY Now, QueueRest DEF IInv, Types, Rest

\* The rows are asked for after an answer.
LEMMA HandleMore ==
    ASSUME IInv, NEW m \in BagToSet(net), NEW q \in Page, page' = q, Typed(q), Shows(q),
           net' = Rest(m) (+) One(Request("rows", None)), Fits(q, Rest(m)),
           q.view \in {"login", "sheet"}, ServerGood'
    PROVE  IInv'
<1> PICK n : n = Request("rows", None)
  OBVIOUS
<1>1. n \in Message /\ Proper(n) /\ n.kind = "rows"
  BY PlainRequest DEF Kind
<1>2. QueueGood(Rest(m)) /\ IsABag(Rest(m))
  BY Now, QueueRest DEF Rest, QueueGood
<1>3. Fits(q, Rest(m) (+) One(n))
  BY <1>1, <1>2, FitsSend
<1> QED BY <1>1, <1>2, <1>3, Now, QueueAdd DEF IInv, Types

LEMMA EventGood == ASSUME IInv, Event PROVE events' \in 0 .. MaxEvents
  BY Now, BoundAssumption DEF Event, ServerGood

LEMMA ServerSame ==
    ASSUME IInv, UNCHANGED server, Event \/ UNCHANGED events
    PROVE  ServerGood'
  BY Now, EventGood DEF ServerGood, server

-----------------------------------------------------------------------------
(* The scout.                                                              *)

LEMMA UseCellStep ==
    ASSUME IInv, UseCell
    PROVE  IInv'
<1>1. ServerGood'
  BY ServerSame DEF UseCell
<1>2. ASSUME NEW id \in Row \cup {None}, NEW draft \in BOOLEAN, draft => id \in Row,
             id # None => page.view = "sheet"
      PROVE  LET q == [page EXCEPT !.cell = id, !.draft = draft] IN
             q \in Page /\ SameTab(page, q) /\ Typed(q) /\ Shows(q)
  BY <1>2, Now DEF Page, SameTab, Typed, SheetHasFocus, Shows
<1>3. PICK id \in Row \cup {None}, draft \in BOOLEAN :
         /\ (draft => id \in Row) /\ (id # None => page.view = "sheet")
         /\ page' = [page EXCEPT !.cell = id, !.draft = draft]
  <2>1. CASE \E id \in Row : OnRow(id) /\ page' = [page EXCEPT !.cell = id]
    <3>1. page.draft = FALSE /\ page.view = "sheet"
      BY <2>1, Now DEF OnRow, OnSheet, Page
    <3>2. \A id : [page EXCEPT !.cell = id] = [page EXCEPT !.cell = id, !.draft = FALSE]
      BY <3>1, Now DEF Page
    <3> QED BY <2>1, <3>1, <3>2
  <2>2. CASE page.cell \in Row /\ page' = [page EXCEPT !.draft = TRUE]
    <3>1. page.cell \in Row /\ page.view = "sheet"
      BY <2>2, Now, NoneAssumption DEF Page, Typed
    <3>2. [page EXCEPT !.draft = TRUE] = [page EXCEPT !.cell = page.cell, !.draft = TRUE]
      BY Now DEF Page
    <3> QED BY <2>2, <3>1, <3>2
  <2>3. CASE ~page.draft /\ page' = [page EXCEPT !.cell = None]
    <3>1. page.draft = FALSE
      BY <2>3, Now DEF Page
    <3>2. [page EXCEPT !.cell = None] = [page EXCEPT !.cell = None, !.draft = FALSE]
      BY <3>1, Now DEF Page
    <3> QED BY <2>3, <3>2
  <2> QED BY <2>1, <2>2, <2>3 DEF UseCell
<1> PICK q : q = [page EXCEPT !.cell = id, !.draft = draft]
  OBVIOUS
<1>4. q \in Page /\ SameTab(page, q) /\ Typed(q) /\ Shows(q)
  BY <1>2, <1>3
<1>5. net' = net
  BY DEF UseCell
<1> QED BY <1>1, <1>3, <1>4, <1>5, Now, SameFits, PageStep

LEMMA ChangeStep ==
    ASSUME IInv, Change
    PROVE  IInv'
<1>1. PICK link \in BOOLEAN, cell \in {page.cell, None} :
         /\ Send([Request("save", page.cell) EXCEPT !.link = link])
         /\ page' = [page EXCEPT !.draft = FALSE, !.cell = cell]
  BY DEF Change
<1> PICK m : m = [Request("save", page.cell) EXCEPT !.link = link]
  OBVIOUS
<1> PICK q : q = [page EXCEPT !.draft = FALSE, !.cell = cell]
  OBVIOUS
<1>2. m \in Message /\ Proper(m) /\ m.kind = "save"
  <2>1. page.cell \in Row /\ "save" \in Kind
    BY Now DEF Change, Page, Kind, Typed, SheetHasFocus
  <2> QED BY <2>1, RequestGood
<1>3. q \in Page /\ SameTab(page, q) /\ Typed(q) /\ Shows(q)
  BY Now DEF Page, SameTab, Typed, SheetHasFocus, Shows
<1>4. page.view = "sheet"
  BY Now, NoneAssumption DEF Change, Typed, SheetHasFocus
<1>5. Fits(q, net (+) One(m))
  BY <1>2, <1>3, <1>4, Now, FitsSend DEF SameTab
<1> QED BY <1>1, <1>2, <1>3, <1>5, ServerSame, SendStep DEF Change

LEMMA RenderStep ==
    ASSUME IInv, page' = Render(page), UNCHANGED <<net, server, events>>
    PROVE  IInv'
<1> PICK q : q = Render(page)
  OBVIOUS
<1>1. q \in Page /\ SameTab(page, q) /\ Typed(q) /\ Shows(q)
  BY Now, RenderGood
<1> QED BY <1>1, Now, SameFits, ServerSame, PageStep

LEMMA ChangeUnsentStep ==
    ASSUME IInv, ChangeUnsent
    PROVE  IInv'
<1>1. CASE page' = Render(page)
  BY <1>1, RenderStep DEF ChangeUnsent
<1>2. CASE page' = [page EXCEPT !.draft = FALSE, !.cell = None]
  <2> PICK q : q = [page EXCEPT !.draft = FALSE, !.cell = None]
    OBVIOUS
  <2>1. q \in Page /\ SameTab(page, q) /\ Typed(q) /\ Shows(q)
    BY Now DEF Page, SameTab, Typed, Shows
  <2> QED BY <1>2, <2>1, Now, SameFits, ServerSame, PageStep DEF ChangeUnsent
<1> QED BY <1>1, <1>2 DEF ChangeUnsent

\* A button that waits for its request, and the page drawn anew.
LEMMA ClickStep ==
    ASSUME IInv, NEW s \in Page, NEW kind \in Kind, page' = Render(s), Send(Request(kind, None)),
           Fits(s, net (+) One(Request(kind, None))), ServerGood'
    PROVE  IInv'
<1> PICK q : q = Render(s)
  OBVIOUS
<1> PICK m : m = Request(kind, None)
  OBVIOUS
<1>1. q \in Page /\ SameTab(s, q) /\ Typed(q) /\ Shows(q)
  BY RenderGood
<1>2. m \in Message /\ Proper(m)
  BY PlainRequest
<1>3. Fits(q, net (+) One(m))
  BY <1>1, SameFits
<1> QED BY <1>1, <1>2, <1>3, SendStep

LEMMA AddStep ==
    ASSUME IInv, Add
    PROVE  IInv'
<1> PICK s : s = [page EXCEPT !.adding = TRUE]
  OBVIOUS
<1>1. /\ s \in Page /\ s.view = page.view /\ s.timer = page.timer /\ s.adding
      /\ s.loggingIn = page.loggingIn /\ s.igSaving = page.igSaving
  BY Now DEF Page
<1> PICK m : m = Request("add", None)
  OBVIOUS
<1>2. m.kind = "add" /\ "add" \in Kind
  BY DEF Request, Kind
<1>3. page.view = "sheet" /\ ~page.adding
  BY DEF Add, OnSheet
<1>4. Fits(s, net (+) One(m))
  BY <1>1, <1>2, <1>3, Now, FitsSend
<1> QED BY <1>1, <1>2, <1>4, ServerSame, ClickStep DEF Add

LEMMA UseFormStep ==
    ASSUME IInv, UseForm
    PROVE  IInv'
<1>1. page.view = "sheet" /\ ~page.draft /\ ServerGood'
  BY ServerSame DEF UseForm, OnSheet
<1>2. PICK q \in Page : page' = q /\ SameTab(page, q) /\ Typed(q) /\ Shows(q)
  <2>1. CASE page' = Render([page EXCEPT !.form = ~@])
    <3> PICK s : s = [page EXCEPT !.form = ~@]
      OBVIOUS
    <3>1. s \in Page /\ SameTab(page, s)
      BY Now DEF Page, SameTab
    <3> PICK q : q = Render(s)
      OBVIOUS
    <3>2. q \in Page /\ SameTab(s, q) /\ Typed(q) /\ Shows(q)
      BY <3>1, RenderGood
    <3> QED BY <2>1, <3>1, <3>2 DEF SameTab
  <2>2. CASE page' = [page EXCEPT !.cell = Handle]
    <3> PICK q : q = [page EXCEPT !.cell = Handle]
      OBVIOUS
    <3>1. q \in Page /\ SameTab(page, q) /\ Typed(q) /\ Shows(q)
      BY <1>1, Now DEF Page, SameTab, Typed, SheetHasFocus, Shows
    <3> QED BY <2>2, <3>1
  <2>3. CASE page' = [page EXCEPT !.text = TRUE]
    <3> PICK q : q = [page EXCEPT !.text = TRUE]
      OBVIOUS
    <3>1. q \in Page /\ SameTab(page, q) /\ Typed(q) /\ Shows(q)
      BY <1>1, Now DEF Page, SameTab, Typed, SheetHasFocus, Shows
    <3> QED BY <2>3, <3>1
  <2> QED BY <2>1, <2>2, <2>3 DEF UseForm
<1>3. net' = net
  BY DEF UseForm
<1> QED BY <1>1, <1>2, <1>3, Now, SameFits, PageStep

LEMMA IgSaveStep ==
    ASSUME IInv, IgSave
    PROVE  IInv'
<1> PICK s : s = [page EXCEPT !.igSaving = TRUE]
  OBVIOUS
<1>1. /\ s \in Page /\ s.view = page.view /\ s.timer = page.timer /\ s.igSaving
      /\ s.loggingIn = page.loggingIn /\ s.adding = page.adding
  BY Now DEF Page
<1> PICK m : m = Request("ig", None)
  OBVIOUS
<1>2. m.kind = "ig" /\ "ig" \in Kind
  BY DEF Request, Kind
<1>3. page.view = "sheet" /\ ~page.igSaving
  BY DEF IgSave, OnSheet
<1>4. Fits(s, net (+) One(m))
  BY <1>1, <1>2, <1>3, Now, FitsSend
<1> QED BY <1>1, <1>2, <1>4, ServerSame, ClickStep DEF IgSave

LEMMA LoginStep ==
    ASSUME IInv, Login
    PROVE  IInv'
<1> PICK s : s = [page EXCEPT !.loggingIn = TRUE]
  OBVIOUS
<1>1. /\ s \in Page /\ s.view = page.view /\ s.timer = page.timer /\ s.loggingIn
      /\ s.igSaving = page.igSaving /\ s.adding = page.adding
  BY Now DEF Page
<1> PICK m : m = Request("login", None)
  OBVIOUS
<1>2. m.kind = "login" /\ "login" \in Kind
  BY DEF Request, Kind
<1>3. page.view = "login" /\ ~page.loggingIn
  BY DEF Login
<1>4. Fits(s, net (+) One(m))
  BY <1>1, <1>2, <1>3, Now, FitsSend
<1> QED BY <1>1, <1>2, <1>4, ServerSame, ClickStep DEF Login

\* A request that no button waits for; the focus goes to a row or away.
LEMMA FocusStep ==
    ASSUME IInv, page.view = "sheet", ~page.draft, NEW cell \in Row \cup {None},
           page' = [page EXCEPT !.cell = cell],
           NEW kind \in {"delete", "logout"}, NEW id \in Row \cup {None},
           Send(Request(kind, id)), ServerGood'
    PROVE  IInv'
<1> PICK q : q = [page EXCEPT !.cell = cell]
  OBVIOUS
<1> PICK m : m = Request(kind, id)
  OBVIOUS
<1>1. q \in Page /\ SameTab(page, q) /\ Typed(q) /\ Shows(q)
  BY Now DEF Page, SameTab, Typed, Shows
<1>2. m \in Message /\ Proper(m) /\ m.kind = kind
  BY PlainRequest DEF Kind
<1>3. Fits(q, net (+) One(m))
  BY <1>1, <1>2, Now, FitsSend DEF SameTab
<1> QED BY <1>1, <1>2, <1>3, SendStep

LEMMA DeleteStep ==
    ASSUME IInv, NEW id \in Row, Delete(id)
    PROVE  IInv'
  BY ServerSame, FocusStep DEF Delete, OnRow, OnSheet

LEMMA LogoutStep ==
    ASSUME IInv, Logout
    PROVE  IInv'
  BY ServerSame, FocusStep DEF Logout, OnSheet

LEMMA RepaintStep ==
    ASSUME IInv, Repaint
    PROVE  IInv'
  BY RenderStep DEF Repaint

\* A poll may be sent with the sheet on the screen.
LEMMA PollingStep ==
    ASSUME IInv, NEW q \in Page, page' = q, SameTab(page, q) \/ q = [page EXCEPT !.hidden = ~@],
           q.view = page.view, Typed(q), Shows(q),
           UNCHANGED net \/ (page.view = "sheet" /\ Send(Request("poll", None))), ServerGood'
    PROVE  IInv'
<1> PICK m : m = Request("poll", None)
  OBVIOUS
<1>1. m \in Message /\ Proper(m) /\ m.kind = "poll"
  BY PlainRequest DEF Kind
<1>2. /\ q.view = page.view /\ q.timer = page.timer /\ q.adding = page.adding
      /\ q.loggingIn = page.loggingIn /\ q.igSaving = page.igSaving
  BY Now DEF SameTab, Page
<1>3. CASE UNCHANGED net
  BY <1>2, <1>3, Now, FitsSame, PageStep
<1>4. CASE page.view = "sheet" /\ Send(Request("poll", None))
  <2>1. Fits(q, net (+) One(m))
    BY <1>1, <1>2, <1>4, Now, FitsSend
  <2> QED BY <1>1, <1>4, <2>1, SendStep
<1> QED BY <1>3, <1>4

LEMMA PollStep ==
    ASSUME IInv, Poll
    PROVE  IInv'
<1>1. SameTab(page, page) /\ page' = page /\ page.view = "sheet" /\ Send(Request("poll", None))
  BY DEF SameTab, Poll, Polling
<1>2. ServerGood'
  BY ServerSame DEF Poll
<1> QED BY <1>1, <1>2, Now, PollingStep

LEMMA VisibilityStep ==
    ASSUME IInv, Visibility
    PROVE  IInv'
<1> PICK q : q = [page EXCEPT !.hidden = ~@]
  OBVIOUS
<1>1. q \in Page /\ q.view = page.view /\ Typed(q) /\ Shows(q)
  <2>1. (~page.hidden) \in BOOLEAN
    OBVIOUS
  <2> QED BY <2>1, Now DEF Page, Typed, SheetHasFocus, Shows
<1>2. page' = q
  BY DEF Visibility
<1>3. UNCHANGED net \/ (page.view = "sheet" /\ Send(Request("poll", None)))
  BY <1>1 DEF Visibility, Polling
<1>4. ServerGood'
  BY ServerSame DEF Visibility
<1> QED BY <1>1, <1>2, <1>3, <1>4, PollingStep

-----------------------------------------------------------------------------
(* The server.                                                             *)

LEMMA AnsweredGood ==
    ASSUME NEW m \in Message, NEW a \in Reply
    PROVE  LET n == [m EXCEPT !.answer = a] IN
           n \in Message /\ n.kind = m.kind /\ n.answer = a /\ n.entry = m.entry
  BY DEF Message

LEMMA ServeReadStep ==
    ASSUME IInv, NEW m \in BagToSet(net), ServeRead(m)
    PROVE  IInv'
<1>1. m \in Message /\ Proper(m) /\ db \in Seq(Entry)
  BY Now DEF ServerGood
<1>2. ServerGood' /\ UNCHANGED page
  BY ServerSame DEF ServeRead
<1>3. PICK n \in Message : Proper(n) /\ n.kind = m.kind /\ Answer(m, n)
  <2>1. CASE m.kind = "session"
    <3>1. PICK a \in {"ok", "none", "admin"} : Answer(m, [m EXCEPT !.answer = a])
      BY <2>1 DEF ServeRead
    <3>2. a \in Reply
      BY DEF Reply
    <3> PICK n : n = [m EXCEPT !.answer = a]
      OBVIOUS
    <3>3. n \in Message /\ n.kind = m.kind
      BY <1>1, <3>2, AnsweredGood
    <3>4. Proper(n)
      BY <2>1, <3>3 DEF Proper
    <3> QED BY <3>1, <3>3, <3>4
  <2>2. CASE m.kind \in {"rows", "poll"} /\ session
    <3> PICK n : n = [m EXCEPT !.answer = "ok", !.list = db]
      OBVIOUS
    <3>1. n \in Message /\ n.kind = m.kind /\ n.answer = "ok"
      BY <1>1 DEF Message, Reply
    <3>2. Proper(n)
      BY <2>2, <3>1 DEF Proper
    <3>3. Answer(m, n)
      BY <2>2 DEF ServeRead
    <3> QED BY <3>1, <3>2, <3>3
  <2>3. CASE m.kind \in {"rows", "poll"} /\ ~session
    <3> PICK n : n = [m EXCEPT !.answer = "401"]
      OBVIOUS
    <3>1. n \in Message /\ n.kind = m.kind /\ n.answer = "401"
      BY <1>1 DEF Message, Reply
    <3>2. Proper(n)
      BY <2>3, <3>1 DEF Proper
    <3>3. Answer(m, n)
      BY <2>3 DEF ServeRead
    <3> QED BY <3>1, <3>2, <3>3
  <2> QED BY <2>1, <2>2, <2>3 DEF ServeRead
<1> QED BY <1>2, <1>3, AnswerStep

LEMMA ServeAuthStep ==
    ASSUME IInv, NEW m \in BagToSet(net), ServeAuth(m)
    PROVE  IInv'
<1>1. m \in Message
  BY Now
<1>2. PICK a \in {"ok", "admin", "error"} :
         /\ Answer(m, [m EXCEPT !.answer = a])
         /\ session' = ((m.kind = "login" /\ a = "ok") \/ (a = "error" /\ session))
  BY DEF ServeAuth
<1> PICK n : n = [m EXCEPT !.answer = a]
  OBVIOUS
<1>3. n \in Message /\ n.kind = m.kind
  <2>1. a \in Reply
    BY DEF Reply
  <2> QED BY <1>1, <2>1, AnsweredGood
<1>4. Proper(n)
  BY <1>3 DEF Proper, ServeAuth
<1>5. session' \in BOOLEAN
  BY <1>2
<1>6. ServerGood' /\ UNCHANGED page
  BY <1>5, Now DEF ServerGood, ServeAuth
<1> QED BY <1>2, <1>3, <1>4, <1>6, AnswerStep

LEMMA AppendGood ==
    ASSUME IInv, Append1
    PROVE  NewRow \in Entry /\ db' \in Seq(Entry) /\ last' \in 0 .. MaxRows
<1>1. NewRow \in Entry
  BY Now, VerdictAssumption, BoundAssumption DEF NewRow, Entry, Row, Append1, ServerGood
<1>2. db' \in Seq(Entry)
  BY <1>1, Now DEF Append1, ServerGood
<1> QED BY <1>1, <1>2, Now, BoundAssumption DEF Append1, ServerGood

LEMMA EntryGood ==
    ASSUME IInv, NEW id, Has(id)
    PROVE  EntryOf(id) \in Entry
<1>1. (CHOOSE i \in DOMAIN db : db[i].id = id) \in DOMAIN db
  BY DEF Has
<1>2. db \in Seq(Entry)
  BY Now DEF ServerGood
<1> QED BY <1>1, <1>2 DEF EntryOf

LEMMA ServeWriteStep ==
    ASSUME IInv, NEW m \in BagToSet(net), ServeWrite(m)
    PROVE  IInv'
<1>1. m \in Message /\ Proper(m) /\ db \in Seq(Entry) /\ last \in 0 .. MaxRows
  BY Now DEF ServerGood
<1>2. session' \in BOOLEAN /\ events' \in 0 .. MaxEvents /\ UNCHANGED page
  BY Now DEF ServeWrite, ServerGood
<1>3. CASE m.kind = "add" /\ Append1 /\ Answer(m, [m EXCEPT !.answer = "ok", !.entry = NewRow])
  <2> PICK n : n = [m EXCEPT !.answer = "ok", !.entry = NewRow]
    OBVIOUS
  <2>1. NewRow \in Entry /\ ServerGood'
    BY <1>2, <1>3, AppendGood DEF ServerGood
  <2>2. n \in Message /\ n.kind = m.kind /\ n.answer = "ok" /\ n.entry \in Entry
    BY <1>1, <2>1 DEF Message, Reply
  <2>3. Proper(n)
    BY <1>3, <2>2 DEF Proper
  <2> QED BY <1>2, <1>3, <2>1, <2>2, <2>3, AnswerStep
<1>4. CASE /\ m.kind = "delete" /\ db' = Without(db, m.id)
           /\ Answer(m, [m EXCEPT !.answer = "ok"]) /\ UNCHANGED last
  <2> PICK n : n = [m EXCEPT !.answer = "ok"]
    OBVIOUS
  <2>1. ServerGood'
    BY <1>1, <1>2, <1>4, WithoutGood DEF ServerGood
  <2>2. n \in Message /\ n.kind = m.kind /\ n.answer = "ok"
    BY <1>1, AnsweredGood DEF Reply
  <2>3. Proper(n)
    BY <1>4, <2>2 DEF Proper
  <2> QED BY <1>2, <1>4, <2>1, <2>2, <2>3, AnswerStep
<1>5. CASE /\ m.kind = "save" /\ Has(m.id) /\ UNCHANGED <<db, last>>
           /\ \E a \in {"ok", "more"} : Answer(m, [m EXCEPT !.answer = a, !.entry = EntryOf(m.id)])
  <2>1. PICK a \in {"ok", "more"} : Answer(m, [m EXCEPT !.answer = a, !.entry = EntryOf(m.id)])
    BY <1>5
  <2> PICK n : n = [m EXCEPT !.answer = a, !.entry = EntryOf(m.id)]
    OBVIOUS
  <2>2. EntryOf(m.id) \in Entry /\ ServerGood'
    BY <1>1, <1>2, <1>5, EntryGood DEF ServerGood
  <2>3. n \in Message /\ n.kind = m.kind /\ n.answer = a /\ n.entry \in Entry
    BY <1>1, <2>2 DEF Message, Reply
  <2>4. Proper(n)
    BY <1>5, <2>3 DEF Proper
  <2> QED BY <1>2, <2>1, <2>2, <2>3, <2>4, AnswerStep
<1>6. CASE /\ m.kind = "ig"
           /\ \/ Answer(m, [m EXCEPT !.answer = "ok"]) /\ UNCHANGED <<db, last>>
              \/ Answer(m, [m EXCEPT !.answer = "more"]) /\ Append1
  <2>1. PICK a \in {"ok", "more"} :
           Answer(m, [m EXCEPT !.answer = a]) /\ (UNCHANGED <<db, last>> \/ Append1)
    BY <1>6
  <2> PICK n : n = [m EXCEPT !.answer = a]
    OBVIOUS
  <2>2. ServerGood'
    BY <1>1, <1>2, <2>1, AppendGood DEF ServerGood
  <2>3. n \in Message /\ n.kind = m.kind /\ n.answer = a
    <3>1. a \in Reply
      BY DEF Reply
    <3> QED BY <1>1, <3>1, AnsweredGood
  <2>4. Proper(n)
    BY <1>6, <2>3 DEF Proper
  <2> QED BY <1>2, <2>1, <2>2, <2>3, <2>4, AnswerStep
<1> QED BY <1>3, <1>4, <1>5, <1>6 DEF ServeWrite

\* An answer that carries nothing.
LEMMA BareAnswer ==
    ASSUME IInv, NEW m \in BagToSet(net), NEW a \in {"error", "401"},
           Answer(m, [m EXCEPT !.answer = a]), UNCHANGED page, ServerGood'
    PROVE  IInv'
<1>1. m \in Message
  BY Now
<1> PICK n : n = [m EXCEPT !.answer = a]
  OBVIOUS
<1>2. n \in Message /\ n.kind = m.kind /\ n.answer = a
  <2>1. a \in Reply
    BY DEF Reply
  <2> QED BY <1>1, <2>1, AnsweredGood
<1>3. Proper(n)
  BY <1>2 DEF Proper
<1> QED BY <1>2, <1>3, AnswerStep

LEMMA RefuseStep ==
    ASSUME IInv, NEW m \in BagToSet(net), Refuse(m)
    PROVE  IInv'
  BY ServerSame, BareAnswer DEF Refuse

LEMMA FailStep ==
    ASSUME IInv, NEW m \in BagToSet(net), Fail(m)
    PROVE  IInv'
  BY ServerSame, BareAnswer DEF Fail

LEMMA ElsewhereStep ==
    ASSUME IInv, Elsewhere
    PROVE  IInv'
<1>1. db \in Seq(Entry) /\ last \in 0 .. MaxRows
  BY Now DEF ServerGood
<1>2. db' \in Seq(Entry) /\ last' \in 0 .. MaxRows
  <2>1. CASE /\ \E i \in DOMAIN db, v \in Verdict : db' = [db EXCEPT ![i].verdict = v]
             /\ UNCHANGED last
    <3>1. PICK i \in DOMAIN db, v \in Verdict : db' = [db EXCEPT ![i].verdict = v]
      BY <2>1
    <3>2. db[i] \in Entry
      BY <1>1
    <3>3. [db[i] EXCEPT !.verdict = v] \in Entry
      BY <3>2 DEF Entry
    <3>4. db' = [db EXCEPT ![i] = [db[i] EXCEPT !.verdict = v]]
      BY <3>1
    <3> QED BY <1>1, <2>1, <3>3, <3>4
  <2>2. CASE \E i \in DOMAIN db : db' = Without(db, db[i].id) /\ UNCHANGED last
    BY <1>1, <2>2, WithoutGood
  <2>3. CASE Append1
    BY <2>3, AppendGood
  <2> QED BY <1>1, <2>1, <2>2, <2>3 DEF Elsewhere
<1>3. ServerGood' /\ UNCHANGED <<page, net>>
  BY <1>2, Now, EventGood DEF ServerGood, Elsewhere
<1> QED BY <1>3, Now, PageStep

LEMMA ExpireStep ==
    ASSUME IInv, Expire
    PROVE  IInv'
<1>1. ServerGood' /\ UNCHANGED <<page, net>>
  BY Now, EventGood DEF ServerGood, Expire
<1> QED BY <1>1, Now, PageStep

-----------------------------------------------------------------------------
(* The answers.                                                            *)

LEMMA Handled ==
    ASSUME IInv, NEW m \in BagToSet(net), NEW kinds, Answered(m, kinds)
    PROVE  /\ m \in Message /\ Proper(m) /\ m.kind \in kinds /\ m.answer \in Reply
           /\ page.view # "left" /\ (m.kind # "session" => page.view # "loading")
<1>1. m \in Message /\ Proper(m) /\ Entrance(page, net)
  BY Now DEF Fits
<1> QED BY <1>1 DEF Answered, Message, Entrance

\* The page after an answer that is not a sign-in.
LEMMA RestStep ==
    ASSUME IInv, NEW m \in BagToSet(net), NEW q \in Page, page' = q, Typed(q), Shows(q),
           net' = Rest(m), ServerGood', m.kind \notin {"session", "login", "ig"},
           IF m.kind = "add" THEN ~q.adding ELSE q.adding = page.adding,
           q.loggingIn = page.loggingIn, q.igSaving = page.igSaving,
           \/ q.view = page.view /\ q.timer = page.timer
           \/ q.view = "login" /\ ~q.timer
    PROVE  IInv'
<1>1. Fits(q, Rest(m))
  BY Now, FitsHandle DEF Rest
<1> QED BY <1>1, HandleStep

LEMMA SignedOutStep ==
    ASSUME IInv, NEW m \in BagToSet(net), NEW p \in Page, page' = SignedOut(p),
           net' = Rest(m), ServerGood', m.kind \notin {"session", "login", "ig"},
           IF m.kind = "add" THEN ~p.adding ELSE p.adding = page.adding,
           p.loggingIn = page.loggingIn, p.igSaving = page.igSaving
    PROVE  IInv'
<1> PICK q : q = SignedOut(p)
  OBVIOUS
<1>1. /\ q \in Page /\ q.view = "login" /\ ~q.timer /\ q.adding = p.adding
      /\ q.igSaving = p.igSaving /\ q.loggingIn = p.loggingIn /\ Typed(q) /\ Shows(q)
  BY SignedOutGood
<1> QED BY <1>1, RestStep

LEMMA RenderedStep ==
    ASSUME IInv, NEW m \in BagToSet(net), NEW p \in Page, page' = Render(p),
           net' = Rest(m), ServerGood', m.kind \notin {"session", "login", "ig", "add"},
           SameTab(page, p)
    PROVE  IInv'
<1> PICK q : q = Render(p)
  OBVIOUS
<1>1. q \in Page /\ SameTab(p, q) /\ Typed(q) /\ Shows(q)
  BY RenderGood
<1> QED BY <1>1, RestStep DEF SameTab

LEMMA EnterAnswerStep ==
    ASSUME IInv, NEW m \in BagToSet(net), EnterAnswer(m)
    PROVE  IInv'
<1>1. m \in Message /\ m.kind \in {"session", "login"}
  BY Handled DEF EnterAnswer
<1>2. ServerGood'
  BY ServerSame DEF EnterAnswer
<1>3. CASE /\ page' = Render([page EXCEPT !.view = "left"])
           /\ net' = EmptyBag
  <2> PICK s : s = [page EXCEPT !.view = "left"]
    OBVIOUS
  <2>1. s \in Page /\ s.view = "left"
    BY Now DEF Page
  <2> PICK q : q = Render(s)
    OBVIOUS
  <2>2. q \in Page /\ q.view = "left" /\ Typed(q) /\ Shows(q)
    BY <2>1, RenderGood DEF SameTab
  <2>3. IsABag(EmptyBag) /\ BagToSet(EmptyBag) = {}
    BY SetBag DEF EmptyBag
  <2>4. QueueGood(EmptyBag)
    BY <2>3 DEF QueueGood
  <2>5. Fits(q, EmptyBag)
    BY <2>2, <2>3 DEF Fits, Entrance, InFlight
  <2> QED BY <1>2, <1>3, <2>2, <2>4, <2>5 DEF IInv, Types
<1>4. CASE /\ page' = Render([page EXCEPT !.view = "sheet", !.timer = TRUE, !.loggingIn = FALSE])
           /\ net' = Rest(m) (+) One(Request("rows", None))
  <2> PICK s : s = [page EXCEPT !.view = "sheet", !.timer = TRUE, !.loggingIn = FALSE]
    OBVIOUS
  <2>1. /\ s \in Page /\ s.view = "sheet" /\ s.timer /\ ~s.loggingIn
        /\ s.adding = page.adding /\ s.igSaving = page.igSaving
    BY Now DEF Page
  <2> PICK q : q = Render(s)
    OBVIOUS
  <2>2. /\ q \in Page /\ q.view = "sheet" /\ q.timer /\ ~q.loggingIn /\ Typed(q) /\ Shows(q)
        /\ q.adding = page.adding /\ q.igSaving = page.igSaving
    BY <2>1, RenderGood DEF SameTab
  <2>3. Fits(q, Rest(m))
    BY <1>1, <2>2, Now, FitsHandle DEF Rest
  <2> QED BY <1>2, <1>4, <2>2, <2>3, HandleMore
<1>5. CASE /\ page' = Render([page EXCEPT !.view = "login", !.loggingIn = FALSE])
           /\ net' = Rest(m)
  <2> PICK s : s = [page EXCEPT !.view = "login", !.loggingIn = FALSE]
    OBVIOUS
  <2>1. /\ s \in Page /\ s.view = "login" /\ s.timer = page.timer /\ ~s.loggingIn
        /\ s.adding = page.adding /\ s.igSaving = page.igSaving
    BY Now DEF Page
  <2> PICK q : q = Render(s)
    OBVIOUS
  <2>2. /\ q \in Page /\ q.view = "login" /\ q.timer = page.timer /\ ~q.loggingIn
        /\ q.adding = page.adding /\ q.igSaving = page.igSaving /\ Typed(q) /\ Shows(q)
    BY <2>1, RenderGood DEF SameTab
  <2>3. Fits(q, Rest(m))
    BY <1>1, <2>2, Now, FitsHandle DEF Rest
  <2> QED BY <1>2, <1>5, <2>2, <2>3, HandleStep
<1> QED BY <1>3, <1>4, <1>5 DEF EnterAnswer, Enter

LEMMA LogoutAnswerStep ==
    ASSUME IInv, NEW m \in BagToSet(net), LogoutAnswer(m)
    PROVE  IInv'
<1>1. m.kind = "logout"
  BY Handled DEF LogoutAnswer
<1> QED BY <1>1, Now, ServerSame, SignedOutStep DEF LogoutAnswer

LEMMA LoadAnswerStep ==
    ASSUME IInv, NEW m \in BagToSet(net), LoadAnswer(m)
    PROVE  IInv'
<1>1. /\ m.kind = "rows" /\ m.list \in Seq(Entry) /\ m.answer \in {"ok", "error", "401"}
      /\ net' = Rest(m)
  <2>1. m \in Message /\ Proper(m) /\ m.kind = "rows" /\ m.answer # None
    BY Handled DEF LoadAnswer, Answered
  <2> QED BY <2>1 DEF Message, Proper, LoadAnswer
<1>2. ServerGood'
  BY ServerSame DEF LoadAnswer
<1>3. CASE m.answer = "401"
  BY <1>1, <1>2, <1>3, Now, SignedOutStep DEF LoadAnswer
<1>4. CASE m.answer = "ok"
  <2> PICK p : p = [page EXCEPT !.rows = m.list, !.loadError = FALSE]
    OBVIOUS
  <2>1. p \in Page /\ SameTab(page, p)
    BY <1>1, Now DEF Page, SameTab
  <2>2. page' = Render(p)
    BY <1>4 DEF LoadAnswer
  <2> QED BY <1>1, <1>2, <2>1, <2>2, RenderedStep
<1>5. CASE m.answer = "error"
  <2> PICK p : p = [page EXCEPT !.loadError = TRUE]
    OBVIOUS
  <2>1. p \in Page /\ SameTab(page, p)
    BY Now DEF Page, SameTab
  <2>2. page' = Render(p)
    BY <1>5 DEF LoadAnswer
  <2> QED BY <1>1, <1>2, <2>1, <2>2, RenderedStep
<1> QED BY <1>1, <1>3, <1>4, <1>5

LEMMA PollAnswerStep ==
    ASSUME IInv, NEW m \in BagToSet(net), PollAnswer(m)
    PROVE  IInv'
<1>1. /\ m.kind = "poll" /\ m.list \in Seq(Entry) /\ m.answer \in {"ok", "error", "401"}
      /\ net' = Rest(m)
  <2>1. m \in Message /\ Proper(m) /\ m.kind = "poll" /\ m.answer # None
    BY Handled DEF PollAnswer, Answered
  <2> QED BY <2>1 DEF Message, Proper, PollAnswer
<1>2. ServerGood'
  BY ServerSame DEF PollAnswer
<1>3. CASE m.answer = "401"
  BY <1>1, <1>2, <1>3, Now, SignedOutStep DEF PollAnswer
<1>4. CASE m.answer \in {"ok", "error"}
  <2>1. PICK q \in Page : page' = q /\ SameTab(page, q) /\ Typed(q) /\ Shows(q)
    <3>1. CASE m.answer = "ok"
      BY <1>1, <3>1, Now, ApplyGood DEF PollAnswer
    <3>2. CASE m.answer = "error"
      BY <3>2, Now DEF PollAnswer, SameTab
    <3> QED BY <1>4, <3>1, <3>2
  <2> QED BY <1>1, <1>2, <2>1, RestStep DEF SameTab
<1> QED BY <1>1, <1>3, <1>4

LEMMA AddAnswerStep ==
    ASSUME IInv, NEW m \in BagToSet(net), AddAnswer(m)
    PROVE  IInv'
<1>1. /\ m.kind = "add" /\ m.answer \in {"ok", "error", "401"} /\ net' = Rest(m)
      /\ m.answer = "ok" => m.entry \in Entry
  <2>1. m \in Message /\ Proper(m) /\ m.kind = "add" /\ m.answer # None
    BY Handled DEF AddAnswer, Answered
  <2> QED BY <2>1 DEF Message, Proper, AddAnswer
<1>2. ServerGood'
  BY ServerSame DEF AddAnswer
<1> PICK p : p = [page EXCEPT !.adding = FALSE]
  OBVIOUS
<1>3. /\ p \in Page /\ p.view = page.view /\ p.timer = page.timer /\ ~p.adding
      /\ p.loggingIn = page.loggingIn /\ p.igSaving = page.igSaving
  BY Now DEF Page
<1>4. CASE m.answer = "401"
  <2>1. page' = SignedOut(p)
    BY <1>4 DEF AddAnswer
  <2> QED BY <1>1, <1>2, <1>3, <2>1, SignedOutStep
<1>5. CASE m.answer \in {"ok", "error"}
  <2>1. PICK q \in Page : page' = q /\ SameTab(p, q) /\ Typed(q) /\ Shows(q)
    <3>1. CASE m.answer = "ok"
      <4> PICK s : s = [p EXCEPT !.rows = Append(@, m.entry)]
        OBVIOUS
      <4>1. s \in Page /\ SameTab(p, s)
        <5>1. Append(p.rows, m.entry) \in Seq(Entry)
          BY <1>1, <1>3, <3>1 DEF Page
        <5> QED BY <1>3, <5>1, WithRows
      <4> PICK r : r = Render(s)
        OBVIOUS
      <4>2. r \in Page /\ SameTab(s, r) /\ ~r.draft /\ Typed(r) /\ Shows(r)
        BY <4>1, RenderGood
      <4> PICK q : q = FocusLast(r)
        OBVIOUS
      <4>3. q \in Page /\ SameTab(r, q) /\ Typed(q) /\ Shows(q)
        BY <4>2, FocusGood
      <4>4. page' = q
        BY <3>1 DEF AddAnswer
      <4> QED BY <4>1, <4>2, <4>3, <4>4 DEF SameTab
    <3>2. CASE m.answer = "error"
      BY <1>3, <3>2, RenderGood DEF AddAnswer
    <3> QED BY <1>5, <3>1, <3>2
  <2> QED BY <1>1, <1>2, <1>3, <2>1, RestStep DEF SameTab
<1> QED BY <1>1, <1>4, <1>5

LEMMA DeleteAnswerStep ==
    ASSUME IInv, NEW m \in BagToSet(net), DeleteAnswer(m)
    PROVE  IInv'
<1>1. m.kind = "delete" /\ m.answer \in {"ok", "error", "401"} /\ net' = Rest(m)
  <2>1. m \in Message /\ Proper(m) /\ m.kind = "delete" /\ m.answer # None
    BY Handled DEF DeleteAnswer, Answered
  <2> QED BY <2>1 DEF Message, Proper, DeleteAnswer
<1>2. ServerGood'
  BY ServerSame DEF DeleteAnswer
<1>3. CASE m.answer = "401"
  BY <1>1, <1>2, <1>3, Now, SignedOutStep DEF DeleteAnswer
<1>4. CASE m.answer = "ok"
  <2> PICK p : p = [page EXCEPT !.rows = Without(@, m.id)]
    OBVIOUS
  <2>1. p \in Page /\ SameTab(page, p)
    <3>1. Without(page.rows, m.id) \in Seq(Entry)
      BY Now, WithoutGood DEF Page
    <3> QED BY <3>1, Now, WithRows
  <2>2. page' = Render(p)
    BY <1>4 DEF DeleteAnswer
  <2> QED BY <1>1, <1>2, <2>1, <2>2, RenderedStep
<1>5. CASE m.answer = "error"
  BY <1>1, <1>2, <1>5, Now, RenderedStep DEF DeleteAnswer, SameTab
<1> QED BY <1>1, <1>3, <1>4, <1>5

LEMMA SaveAnswerStep ==
    ASSUME IInv, NEW m \in BagToSet(net), SaveAnswer(m)
    PROVE  IInv'
<1>1. /\ m.kind = "save" /\ m.answer \in {"ok", "more", "error", "401"} /\ net' = Rest(m)
      /\ m.answer \in {"ok", "more"} => m.entry \in Entry
  <2>1. m \in Message /\ Proper(m) /\ m.kind = "save" /\ m.answer # None
    BY Handled DEF SaveAnswer, Answered
  <2> QED BY <2>1 DEF Message, Proper, SaveAnswer
<1>2. ServerGood'
  BY ServerSame DEF SaveAnswer
<1>3. CASE m.answer = "401"
  BY <1>1, <1>2, <1>3, Now, SignedOutStep DEF SaveAnswer
<1>4. CASE m.answer \in {"ok", "more"}
  <2> PICK p : p = [page EXCEPT !.rows = Put(@, m.entry)]
    OBVIOUS
  <2>1. /\ p \in Page /\ SameTab(page, p) /\ p.rows = Put(page.rows, m.entry)
        /\ p.cell = page.cell /\ p.draft = page.draft /\ p.shown = page.shown
    <3>1. Put(page.rows, m.entry) \in Seq(Entry)
      BY <1>1, <1>4, Now, PutGood DEF Page
    <3> QED BY <3>1, Now, WithRows
  <2>2. CASE page' = Render(p)
    BY <1>1, <1>2, <2>1, <2>2, RenderedStep
  <2>3. CASE page' = p
    <3>1. Ids(Put(page.rows, m.entry)) = Ids(page.rows)
      BY DEF Ids, Put
    <3>2. Typed(p) /\ Shows(p)
      BY <2>1, <3>1, Now DEF Typed, SheetHasFocus, Shows, SameTab
    <3> QED BY <1>1, <1>2, <2>1, <2>3, <3>2, RestStep DEF SameTab
  <2> QED BY <1>4, <2>2, <2>3 DEF SaveAnswer
<1>5. CASE m.answer = "error"
  BY <1>1, <1>2, <1>5, Now, RenderedStep DEF SaveAnswer, SameTab
<1> QED BY <1>1, <1>3, <1>4, <1>5

LEMMA IgAnswerStep ==
    ASSUME IInv, NEW m \in BagToSet(net), IgAnswer(m)
    PROVE  IInv'
<1>1. m.kind = "ig" /\ page.view \in {"login", "sheet"}
  <2>1. m.kind = "ig" /\ page.view \notin {"loading", "left"}
    BY Handled DEF IgAnswer
  <2> QED BY <2>1, Now DEF Page
<1>2. ServerGood'
  BY ServerSame DEF IgAnswer
<1>3. PICK q \in Page : /\ page' = q /\ Typed(q) /\ Shows(q)
                        /\ q.adding = page.adding /\ q.loggingIn = page.loggingIn
                        /\ \/ q.view = page.view /\ q.timer = page.timer
                           \/ q.view = "login" /\ ~q.timer
  <2>1. CASE m.answer = "401"
    BY <2>1, Now, SignedOutGood DEF IgAnswer
  <2>2. CASE m.answer # "401"
    <3> DEFINE P == {[page EXCEPT !.igSaving = FALSE],
                     [page EXCEPT !.igSaving = FALSE, !.form = FALSE]}
    <3>2. PICK p \in P : page' = Render(p)
      <4>1. m.answer \in {"error", "ok", "more"}
        BY <1>1, <2>2, Now DEF IgAnswer, Answered, Proper
      <4> QED BY <4>1 DEF IgAnswer
    <3>1. /\ p \in Page /\ p.view = page.view /\ p.timer = page.timer
          /\ p.adding = page.adding /\ p.loggingIn = page.loggingIn
      BY Now DEF Page
    <3> PICK q : q = Render(p)
      OBVIOUS
    <3>3. q \in Page /\ SameTab(p, q) /\ Typed(q) /\ Shows(q)
      BY <3>1, RenderGood
    <3> QED BY <3>1, <3>2, <3>3 DEF SameTab
  <2> QED BY <2>1, <2>2
<1>4. Fits(q, Rest(m))
  BY <1>1, <1>3, Now, FitsHandle DEF Rest
<1>5. q.view \in {"login", "sheet"}
  BY <1>1, <1>3
<1>6. CASE net' = Rest(m)
  BY <1>2, <1>3, <1>4, <1>6, HandleStep
<1>7. CASE net' = Rest(m) (+) One(Request("rows", None))
  BY <1>2, <1>3, <1>4, <1>5, <1>7, HandleMore
<1> QED BY <1>6, <1>7 DEF IgAnswer

-----------------------------------------------------------------------------

LEMMA InitGood == Init => IInv
<1> SUFFICES ASSUME Init PROVE IInv
  OBVIOUS
<1> PICK m : m = Request("session", None)
  OBVIOUS
<1>1. m \in Message /\ Proper(m) /\ m.kind = "session"
  BY PlainRequest DEF Kind
<1>2. IsABag(net) /\ BagToSet(net) = {m} /\ net[m] = 1
  BY SetBag DEF Init
<1>3. QueueGood(net)
  BY <1>1, <1>2 DEF QueueGood
<1>4. \A k : InFlight(k, net) = IF k = "session" THEN {m} ELSE {}
  BY <1>1, <1>2 DEF InFlight
<1>5. page \in Page /\ Typed(page) /\ Shows(page)
  <2>1. <<>> \in Seq(Entry)
    OBVIOUS
  <2> QED BY <2>1 DEF Init, Page, Typed, Shows
<1>6. Buttons(page, net) /\ Entrance(page, net)
  BY <1>1, <1>2, <1>4 DEF Buttons, Entrance, Awaits, Alone, Init
<1>7. ServerGood
  <2>1. CASE MaxRows = 0
    BY <2>1, BoundAssumption DEF Init, ServerGood
  <2>2. CASE MaxRows # 0
    <3>1. [id |-> 1, verdict |-> Unreviewed] \in Entry
      BY <2>2, BoundAssumption, VerdictAssumption DEF Entry, Row
    <3>2. db \in Seq(Entry) /\ Len(db) = 1
      BY <2>2, <3>1 DEF Init
    <3> QED BY <2>2, <3>2, BoundAssumption DEF Init, ServerGood
  <2> QED BY <2>1, <2>2
<1> QED BY <1>3, <1>5, <1>6, <1>7 DEF IInv, Types, Fits

LEMMA ScoutStep == IInv /\ Scout => IInv'
  BY UseCellStep, ChangeStep, ChangeUnsentStep, AddStep, DeleteStep, UseFormStep, IgSaveStep,
     LogoutStep, LoginStep, RepaintStep, VisibilityStep DEF Scout

LEMMA HandlerStep ==
    ASSUME IInv, NEW m \in BagToSet(net), Handler(m)
    PROVE  IInv'
  BY EnterAnswerStep, LogoutAnswerStep, LoadAnswerStep, PollAnswerStep, AddAnswerStep,
     DeleteAnswerStep, SaveAnswerStep, IgAnswerStep DEF Handler

LEMMA NextGood == IInv /\ [Next]_vars => IInv'
<1> SUFFICES ASSUME IInv, [Next]_vars PROVE IInv'
  OBVIOUS
<1>1. CASE Scout \/ Poll \/ Elsewhere \/ Expire
  BY <1>1, ScoutStep, PollStep, ElsewhereStep, ExpireStep
<1>2. ASSUME NEW m \in BagToSet(net), Serve(m) \/ Fail(m) PROVE IInv'
  BY <1>2, ServeReadStep, ServeAuthStep, ServeWriteStep, RefuseStep, FailStep DEF Serve
<1>3. CASE UNCHANGED vars
  BY <1>3 DEF vars, IInv, Types, ServerGood
<1> QED BY <1>1, <1>2, <1>3, HandlerStep DEF Next

LEMMA InvariantHolds == Spec => []IInv
  BY InitGood, NextGood, PTL DEF Spec

\* The buttons of the sheet say what is so: an add, a sign-in and a handle wait for
\* exactly one request, the sheet on the screen has its timer, and shows the rows
\* it holds.  (scout.js addEntry, saveIg, startLiveSync, stopLiveSync, render)
THEOREM TypeCorrect == Spec => []TypeOK
  BY InvariantHolds, Implied, PTL

\* Whatever polls are answered, and in whatever order: nobody loses the focus in a
\* cell or what he is typing there, who is in the form for the handle only when rows
\* came or went, and no row is left behind what the answer brought.
\* (scout.js pollLive, applyLiveRows)
THEOREM LiveSyncDisturbsNobody == Spec => LiveSync
<1>1. IInv => \A m \in InFlight("poll", net) :
                 m.answer # "401" /\ PollAnswer(m) =>
                    /\ page'.draft = page.draft
                    /\ \/ page'.cell = page.cell /\ page'.text = page.text
                       \/ ~SheetHasFocus(page) /\ Ids(m.list) # Ids(page.rows)
                    /\ Unseen(page') \subseteq Unseen(page)
  <2> SUFFICES ASSUME IInv, NEW m \in InFlight("poll", net), m.answer # "401", PollAnswer(m)
               PROVE  /\ page'.draft = page.draft
                      /\ \/ page'.cell = page.cell /\ page'.text = page.text
                         \/ ~SheetHasFocus(page) /\ Ids(m.list) # Ids(page.rows)
                      /\ Unseen(page') \subseteq Unseen(page)
    OBVIOUS
  <2>1. m \in BagToSet(net) /\ m.kind = "poll"
    BY DEF InFlight
  <2>2. m.list \in Seq(Entry) /\ m.answer \in {"ok", "error"}
    <3>1. m \in Message /\ Proper(m) /\ m.answer # None
      BY <2>1, Handled DEF PollAnswer, Answered
    <3> QED BY <2>1, <3>1 DEF Message, Proper
  <2>3. CASE m.answer = "ok"
    BY <2>2, <2>3, Now, ApplyGood DEF PollAnswer
  <2>4. CASE m.answer = "error"
    BY <2>4 DEF PollAnswer
  <2> QED BY <2>2, <2>3, <2>4
<1> QED BY <1>1, InvariantHolds, PTL DEF Spec, LiveSync
=============================================================================
