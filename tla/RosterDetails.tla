--------------------------- MODULE RosterDetails ---------------------------
(***************************************************************************)
(* Editing a creator in the roster: the profile page's two edit cards      *)
(* (public/app.js), PATCH roster/:id/details (roster.service.ts), which    *)
(* writes the creator and mirrors phone, address and payout details onto   *)
(* the latest contract, and the contracts that arrive meanwhile.  One      *)
(* action is one database statement with the code up to the next await.    *)
(*                                                                         *)
(* One creator; what it is shown as is RosterView.                         *)
(***************************************************************************)
EXTENDS RosterView, FiniteSets

CONSTANTS
    Value,          \* what a field or a payout key may hold
    Tab,            \* the administrators' tabs
    ContractRef,    \* Outreach tokens
    Campaign,       \* names of campaigns
    Term,           \* the terms a contract may arrive with
    Creators,       \* the creators a history may start from, with
    Histories,      \* their contracts (newest first) and statistics
    Others,         \* the other rows of the roster
    Taken,          \* emails of other creators
    MaxSaves, MaxImports

Item == Field \cup Key
Mirrored == {"phone", "address"}
Rate == {"averageViews", "cpm", "engagementRate"}

ASSUME KeyAssumption == BankKey \cap TaxKey = {} /\ Key \cap Field = {}

MaybeValue == Value \cup {None}
Payout == [Key -> MaybeValue]

\* What a contract says; a creator has more columns.
Terms == [campaign : Campaign \cup {None}, status : {"PENDING", "SIGNED", "COMPLETED"},
          name : MaybeValue, email : MaybeValue, phone : MaybeValue, address : MaybeValue,
          pay : Payout \cup {None}]
Contract == [id : ContractRef,
             campaign : Campaign \cup {None}, status : {"PENDING", "SIGNED", "COMPLETED"},
             name : MaybeValue, email : MaybeValue, phone : MaybeValue, address : MaybeValue,
             pay : Payout \cup {None}]

\* What the forms and the database may hold; a contract is stored once.
Person(c) ==
    /\ Field \cup Rate \cup {"pay", "campaign"} \subseteq DOMAIN c
    /\ \A f \in Field : c[f] \in MaybeValue
    /\ c.pay \in Payout \cup {None}
    /\ \A n \in Rate : Counted(c[n])
Agreements(cs) ==
    /\ cs \in Seq(Contract)
    /\ \A i, j \in DOMAIN cs : cs[i].id = cs[j].id => i = j
Statistic(s) ==
    /\ Counted(s.views)
    /\ s.platforms \subseteq Platform
    /\ s.videos \in Seq(ToSet(s.videos))
    /\ \A v \in ToSet(s.videos) : \A code \in DOMAIN v : v[code] \in Int
Figures(ss) == ss \in Seq(ToSet(ss)) /\ \A s \in ToSet(ss) : Statistic(s)
Patch == UNION {[items -> MaybeValue] : items \in SUBSET Item}
Edit == [pc : {"closed", "form", "read", "write", "latest", "mirror", "answer"},
         seen : [Item -> MaybeValue] \cup {None}, patch : Patch,
         merged : Payout \cup {None}, latest : Contract \cup {None}, had : BOOLEAN]

ASSUME NoneAssumption ==
    /\ None \notin Value \cup ContractRef \cup Key \cup Payout \cup Int
    /\ \A f \in RangeFacet : None \notin Buckets(f)
ASSUME TermAssumption == Term \subseteq Terms
ASSUME CreatorAssumption == \A c \in Creators : Person(c)
ASSUME HistoryAssumption == \A h \in Histories : Agreements(h.contracts) /\ Figures(h.stats)
ASSUME OthersAssumption ==
    /\ Others \in Seq(ToSet(Others))
    /\ \A r \in ToSet(Others), f \in RangeFacet : Counted(r[f])

VARIABLES
    creator, contracts, stats,
    tab,      \* the form and the request of each tab
    import,   \* the contract being stored, None if none is
    clean,    \* history: tabs whose edit nothing else interfered with
    saves, imports

vars == <<creator, contracts, stats, tab, import, clean, saves, imports>>
record == <<creator, contracts, stats>>

Shown == Profile(creator, contracts)

Closed == [pc |-> "closed", seen |-> None, patch |-> <<>>, merged |-> None,
           latest |-> None, had |-> FALSE]

\* Types; the contracts are stored once each.
TypeOK ==
    /\ Person(creator)
    /\ Agreements(contracts)
    /\ Figures(stats)
    /\ tab \in [Tab -> Edit]
    /\ import \in [ref : ContractRef, term : Term] \cup {None}
    /\ clean \subseteq Tab
    /\ saves \in Nat /\ imports \in Nat

Init ==
    /\ creator \in Creators
    /\ \E h \in Histories : contracts = h.contracts /\ stats = h.stats
    /\ tab = [w \in Tab |-> Closed]
    /\ import = None
    /\ clean = {}
    /\ saves = 0 /\ imports = 0

At(w, step) == tab[w].pc = step
Become(w, t) == tab' = [tab EXCEPT ![w] = t]

-----------------------------------------------------------------------------
(* The edit cards.                                                         *)

OpenCard(w) ==
    /\ At(w, "closed")
    /\ saves < MaxSaves /\ saves' = saves + 1
    /\ Become(w, [Closed EXCEPT !.pc = "form", !.seen = Shown])
    /\ clean' = clean \cup {w}
    /\ UNCHANGED <<record, import, imports>>

\* saveContact: what differs from the profile shown (one item here; an address
\* is sent whole).
ContactPatches(seen) ==
    UNION {[{x} -> MaybeValue \ {seen[x]}] : x \in Field \cup TaxKey}

\* savePayment: every key of its card, changed or not.
PaymentPatches(seen) ==
    {[k \in BankKey |-> IF k = x THEN v ELSE seen[k]] : x \in BankKey, v \in MaybeValue}

Submit(w) ==
    LET t == tab[w] IN
    /\ At(w, "form")
    /\ \E patch \in ContactPatches(t.seen) \cup PaymentPatches(t.seen) :
          Become(w, [t EXCEPT !.pc = "read", !.patch = patch])
    /\ UNCHANGED <<record, import, clean, saves, imports>>

-----------------------------------------------------------------------------
(* updateDetails.                                                          *)

Sent(t, items) == DOMAIN t.patch \cap items
NoKeys == [k \in Key |-> None]

\* The keys sent are layered over those on record.
Merge(pay, patch) == [k \in Key |-> IF k \in DOMAIN patch THEN patch[k] ELSE Or(pay, NoKeys)[k]]

\* A write of one interferes with every other edit that has begun.
Interfere(w) == clean' = clean \ {v \in Tab : v # w /\ ~At(v, "closed")}

\* Mutant of ReadCreator: the payout record is written as it was sent.
ReadNothing(w) ==
    LET t == tab[w] IN
    /\ At(w, "read")
    /\ Become(w, [t EXCEPT !.pc = "write", !.had = creator.pay # None,
                           !.merged = IF Sent(t, Key) = {} THEN None ELSE Merge(None, t.patch)])
    /\ UNCHANGED <<record, import, clean, saves, imports>>

\* The payout record is merged into the copy read here.
ReadCreator(w) ==
    LET t == tab[w] IN
    /\ At(w, "read")
    /\ Become(w, [t EXCEPT !.pc = "write", !.had = creator.pay # None,
                           !.merged = IF Sent(t, Key) = {} THEN None
                                      ELSE Merge(creator.pay, t.patch)])
    /\ UNCHANGED <<record, import, clean, saves, imports>>

Refused(t) == "email" \in DOMAIN t.patch /\ t.patch["email"] \in Taken

WriteCreator(w) ==
    LET t == tab[w] IN
    /\ At(w, "write")
    /\ ~Refused(t)
    /\ creator' = [c \in DOMAIN creator |->
                      IF c \in Sent(t, Field) THEN t.patch[c]
                      ELSE IF c = "pay" THEN Or(t.merged, creator.pay) ELSE creator[c]]
    /\ Become(w, [t EXCEPT !.pc = "latest"])
    /\ Interfere(w)
    /\ UNCHANGED <<contracts, stats, import, saves, imports>>

\* P2002: describeUniqueConflict names the creator that holds the value.
WriteRefused(w) ==
    /\ At(w, "write")
    /\ Refused(tab[w])
    /\ Become(w, Closed)
    /\ clean' = clean \ {w}
    /\ UNCHANGED <<record, import, saves, imports>>

FindLatest(w) ==
    /\ At(w, "latest")
    /\ Become(w, IF contracts = <<>> \/ Sent(tab[w], Mirrored \cup Key) = {}
                 THEN [tab[w] EXCEPT !.pc = "answer"]
                 ELSE [tab[w] EXCEPT !.pc = "mirror", !.latest = contracts[1]])
    /\ UNCHANGED <<record, import, clean, saves, imports>>

\* Mutant of MirrorOnto: the edit is mirrored onto the oldest contract.
MirrorOntoOldest(c, t) ==
    IF c # contracts[Len(contracts)] THEN c
    ELSE [f \in DOMAIN c |->
            IF f \in Sent(t, Mirrored) THEN t.patch[f]
            ELSE IF f = "pay" /\ Sent(t, Key) # {} THEN Merge(t.latest.pay, t.patch) ELSE c[f]]

\* The keys sent are layered over the contract's own, as it was read.
MirrorOnto(c, t) ==
    IF c.id # t.latest.id THEN c
    ELSE [f \in DOMAIN c |->
            IF f \in Sent(t, Mirrored) THEN t.patch[f]
            ELSE IF f = "pay" /\ Sent(t, Key) # {} THEN Merge(t.latest.pay, t.patch) ELSE c[f]]

Mirror(w) ==
    /\ At(w, "mirror")
    /\ contracts' = [i \in DOMAIN contracts |-> MirrorOnto(contracts[i], tab[w])]
    /\ Become(w, [tab[w] EXCEPT !.pc = "answer"])
    /\ Interfere(w)
    /\ UNCHANGED <<creator, stats, import, saves, imports>>

\* The answer is the profile, read again.
Reply(w) ==
    /\ At(w, "answer")
    /\ Become(w, Closed)
    /\ clean' = clean \ {w}
    /\ UNCHANGED <<record, import, saves, imports>>

-----------------------------------------------------------------------------
(* A contract arrives: contracts.service.ts createFromOutreach.            *)

\* The creator takes the signer's name and phone and the campaign, and the email
\* when it has none.
ImportCreator ==
    /\ import = None
    /\ imports < MaxImports /\ imports' = imports + 1
    /\ \E r \in ContractRef, term \in Term :
          /\ import' = [ref |-> r, term |-> term]
          /\ creator' = [creator EXCEPT !.name = Or(term.name, @), !.phone = Or(term.phone, @),
                                        !.campaign = Or(term.campaign, @),
                                        !.email = IF @ = None /\ term.email \notin Taken
                                                  THEN term.email ELSE @]
    /\ clean' = {}
    /\ UNCHANGED <<contracts, stats, tab, saves>>

\* Mutant of ImportContract: a contract is inserted, known or not.
ImportContractAgain ==
    LET terms == import.term IN
    /\ import # None
    /\ contracts' = <<[f \in DOMAIN terms \cup {"id"} |->
                         IF f = "id" THEN import.ref ELSE terms[f]]>> \o contracts
    /\ import' = None
    /\ clean' = {}
    /\ UNCHANGED <<creator, stats, tab, saves, imports>>

\* A known contract takes the terms that came with it, others stay.
ImportContract ==
    LET known == {i \in DOMAIN contracts : contracts[i].id = import.ref}
        terms == import.term IN
    /\ import # None
    /\ contracts' =
          IF known = {} THEN <<[f \in DOMAIN terms \cup {"id"} |->
                                  IF f = "id" THEN import.ref ELSE terms[f]]>> \o contracts
          ELSE [i \in DOMAIN contracts |->
                  IF i \in known
                  THEN [f \in DOMAIN contracts[i] |->
                          IF f = "id" THEN import.ref ELSE Or(terms[f], contracts[i][f])]
                  ELSE contracts[i]]
    /\ import' = None
    /\ clean' = {}
    /\ UNCHANGED <<creator, stats, tab, saves, imports>>

Request(w) ==
    \/ OpenCard(w) \/ Submit(w)
    \/ ReadCreator(w) \/ WriteCreator(w) \/ WriteRefused(w)
    \/ FindLatest(w) \/ Mirror(w) \/ Reply(w)

Next == (\E w \in Tab : Request(w)) \/ ImportCreator \/ ImportContract

Spec == Init /\ [][Next]_vars

-----------------------------------------------------------------------------
(* Properties of the edits.                                                *)

\* A save that nothing interfered with shows what was saved (clearing a field
\* and the name of a creator with a signed contract aside: a contract stands in),
\* and the latest agreement is made out to the phone and address saved, and holds
\* the payout details saved.
\* (roster.service.ts updateDetails, buildContact, buildPayment; updateDetails
\* "so payment-of-record documents stay in sync"; contract-document.service.ts)
SavedEverywhere ==
    [][\A w \in clean : Reply(w) =>
          /\ \A x \in DOMAIN tab[w].patch :
                tab[w].patch[x] # None /\ (x = "name" => FromContracts(contracts, x) = None)
                => Shown[x] = tab[w].patch[x]
          /\ contracts # <<>> =>
                /\ \A f \in Sent(tab[w], Mirrored) :
                       Parties(creator, contracts[1])[f] = creator[f]
                /\ \A k \in Sent(tab[w], Key) : contracts[1].pay[k] = creator.pay[k]]_vars

\* Such a save changes nothing else that is shown, if the creator had a payout
\* record of its own.  (roster.service.ts updateDetails "merges keys")
EditIsLocal ==
    [][\A w \in clean : Reply(w) =>
          \A x \in Item \ DOMAIN tab[w].patch :
              x \in Field \/ tab[w].had => Shown[x] = tab[w].seen[x]]_vars

-----------------------------------------------------------------------------
(* Properties of the views.                                                *)

Campaigns == CampaignList(contracts, stats)

\* The campaigns of a profile add up to the views on record, whatever
\* contracts and statistics share a name; shares of the platforms, where they are
\* estimated, add up to the profile's views but for the rounding, and otherwise to
\* the views of the posts.
\* (roster.service.ts buildCampaignList, buildPlatformBreakdown)
ViewsConserved ==
    LET views == ProfileViews(creator, stats)
        shares == PlatformBreakdown(stats, views)
        shared == SumFunction(shares) IN
    /\ SumFunction([key \in DOMAIN Campaigns |-> ViewsOf(Campaigns[key])]) = TotalViews(stats)
    /\ IF Posted(stats) = {}
       THEN DOMAIN shares # {} => 2 * shared - 2 * views \in - Cardinality(DOMAIN shares) .. Cardinality(DOMAIN shares)
       ELSE shared = SumFunction([p \in Posts(stats) |->
                                     SumFunction([code \in Platform |-> ViewsOn(stats, p, code)])])

\* Deal Studio is told of the campaigns the profile lists by name and of the
\* creator's own, whichever it asks about left out; its badge and the roster's
\* segment differ only over campaigns without a contract or contracts not signed.
SegmentsAgree ==
    LET row == RosterRow(creator, contracts, stats)
        Prior(asked) == DOMAIN PriorCampaigns(creator, contracts, stats, asked)
        listed == {key \in DOMAIN Campaigns : key \in Named(contracts) \cup Named(stats)} IN
    /\ \A asked \in listed \cup Own(creator) \cup {None} :
          Prior(asked) = (listed \cup Own(creator)) \ {asked}
    /\ Category(contracts) # row.segment =>
          IF contracts = <<>> THEN stats # <<>>
          ELSE stats = <<>> /\ SignedContracts(contracts) = {}

\* The list says what the profile says and hides nobody: a creator has the same
\* name in both, and the same views unless campaigns are on record without any; a
\* row is in one bucket of each range filter, or in none if its number is unknown;
\* sorted by a number, blanks are last both ways and the rows the same; and Deal
\* Studio is told the same campaigns (SegmentsAgree).
\* (roster.service.ts roster, profile; creators.service.ts checkParticipation,
\* categorize; app.js ROSTER_FACETS "can't both claim a creator", visibleCreators
\* "Blanks always sink to the bottom")
ListSound ==
    LET row == RosterRow(creator, contracts, stats)
        rows == <<row>> \o Others IN
    /\ Shown["name"] # None => row.name = Shown["name"]
    /\ SegmentsAgree
    /\ stats = <<>> \/ TotalViews(stats) # 0 => row.views = ProfileViews(creator, stats)
    /\ \A r \in ToSet(rows), f \in RangeFacet :
          Cardinality({b \in Buckets(f) : MatchesRow(r, [Cleared EXCEPT ![f] = b])})
              = IF r[f] = None THEN 0 ELSE 1
    /\ \A key \in RangeFacet, asc \in BOOLEAN :
          LET list == VisibleCreators(rows, Cleared, key, asc) IN
          /\ ToSet(list) = ToSet(rows)
          /\ \A i, j \in DOMAIN list : i < j /\ list[j][key] # None =>
                /\ list[i][key] # None
                /\ IF asc THEN list[i][key] <= list[j][key]
                          ELSE list[i][key] >= list[j][key]
=============================================================================
