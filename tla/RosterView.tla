----------------------------- MODULE RosterView -----------------------------
(***************************************************************************)
(* What an administrator reads: the rows of the roster and the profile     *)
(* that roster.service.ts computes from a creator, its contracts (newest   *)
(* first) and its campaign statistics, the filters and the sort that       *)
(* public/app.js applies to the rows, the parties an agreement is made out *)
(* to, and what Deal Studio is told of a creator it asks about.            *)
(*                                                                         *)
(* An address is one value, a campaign's name is compared as one, a text   *)
(* match is given with the row; labels, dates, terms, the columns that are *)
(* only passed on and the palette are left out.                            *)
(***************************************************************************)
EXTENDS Integers, SequencesExt

CONSTANTS
    BankKey, TaxKey,   \* the keys of a payout record, by the card that edits them
    None

Key == BankKey \cup TaxKey
Field == {"name", "email", "phone", "address"}

Or(a, b) == IF a # None THEN a ELSE b

-----------------------------------------------------------------------------
(* The profile: what a contract stands in for.                             *)

\* The newest contract that has the field.
FromContracts(contracts, f) ==
    LET having == {i \in DOMAIN contracts : contracts[i][f] # None} IN
    IF having = {} THEN None ELSE contracts[Min(having)][f]

\* buildContact: the name of a signed contract goes first, everywhere else the
\* creator's own record does.
Contact(creator, contracts) ==
    [f \in Field |->
        IF f = "name" THEN Or(FromContracts(contracts, f), creator[f])
                      ELSE Or(creator[f], FromContracts(contracts, f))]

\* buildPayment: the creator's payout record, whatever it holds, or a contract's.
Payment(creator, contracts) ==
    LET pay == Or(creator.pay, FromContracts(contracts, "pay")) IN
    [k \in Key |-> IF pay = None THEN None ELSE pay[k]]

Profile(creator, contracts) ==
    [x \in Field \cup Key |-> IF x \in Field THEN Contact(creator, contracts)[x]
                               ELSE Payment(creator, contracts)[x]]

\* partiesBlock of contract-document.service.ts: in an agreement its own terms go
\* first.
Parties(creator, contract) == [f \in Field |-> Or(contract[f], creator[f])]

-----------------------------------------------------------------------------
(* The profile: campaigns.                                                 *)

\* A contract or a statistic without a campaign name stands alone.
CampaignKey(x) == Or(x.campaign, x.id)

KeysOf(seq) == {CampaignKey(seq[i]) : i \in DOMAIN seq}
ViewsOf(s) == IF s.views = None THEN 0 ELSE s.views
StatViews(stats) == [i \in DOMAIN stats |-> ViewsOf(stats[i])]

\* Mutant of CampaignList: a statistic of a campaign with a contract gets no row.
CampaignListFirst(contracts, stats) ==
    [key \in KeysOf(contracts) \cup KeysOf(stats) |->
        LET signed == {i \in DOMAIN contracts : CampaignKey(contracts[i]) = key}
            ran == {i \in DOMAIN stats : CampaignKey(stats[i]) = key} IN
        [status |-> IF signed # {} THEN contracts[Max(signed)].status ELSE "stats",
         views |-> IF ran = {} THEN None ELSE stats[Min(ran)].views,
         source |-> IF signed = {} THEN "stats" ELSE IF ran = {} THEN "contract" ELSE "both"]]

\* buildCampaignList: contracts and statistics of one campaign share a row; of
\* two contracts the older, later in the list, is the one described.
CampaignList(contracts, stats) ==
    [key \in KeysOf(contracts) \cup KeysOf(stats) |->
        LET signed == {i \in DOMAIN contracts : CampaignKey(contracts[i]) = key}
            ran == {i \in DOMAIN stats : CampaignKey(stats[i]) = key} IN
        [status |-> IF signed # {} THEN contracts[Max(signed)].status ELSE "stats",
         views |-> IF ran = {} THEN None
                   ELSE IF signed = {} /\ Cardinality(ran) = 1 THEN stats[Min(ran)].views
                   ELSE SumFunctionOnSet(StatViews(stats), ran),
         source |-> IF signed = {} THEN "stats" ELSE IF ran = {} THEN "contract" ELSE "both"]]

TotalViews(stats) == SumFunction(StatViews(stats))

\* profile: no recorded views count as the creator's average.
ProfileViews(creator, stats) ==
    IF TotalViews(stats) # 0 THEN TotalViews(stats)
    ELSE IF creator.averageViews = None THEN 0 ELSE creator.averageViews

HalfUp(a, b) == (2 * a + b) \div (2 * b)     \* Math.round(a / b)

Platform == {"IG", "TT", "YT"}
Ran(stats) == UNION {stats[i].platforms : i \in DOMAIN stats}

\* The posts of the campaigns, each with its views by platform.
Posts(stats) == UNION {{<<i, j>> : j \in DOMAIN stats[i].videos} : i \in DOMAIN stats}
ViewsOn(stats, post, code) ==
    LET views == stats[post[1]].videos[post[2]] IN
    IF code \in DOMAIN views THEN views[code] ELSE 0

\* The platforms the posts have views on.
Posted(stats) == UNION {DOMAIN stats[p[1]].videos[p[2]] : p \in Posts(stats)}

\* buildPlatformBreakdown: without posts, an even share for each platform.
PlatformBreakdown(stats, combined) ==
    IF Posted(stats) = {}
    THEN [code \in Ran(stats) |-> HalfUp(combined, Cardinality(Ran(stats)))]
    ELSE [code \in Posted(stats) \cap Platform |->
             SumFunction([p \in Posts(stats) |-> ViewsOn(stats, p, code)])]

-----------------------------------------------------------------------------
(* The roster.                                                             *)

Signed == {"SIGNED", "COMPLETED"}

\* engagementRate, in thousandths: a fraction, or a percentage above 1.  The
\* result is in tenths of a percent.
EngagementTenths(rate) == IF rate = None THEN None ELSE IF rate <= 1000 THEN rate ELSE HalfUp(rate, 100)

SignedContracts(contracts) == {i \in DOMAIN contracts : contracts[i].status \in Signed}

\* Mutant of RosterRow: the name is the creator's own, as it was synced.
RosterRowOwnName(creator, contracts, stats) ==
    [id |-> creator.id,
     name |-> Or(creator.name, creator.email),
     platforms |-> Ran(stats),
     campaigns |-> Len(stats),
     segment |-> IF SignedContracts(contracts) # {} \/ stats # <<>> THEN "used" ELSE "unused",
     views |-> IF stats # <<>> THEN TotalViews(stats)
               ELSE IF creator.averageViews = None THEN 0 ELSE creator.averageViews,
     cpm |-> creator.cpm,
     engagement |-> EngagementTenths(creator.engagementRate),
     risk |-> creator.risk,
     lastCampaign |-> FromContracts(contracts, "campaign")]

\* roster: one row of the list.
RosterRow(creator, contracts, stats) ==
    [id |-> creator.id,
     name |-> Or(FromContracts(contracts, "name"), Or(creator.name, creator.email)),
     platforms |-> Ran(stats),
     campaigns |-> Len(stats),
     segment |-> IF SignedContracts(contracts) # {} \/ stats # <<>> THEN "used" ELSE "unused",
     views |-> IF stats # <<>> THEN TotalViews(stats)
               ELSE IF creator.averageViews = None THEN 0 ELSE creator.averageViews,
     cpm |-> creator.cpm,
     engagement |-> EngagementTenths(creator.engagementRate),
     risk |-> creator.risk,
     lastCampaign |-> FromContracts(contracts, "campaign")]

-----------------------------------------------------------------------------
(* What Deal Studio asks.                                                  *)

Named(seq) == {seq[i].campaign : i \in DOMAIN seq} \ {None}
Own(creator) == {creator.campaign} \ {None}

\* checkParticipation: the campaigns other than the one asked about, each with
\* the first place that names it.
PriorCampaigns(creator, contracts, stats, exclude) ==
    [name \in (Own(creator) \cup Named(contracts) \cup Named(stats)) \ {exclude} |->
        IF name \in Own(creator) THEN "master"
        ELSE IF name \in Named(contracts) THEN "contract" ELSE "stats"]

\* categorize, of a creator that was found.
Category(contracts) == IF contracts # <<>> THEN "used" ELSE "unused"

-----------------------------------------------------------------------------
(* The filters.                                                            *)

RangeFacet == {"campaigns", "views", "engagement", "cpm"}
Counted(n) == n = None \/ n \in Int

\* The buckets of ROSTER_FACETS, from min to below max, None if there is none;
\* engagement in tenths.
Buckets(facet) ==
    CASE facet = "campaigns" -> {<<None, 1>>, <<1, 3>>, <<3, 6>>, <<6, None>>}
      [] facet = "views" -> {<<None, 100000>>, <<100000, 1000000>>, <<1000000, 10000000>>,
                             <<10000000, None>>}
      [] facet = "engagement" -> {<<None, 10>>, <<10, 30>>, <<30, 50>>, <<50, None>>}
      [] facet = "cpm" -> {<<None, 1>>, <<1, 5>>, <<5, 10>>, <<10, None>>}

\* matchesFacet: an unknown number is in no bucket.
InBucket(n, bucket) ==
    /\ n # None
    /\ bucket[1] # None => bucket[1] <= n
    /\ bucket[2] # None => n < bucket[2]

\* A filter is None or a choice; `usage` is "All" or a segment, `query` the
\* rows the search text matches.
MatchesRow(row, filter) ==
    /\ filter.query # None => row.id \in filter.query
    /\ filter.usage # "All" => row.segment = filter.usage
    /\ filter.platform # None => filter.platform \in row.platforms
    /\ filter.risk # None => row.risk = filter.risk
    /\ \A f \in RangeFacet : filter[f] # None => InBucket(row[f], filter[f])

\* "Clear filters" shows everyone.
Cleared == [query |-> None, usage |-> "All", platform |-> None, risk |-> None,
            campaigns |-> None, views |-> None, engagement |-> None, cpm |-> None]

\* The comparison of a numeric column: blanks last, both ways.
Precedes(a, b, key, asc) ==
    /\ a[key] # None
    /\ b[key] # None => IF asc THEN a[key] < b[key] ELSE a[key] > b[key]

\* visibleCreators: a stable sort of the rows that match; a row's place is that
\* of the rows that go before it.
VisibleCreators(rows, filter, key, asc) ==
    LET found == {i \in DOMAIN rows : MatchesRow(rows[i], filter)}
        Goes(i, j) == \/ Precedes(rows[i], rows[j], key, asc)
                      \/ i < j /\ ~Precedes(rows[j], rows[i], key, asc)
        place == [j \in found |-> 1 + Cardinality({i \in found : Goes(i, j)})] IN
    [n \in 1 .. Cardinality(found) |-> rows[CHOOSE i \in found : place[i] = n]]

=============================================================================
