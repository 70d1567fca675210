------------------------------ MODULE Creators ------------------------------
(***************************************************************************)
(* The master creator table and every path that writes it: the            *)
(* upsertFromSource funnel, the fold of a duplicate record, the manual     *)
(* API, the roster's edit form, deletion, and the contract and stats rows  *)
(* stored for the creator an upsert returned.                              *)
(*                                                                         *)
(* A worker is one request or job in flight in the Node process.  One      *)
(* action is one database statement, or the last statements of a           *)
(* transaction together with its COMMIT.  PostgreSQL runs transactions at  *)
(* READ COMMITTED, so every statement sees the rows committed before it    *)
(* and nothing a worker read keeps holding afterwards.                     *)
(***************************************************************************)
EXTENDS Naturals

CONSTANTS
    CreatorId,    \* primary keys of creator rows (the bound on rows created)
    Email, Handle, Name,   \* normalised identity values
    Extra,        \* values of the columns a merge does not fill (paymentDetails ...)
    Person,       \* the real-world creators
    Owner,        \* Owner[k]: the person value k belongs to
    Payload,      \* identities a source can present, with the person meant
    Edit,         \* payloads of PATCH /creators/:id
    RosterEdit,   \* contact edits of PATCH /roster/:id
    Source,       \* the ActivitySource values in play
    ContractRef,  \* Outreach contract tokens
    Signer,       \* Signer[r]: the person who signed contract r
    Campaign,     \* stats campaigns
    Worker,       \* requests and jobs in flight at once
    None          \* SQL NULL, or an absent value

\* The name stands for the columns a source overwrites and a merge fills, extra
\* for those a source overwrites and a merge does not fill.
Field == {"email", "handle", "name", "extra"}
Key == {"email", "handle"}     \* FILL_ONLY_FIELDS, the @unique columns
Fillable == Field \ {"extra"}  \* FILLABLE_FIELDS

Value == Email \cup Handle \cup Name \cup Extra

Row == [email : Email \cup {None}, handle : Handle \cup {None},
        name : Name \cup {None}, extra : Extra \cup {None}]

Blank == [email |-> None, handle |-> None, name |-> None, extra |-> None]

\* Every value of r belongs to person p.
Pure(r, p) == \A f \in Field : r[f] # None => Owner[r[f]] = p

ASSUME NoneAssumption ==
    None \notin CreatorId \cup Value \cup Person \cup ContractRef \cup Campaign

ASSUME ItemAssumption == ContractRef \cap Campaign = {}

\* A payload speaks of one person and carries an identity (hasIdentity).
ASSUME PayloadAssumption ==
    /\ Payload \cup Edit \subseteq [row : Row, person : Person]
    /\ \A in \in Payload : \E f \in Fillable : in.row[f] # None
    /\ \A in \in Payload \cup Edit : Pure(in.row, in.person)

ASSUME RosterAssumption ==
    /\ RosterEdit \subseteq [row : Row, person : Person, clear : SUBSET Field]
    /\ \A e \in RosterEdit : Pure(e.row, e.person)

ASSUME SignerAssumption == Signer \in [ContractRef -> Person]

\* MERGE_ON_SPLIT_SOURCES: the sources that assert identity first-hand.
MergeOnSplitSource == {"CONTRACT_SIGNED", "MANUAL_API"}

VARIABLES
    creators,   \* the creators table, Blank where there is no row
    live,       \* ids of the rows that exist
    about,      \* history: the person each id was created for, None if unused
    contracts,  \* creatorId of each stored contract, None if not stored
    stats,      \* creator_stats rows, by (creatorId, statsCampaignId)
    audit,      \* activity_logs: the <<field, new value>> entries of each id
    task        \* what each worker holds in its local variables

tables == <<creators, live, about, contracts, stats, audit>>
vars == <<creators, live, about, contracts, stats, audit, task>>

Step == {"idle", "email", "handle", "name", "fillEmail", "fillHandle",
         "create", "update", "mergeRead", "mergeMove", "mergeDelete",
         "item", "edit", "roster", "find", "pairs"}

\* Steps that act on a record already found, and on a duplicate of it.
Merging == {"mergeRead", "mergeMove", "mergeDelete"}
Targeted == {"fillEmail", "fillHandle", "update", "item", "edit", "roster"}
            \cup Merging

Idle == [pc |-> "idle", in |-> Blank, person |-> None, src |-> None,
         attempt |-> 1, item |-> None, byEmail |-> None, target |-> None,
         seen |-> Blank, dupSeen |-> Blank, fill |-> {}, moved |-> {},
         candidates |-> {}, pairs |-> {}]

Task == [pc : Step, in : Row, person : Person \cup {None},
         src : Source \cup {"MANUAL_API", None}, attempt : {1, 2},
         item : ContractRef \cup Campaign \cup {None},
         byEmail : CreatorId \cup {None}, target : CreatorId \cup {None},
         seen : Row, dupSeen : Row, fill : SUBSET Field,
         moved : SUBSET (ContractRef \cup Campaign),
         candidates : SUBSET CreatorId, pairs : SUBSET (CreatorId \X CreatorId)]

\* A task that acts on a record, or on two different ones, has found them.
Found(t) == /\ t.pc \in Targeted => t.target # None
            /\ t.pc \in Merging => t.byEmail \notin {None, t.target}

\* Every table and local variable holds values of its kind; ids stand for rows
\* already found in every step that uses them, and no record merges with itself.
TypeOK ==
    /\ creators \in [CreatorId -> Row]
    /\ live \subseteq CreatorId
    /\ about \in [CreatorId -> Person \cup {None}]
    /\ contracts \in [ContractRef -> CreatorId \cup {None}]
    /\ stats \subseteq CreatorId \X Campaign
    /\ audit \in [CreatorId -> SUBSET (Field \X Value)]
    /\ task \in [Worker -> Task]
    /\ \A w \in Worker : Found(task[w])

Init ==
    /\ creators = [id \in CreatorId |-> Blank]
    /\ live = {}
    /\ about = [id \in CreatorId |-> None]
    /\ contracts = [r \in ContractRef |-> None]
    /\ stats = {}
    /\ audit = [id \in CreatorId |-> {}]
    /\ task = [w \in Worker |-> Idle]

-----------------------------------------------------------------------------
(* What the code computes between two database calls.                      *)

\* Rows that hold value v in field f; no row is looked up by an absent value.
With(f, v) == {id \in live : v # None /\ creators[id][f] = v}

\* buildMergeableChanges: other columns are overwritten when given and different.
Overwrites(in, row) == {f \in Field \ Key : in[f] \notin {None, row[f]}}

\* Identity keys of the manual API overwrite what the caller read.
KeyChange(in, row) == {f \in Key : in[f] \notin {None, row[f]}}

\* Row r with the fields fs taken from row s.
Take(r, s, fs) ==
    [email  |-> IF "email"  \in fs THEN s.email  ELSE r.email,
     handle |-> IF "handle" \in fs THEN s.handle ELSE r.handle,
     name   |-> IF "name"   \in fs THEN s.name   ELSE r.name,
     extra  |-> IF "extra"  \in fs THEN s.extra  ELSE r.extra]

\* Mutant of Clash: no unique index on the handle.
ClashEmailOnly(r, id, gone) == ~(With("email", r.email) \subseteq {id} \cup gone)

\* The unique indexes refuse row r for id, once the rows in gone are deleted.
Clash(r, id, gone) == \E f \in Key : ~(With(f, r[f]) \subseteq {id} \cup gone)

\* The activity log entries of a change that sets fields fs of row r.
Entries(r, fs) == {<<f, r[f]>> : f \in {g \in fs : r[g] # None}}

\* Where applyIdentityFills goes first, and after the email.
ToHandleFill(in, row) ==
    IF in.handle # None /\ row.handle = None THEN "fillHandle" ELSE "update"
\* Mutant of ToFills: fills the email whenever it differs.
ToFillsOverwriting(in, row) ==
    IF in.email \notin {None, row.email} THEN "fillEmail" ELSE ToHandleFill(in, row)

ToFills(in, row) ==
    IF in.email # None /\ row.email = None THEN "fillEmail"
    ELSE ToHandleFill(in, row)

\* resolveExisting returns the record id, as it was read.
Settle(t, id, row) ==
    [t EXCEPT !.pc = ToFills(t.in, row), !.byEmail = None,
              !.target = id, !.seen = row]

\* A request of one merge or upsert ends; mergeAll goes on to its next pair.
Done(t) ==
    LET rest == t.pairs \ {<<t.target, t.byEmail>>} IN
    IF rest = {} THEN Idle
    ELSE [Idle EXCEPT !.pc = "pairs", !.attempt = 2, !.src = "MANUAL_API", !.pairs = rest]

\* Mutant of Retry: no limit on the attempts.
RetryForever(t) ==
    [Idle EXCEPT !.pc = "email", !.in = t.in, !.person = t.person,
                 !.src = t.src, !.item = t.item, !.attempt = t.attempt + 1]

\* P2002: a first attempt starts over in a new transaction, a second throws.
Retry(t) ==
    IF t.attempt = 1
    THEN [Idle EXCEPT !.pc = "email", !.in = t.in, !.person = t.person,
                      !.src = t.src, !.item = t.item, !.attempt = 2]
    ELSE Done(t)

\* The upsert returned creator id: a contract or stats row may follow.
Return(t, id) ==
    IF t.item = None THEN Done(t)
    ELSE [Idle EXCEPT !.pc = "item", !.item = t.item, !.target = id]

\* The row stored after an upsert of a payload of this source.
Items(src, person) ==
    CASE src = "CONTRACT_SIGNED" -> {r \in ContractRef : Signer[r] = person}
      [] src = "STATS_SYNC" -> Campaign \cup {None}
      [] OTHER -> {None}

-----------------------------------------------------------------------------
(* Requests that arrive at an idle worker.                                 *)

\* upsertFromSource: sync jobs, contract ingestion, POST /creators, scouts.
StartUpsert(w, in, src, item) ==
    /\ task[w].pc = "idle"
    /\ item \in Items(src, in.person)
    /\ task' = [task EXCEPT ![w] =
           [Idle EXCEPT !.pc = "email", !.in = in.row, !.person = in.person,
                        !.src = src, !.item = item]]
    /\ UNCHANGED tables

\* merger.merge called outside an upsert, with the pairs its caller has left.
CallMerge(survivor, dup, pairs) ==
    [Idle EXCEPT !.pc = "mergeRead", !.person = about[dup], !.attempt = 2,
                 !.src = "MANUAL_API", !.target = survivor, !.byEmail = dup,
                 !.pairs = pairs]

\* POST /maintenance/merge-creators: an administrator names any two records, who
\* is taken to be right that they are one person's.
StartMergePair(w, survivor, dup) ==
    /\ task[w].pc = "idle"
    /\ survivor # dup
    /\ about[dup] # None /\ about[survivor] = about[dup]
    /\ task' = [task EXCEPT ![w] = CallMerge(survivor, dup, {})]
    /\ UNCHANGED tables

\* POST /maintenance/merge-duplicates: mergeAll, whose find reads the records that
\* have no handle first.
StartMergeAll(w) ==
    /\ task[w].pc = "idle"
    /\ \E id \in live : creators[id].handle = None
    /\ task' = [task EXCEPT ![w] =
           [Idle EXCEPT !.pc = "find", !.attempt = 2, !.src = "MANUAL_API",
                        !.candidates = {id \in live : creators[id].handle = None}]]
    /\ UNCHANGED tables

\* updateManual reads the record before it opens its transaction.
StartEdit(w, id, in) ==
    /\ task[w].pc = "idle"
    /\ id \in live
    /\ about[id] = in.person
    /\ task' = [task EXCEPT ![w] =
           [Idle EXCEPT !.pc = "edit", !.in = in.row, !.person = in.person,
                        !.target = id, !.seen = creators[id]]]
    /\ UNCHANGED tables

\* updateDetails reads the record; the fields it clears ride in fill.
StartRosterEdit(w, id, e) ==
    /\ task[w].pc = "idle"
    /\ id \in live
    /\ about[id] = e.person
    /\ task' = [task EXCEPT ![w] =
           [Idle EXCEPT !.pc = "roster", !.in = e.row, !.person = e.person,
                        !.target = id, !.fill = e.clear]]
    /\ UNCHANGED tables

\* A crash, a transaction timeout or a lost connection: the transaction rolls
\* back and the request ends; mergeAll survives a failed transaction.
Abort(w) ==
    /\ task[w].pc # "idle"
    /\ \/ task' = [task EXCEPT ![w] = Idle]
       \/ task[w].pc \in Merging /\ task' = [task EXCEPT ![w] = Done(@)]
    /\ UNCHANGED tables

-----------------------------------------------------------------------------
(* mergeAll: find() once, then one transaction per pair.                   *)

\* The handle-holders are read, and some candidates get a "high" pair: the
\* evidence is not modelled and taken to tie records of one person.
FindMasters(w) ==
    /\ task[w].pc = "find"
    /\ LET masters == {id \in live : creators[id].handle # None} IN
       \E pairs \in SUBSET (masters \X task[w].candidates) :
           /\ \A p \in pairs : p[1] # p[2] /\ about[p[1]] = about[p[2]]
           /\ \A p, q \in pairs : p[2] = q[2] => p = q
           /\ task' = [task EXCEPT ![w] = Done([@ EXCEPT !.pairs = pairs])]
    /\ UNCHANGED tables

\* merger.merge is called on a pair as find() saw it, whatever happened since.
NextPair(w) ==
    /\ task[w].pc = "pairs"
    /\ \E p \in task[w].pairs :
           task' = [task EXCEPT ![w] = CallMerge(p[1], p[2], @.pairs)]
    /\ UNCHANGED tables

-----------------------------------------------------------------------------
(* resolveExisting: email, then handle, then name.                         *)

\* The email match owns a handle: it is the record.
SettleByEmail(w) ==
    /\ task[w].pc = "email"
    /\ \E id \in With("email", task[w].in.email) :
           /\ creators[id].handle # None
           /\ task' = [task EXCEPT ![w] = Settle(@, id, creators[id])]
    /\ UNCHANGED tables

\* Mutant of LookPastEmail: forgets that a record with a handle is settled.
LookPastAnyEmail(w) ==
    /\ task[w].pc = "email"
    /\ LET hits == With("email", task[w].in.email) IN
       \/ hits = {} /\ task' = [task EXCEPT ![w].pc = "handle"]
       \/ \E id \in hits : task' = [task EXCEPT
             ![w].pc = "handle", ![w].byEmail = id, ![w].seen = creators[id]]
    /\ UNCHANGED tables

\* No email match, or one without a handle: the handle is looked up next.
LookPastEmail(w) ==
    /\ task[w].pc = "email"
    /\ LET hits == With("email", task[w].in.email) IN
       \/ /\ hits = {}
          /\ task' = [task EXCEPT ![w].pc = "handle"]
       \/ \E id \in hits :
             /\ creators[id].handle = None
             /\ task' = [task EXCEPT ![w].pc = "handle", ![w].byEmail = id,
                                     ![w].seen = creators[id]]
    /\ UNCHANGED tables

\* The person is split over two records and the source is trusted: merge.
FoundSplit(w) ==
    /\ task[w].pc = "handle"
    /\ task[w].byEmail # None
    /\ task[w].src \in MergeOnSplitSource
    /\ \E id \in With("handle", task[w].in.handle) \ {task[w].byEmail} :
           task' = [task EXCEPT ![w].pc = "mergeRead", ![w].target = id]
    /\ UNCHANGED tables

\* The email match stands: no split, or a source that may not merge.
KeepEmailMatch(w) ==
    /\ task[w].pc = "handle"
    /\ task[w].byEmail # None
    /\ \/ task[w].src \notin MergeOnSplitSource
       \/ With("handle", task[w].in.handle) \subseteq {task[w].byEmail}
    /\ task' = [task EXCEPT ![w] = Settle(@, task[w].byEmail, task[w].seen)]
    /\ UNCHANGED tables

FoundByHandle(w) ==
    /\ task[w].pc = "handle"
    /\ task[w].byEmail = None
    /\ \E id \in With("handle", task[w].in.handle) :
           task' = [task EXCEPT ![w] = Settle(@, id, creators[id])]
    /\ UNCHANGED tables

NoHandleMatch(w) ==
    /\ task[w].pc = "handle"
    /\ task[w].byEmail = None
    /\ With("handle", task[w].in.handle) = {}
    /\ task' = [task EXCEPT ![w].pc =
                   IF task[w].in.name # None THEN "name" ELSE "create"]
    /\ UNCHANGED tables

\* Mutant of FindByName: an undefined name in the filter matches every row.
FindByAnyName(w) ==
    /\ task[w].pc = "name"
    /\ \E id \in live : task' = [task EXCEPT ![w] = Settle(@, id, creators[id])]
    /\ UNCHANGED tables

\* findFirst on a column without an index order: any row of that name.
FindByName(w) ==
    /\ task[w].pc = "name"
    /\ LET hits == With("name", task[w].in.name) IN
       \/ /\ hits = {}
          /\ task' = [task EXCEPT ![w].pc = "create"]
       \/ \E id \in hits :
             task' = [task EXCEPT ![w] = Settle(@, id, creators[id])]
    /\ UNCHANGED tables

-----------------------------------------------------------------------------
(* applyIdentityFills: is the key free, or the record's own?               *)

FillEmail(w) ==
    /\ task[w].pc = "fillEmail"
    /\ task' = [task EXCEPT
           ![w].pc = ToHandleFill(task[w].in, task[w].seen),
           ![w].fill = IF With("email", task[w].in.email) \subseteq {task[w].target}
                       THEN @ \cup {"email"} ELSE @]
    /\ UNCHANGED tables

FillHandle(w) ==
    /\ task[w].pc = "fillHandle"
    /\ task' = [task EXCEPT
           ![w].pc = "update",
           ![w].fill = IF With("handle", task[w].in.handle) \subseteq {task[w].target}
                       THEN @ \cup {"handle"} ELSE @]
    /\ UNCHANGED tables

-----------------------------------------------------------------------------
(* doUpsert: create, or update by id; the transaction commits.             *)

\* A fresh id; CreatorId bounds how many rows are ever created.
Create(w) ==
    /\ task[w].pc = "create"
    /\ LET row == task[w].in IN
       \E id \in CreatorId :
           /\ about[id] = None
           /\ ~Clash(row, id, {})
           /\ creators' = [creators EXCEPT ![id] = row]
           /\ live' = live \cup {id}
           /\ about' = [about EXCEPT ![id] = task[w].person]
           /\ task' = [task EXCEPT ![w] = Return(@, id)]
    /\ UNCHANGED <<contracts, stats, audit>>

\* Another transaction took the email or the handle first.
CreateClash(w) ==
    /\ task[w].pc = "create"
    /\ Clash(task[w].in, None, {})
    /\ task' = [task EXCEPT ![w] = Retry(@)]
    /\ UNCHANGED tables

\* Mutant of Write: the update without its log entries.
WriteUnlogged(id, in, fs) ==
    /\ id \in live
    /\ ~Clash(Take(creators[id], in, fs), id, {})
    /\ creators' = [creators EXCEPT ![id] = Take(@, in, fs)]
    /\ UNCHANGED <<live, about, contracts, stats, audit>>

\* Row id as it is now with the fields fs of the payload, and its log entries.
Write(id, in, fs) ==
    /\ id \in live
    /\ ~Clash(Take(creators[id], in, fs), id, {})
    /\ creators' = [creators EXCEPT ![id] = Take(@, in, fs)]
    /\ audit' = [audit EXCEPT ![id] = @ \cup Entries(in, fs)]
    /\ UNCHANGED <<live, about, contracts, stats>>

Update(w) ==
    /\ task[w].pc = "update"
    /\ LET t == task[w]
           changes == Overwrites(t.in, t.seen) \cup t.fill
       IN /\ IF changes = {} THEN UNCHANGED tables
             ELSE Write(t.target, t.in, changes)
          /\ task' = [task EXCEPT ![w] = Return(@, t.target)]

\* P2002 on a filled key starts over; P2025, the row was deleted since, throws.
UpdateRefused(w) ==
    /\ task[w].pc = "update"
    /\ LET t == task[w]
           changes == Overwrites(t.in, t.seen) \cup t.fill
       IN /\ changes # {}
          /\ \/ /\ t.target \notin live
                /\ task' = [task EXCEPT ![w] = Idle]
             \/ /\ t.target \in live
                /\ Clash(Take(creators[t.target], t.in, changes), t.target, {})
                /\ task' = [task EXCEPT ![w] = Retry(@)]
    /\ UNCHANGED tables

-----------------------------------------------------------------------------
(* doMerge: target survives, byEmail is the duplicate.                     *)

\* Both rows and their stats are read; the fills are planned from these.
MergeRead(w) ==
    /\ task[w].pc = "mergeRead"
    /\ LET s == task[w].target
           d == task[w].byEmail
       IN IF {s, d} \subseteq live
          THEN task' = [task EXCEPT
                   ![w].pc = "mergeMove",
                   ![w].seen = creators[s], ![w].dupSeen = creators[d],
                   ![w].moved = {c \in Campaign : /\ <<d, c>> \in stats
                                                  /\ <<s, c>> \notin stats}]
          ELSE task' = [task EXCEPT ![w] = Done(@)]
    /\ UNCHANGED tables

\* contract.updateMany: the contracts of the duplicate that exist now.
MergeMove(w) ==
    /\ task[w].pc = "mergeMove"
    /\ task' = [task EXCEPT
           ![w].pc = "mergeDelete",
           ![w].moved = @ \cup {r \in ContractRef : contracts[r] = task[w].byEmail}]
    /\ UNCHANGED tables

\* Mutant of MergeFills: only the identity keys are filled.
MergeFillsKeys(t) == {f \in Key : t.seen[f] = None /\ t.dupSeen[f] # None}

\* Empty in the survivor, present in the duplicate, as read; no extra is filled.
MergeFills(t) == {f \in Fillable : t.seen[f] = None /\ t.dupSeen[f] # None}

\* The survivor after the merge, and then after the rest of doUpsert on it.
Merged(t) == Take(creators[t.target], t.dupSeen, MergeFills(t))
MergedBase(t) == IF MergeFills(t) = {} THEN t.seen ELSE Merged(t)
MergedChanges(t) ==
    Overwrites(t.in, MergedBase(t)) \cup
    {f \in Key : /\ t.in[f] # None
                 /\ MergedBase(t)[f] = None
                 /\ With(f, t.in[f]) \subseteq {t.target, t.byEmail}}
Absorbed(t) == Take(Merged(t), t.in, MergedChanges(t))

\* The duplicate is deleted, which cascades to contracts and stats stored for
\* it since the move, the survivor is filled, and the transaction commits.
MergeDelete(w) ==
    /\ task[w].pc = "mergeDelete"
    /\ LET t == task[w]
           s == t.target
           d == t.byEmail
       IN /\ {s, d} \subseteq live
          /\ ~Clash(Absorbed(t), s, {d})
          /\ \A c \in t.moved \cap Campaign : <<s, c>> \notin stats
          /\ creators' = [creators EXCEPT ![s] = Absorbed(t), ![d] = Blank]
          /\ live' = live \ {d}
          /\ contracts' = [r \in ContractRef |->
                 IF r \in t.moved THEN s
                 ELSE IF contracts[r] = d THEN None ELSE contracts[r]]
          /\ stats' = (stats \ ({d} \X Campaign)) \cup ({s} \X (t.moved \cap Campaign))
          /\ audit' = [audit EXCEPT
                 ![s] = @ \cup audit[d] \cup Entries(t.dupSeen, MergeFills(t))
                          \cup Entries(t.in, MergedChanges(t)),
                 ![d] = {}]
          /\ task' = [task EXCEPT ![w] = Return(@, s)]
    /\ UNCHANGED about

\* A row is gone, or a unique index refuses the survivor's keys or stats.
MergeRefused(w) ==
    /\ task[w].pc = "mergeDelete"
    /\ LET t == task[w] IN
       \/ /\ ~({t.target, t.byEmail} \subseteq live)
          /\ task' = [task EXCEPT ![w] = Done(@)]
       \/ /\ {t.target, t.byEmail} \subseteq live
          /\ \/ Clash(Absorbed(t), t.target, {t.byEmail})
             \/ \E c \in t.moved \cap Campaign : <<t.target, c>> \in stats
          /\ task' = [task EXCEPT ![w] = Retry(@)]
    /\ UNCHANGED tables

-----------------------------------------------------------------------------
(* What callers store for the creator they got back, in a later call.      *)

\* contract.upsert, keyed by the Outreach token: a stored contract keeps its
\* creator; a new one needs the creator row to exist still (foreign key).
StoreContract(w) ==
    /\ task[w].pc = "item"
    /\ task[w].item \in ContractRef
    /\ contracts' = IF contracts[task[w].item] = None /\ task[w].target \in live
                    THEN [contracts EXCEPT ![task[w].item] = task[w].target]
                    ELSE contracts
    /\ task' = [task EXCEPT ![w] = Idle]
    /\ UNCHANGED <<creators, live, about, stats, audit>>

\* creatorStats.upsert, keyed by (creatorId, statsCampaignId).
StoreStats(w) ==
    /\ task[w].pc = "item"
    /\ task[w].item \in Campaign
    /\ stats' = IF task[w].target \in live
                THEN stats \cup {<<task[w].target, task[w].item>>} ELSE stats
    /\ task' = [task EXCEPT ![w] = Idle]
    /\ UNCHANGED <<creators, live, about, contracts, audit>>

-----------------------------------------------------------------------------
(* Deletion and the two edit forms.                                        *)

\* Mutant of Remove: contracts do not cascade.
RemoveNoCascade(id) ==
    /\ id \in live
    /\ creators' = [creators EXCEPT ![id] = Blank]
    /\ live' = live \ {id}
    /\ stats' = stats \ ({id} \X Campaign)
    /\ audit' = [audit EXCEPT ![id] = {}]
    /\ UNCHANGED <<about, contracts, task>>

\* remove: contracts and stats cascade, the log keeps its rows without an id.
Remove(id) ==
    /\ id \in live
    /\ creators' = [creators EXCEPT ![id] = Blank]
    /\ live' = live \ {id}
    /\ contracts' = [r \in ContractRef |->
                        IF contracts[r] = id THEN None ELSE contracts[r]]
    /\ stats' = stats \ ({id} \X Campaign)
    /\ audit' = [audit EXCEPT ![id] = {}]
    /\ UNCHANGED <<about, task>>

\* updateManual: the changes are against the record read before.
CommitEdit(w) ==
    /\ task[w].pc = "edit"
    /\ LET t == task[w]
           changes == Overwrites(t.in, t.seen) \cup KeyChange(t.in, t.seen)
       IN \/ changes # {} /\ Write(t.target, t.in, changes)
          \/ /\ changes = {} \/ t.target \notin live
                \/ Clash(Take(creators[t.target], t.in, changes), t.target, {})
             /\ UNCHANGED tables
    /\ task' = [task EXCEPT ![w] = Idle]

\* updateDetails: given fields are set, cleared ones become NULL, and nothing
\* is logged.
CommitRosterEdit(w) ==
    /\ task[w].pc = "roster"
    /\ LET t == task[w]
           given == {f \in Field : t.in[f] # None}
           row == Take(creators[t.target], t.in, given \cup t.fill)
       IN \/ /\ t.target \in live
             /\ ~Clash(row, t.target, {})
             /\ creators' = [creators EXCEPT ![t.target] = row]
             /\ UNCHANGED <<live, about, contracts, stats, audit>>
          \/ /\ t.target \notin live \/ Clash(row, t.target, {})
             /\ UNCHANGED tables
    /\ task' = [task EXCEPT ![w] = Idle]

-----------------------------------------------------------------------------

Request(w) ==
    \/ \E in \in Payload, src \in Source :
          \E item \in Items(src, in.person) : StartUpsert(w, in, src, item)
    \/ \E s, d \in CreatorId : StartMergePair(w, s, d)
    \/ StartMergeAll(w)
    \/ \E id \in CreatorId, in \in Edit : StartEdit(w, id, in)
    \/ \E id \in CreatorId, e \in RosterEdit : StartRosterEdit(w, id, e)

Statement(w) ==
    \/ FindMasters(w) \/ NextPair(w)
    \/ SettleByEmail(w) \/ LookPastEmail(w)
    \/ FoundSplit(w) \/ KeepEmailMatch(w) \/ FoundByHandle(w)
    \/ NoHandleMatch(w) \/ FindByName(w)
    \/ FillEmail(w) \/ FillHandle(w)
    \/ Create(w) \/ CreateClash(w) \/ Update(w) \/ UpdateRefused(w)
    \/ MergeRead(w) \/ MergeMove(w) \/ MergeDelete(w) \/ MergeRefused(w)
    \/ StoreContract(w) \/ StoreStats(w)
    \/ CommitEdit(w) \/ CommitRosterEdit(w)

Next ==
    \/ \E w \in Worker : Request(w) \/ Statement(w) \/ Abort(w)
    \/ \E id \in CreatorId : Remove(id)

Spec == Init /\ [][Next]_vars

-----------------------------------------------------------------------------
(* Properties.                                                             *)

\* No record mixes two people: whatever transactions interleave, each identity
\* value of a row belongs to the person the row was created for.
RecordsPure == \A id \in live : Pure(creators[id], about[id])

\* A stored contract hangs off a record of the person who signed it, through
\* every merge and cascade.
ContractOnSigner ==
    \A r \in ContractRef : contracts[r] # None =>
        contracts[r] \in live /\ about[contracts[r]] = Signer[r]

\* Worker w takes a step from pc in this state.
Steps(w, pc) == task[w].pc = pc /\ task'[w].pc # pc

\* Identity keys are filled when empty and never overwritten by a source:
\* only the manual forms replace a key a record already has.
FillOnlyWhenEmpty ==
    [][\A id \in live \cap live', f \in Key :
          creators[id][f] \in {None, creators'[id][f]}
          \/ \E w \in Worker : Steps(w, "edit") \/ Steps(w, "roster")]_vars

\* The merge an administrator asked for with two ids.
ByHand(t) == t.in = Blank /\ t.pairs = {}

\* A merge the code chooses never deletes a record that holds a handle; an
\* administrator's may, and leaves the survivor with a handle then.
HandleHolderKept ==
    [][\A w \in Worker : Steps(w, "mergeDelete") =>
          \A id \in live \ live' : creators[id].handle # None =>
              ByHand(task[w]) /\ creators'[task[w].target].handle # None]_vars

\* A merge loses no contract, no stats campaign and no fillable field of the
\* duplicate: the survivor has each of them.
MergeKeepsAll ==
    [][\A w \in Worker : Steps(w, "mergeDelete") =>
          LET s == task[w].target IN
          /\ \A r \in ContractRef : contracts[r] # None => contracts'[r] # None
          /\ \A d \in live \ live' :
                /\ \A f \in Fillable : creators[d][f] # None => creators'[s][f] # None
                /\ \A c \in Campaign : <<d, c>> \in stats => <<s, c>> \in stats']_vars

\* Every changed field of a record is in the activity log with its new value.
ChangesAudited ==
    [][\A id \in live \cap live', f \in Field :
          creators[id][f] # creators'[id][f]
              => <<f, creators'[id][f]>> \in audit'[id]]_vars

\* The records that hold each email and handle, as an identity registry.
Columns == ({"email"} \X Email) \cup ({"handle"} \X Handle)
holders == [k \in Columns |-> {id \in live : creators[id][k[1]] = k[2]}]
Registry == INSTANCE IdentityRegistry WITH
    Key <- Columns, Record <- CreatorId, Kind <- [k \in Columns |-> k[1]]

\* The table implements the registry while nobody edits a record by hand to a
\* different key: no interleaving steals, trades or drops an identity key.
KeysOnlyClaimed == Registry!Spec
=============================================================================
