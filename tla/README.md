# A TLA+ model of Creator-Database

This directory specifies the parts of Creator-Database in which something can go
wrong that a unit test hardly reaches: database transactions that interleave,
background jobs that overlap requests, calls that fail and a process that is
restarted between two of them. The modules are checked with TLC on small
instances; the theorems are proved with TLAPS for every instance.

Paths below are those of the repository; `src/src/...` is its `src/` directory.

## The system

One Node process (NestJS) serves a REST API, runs four cron jobs and a poller,
and keeps everything in PostgreSQL through Prisma. Handlers are single-threaded
between two `await`s, so the unit of interleaving is the awaited call: a database
statement or a request to another service. Prisma's interactive transactions run
at PostgreSQL's default, READ COMMITTED: a statement sees what was committed
before it, and what a transaction read may change before it writes. A
redeploy or crash kills every handler in flight; only committed rows survive.

| component | state it keeps | operations | what makes it correct |
|---|---|---|---|
| Creator identity (`modules/creators`) | `creators` (unique email, unique handle), `activity_logs` | `upsertFromSource`, `createManual`, `updateManual`, `remove` | one record per person, no mixed records, keys only filled when empty, every change logged |
| Merge (`creator-merge.service.ts`, `modules/maintenance`) | moves `contracts`, `creator_stats`, `email_history`, `activity_logs` | `merge` inside an upsert, `mergeAll`, `merge-creators` | the handle-holder survives with everything the duplicate had |
| Contracts, stats (`modules/contracts`, `modules/creator-stats`, `sync/stats-sync`) | `contracts`, `creator_stats` | `createFromOutreach`, `upsertFromStats` | a contract belongs to its signer and is never lost |
| Roster (`modules/roster`) | contact and payout columns, mirror on the latest contract | `roster`, `profile`, `updateDetails` | edits are shown, mirrored and local; list, profile and filters agree |
| Email pipeline (`sync/email-sync`, `sync/claude-extraction`, `modules/email-history`) | `email_history`, `failed_jobs` | two jobs | every message ends up stored at its newest version and its thread extracted, or dead-lettered; no wasted Claude calls |
| Scheduler (`sync/sync.scheduler.ts`, `sync.controller.ts`) | `running` in memory | cron ticks, `POST /sync/...` | a cron run never overlaps a cron run of the same job, the guard is always released |
| Instagram DMs (`integrations/instagram-dm`, `modules/users`) | `instagram_messages`, half-filled `scout_entries`, the cached sender id | webhook, poller, re-filing, linking a sender, erasing one | every share is filed once, on the sender's sheet |
| Scouts, Deal Studio (`modules/scouts`, `integrations/deal-studio`) | `scout_entries` | create, edit, review, promote, retry | duplicates are warned about, an added row is recorded where it went, row numbers are unique |
| Administrators' console (`public/app.js`) | one tab's `state`, the address bar | open, edit, delete, filter, review, promote, send, assign | the page shows and acts on what it names; busy flags end; it agrees with the server when it is quiet |
| Scout's page (`public/scout.js`) | one tab's `state`, the cells on the screen | type, add, delete, poll | a poll never disturbs typing; the sheet converges to the database |
| Auth, mapping, statistics, documents | none that other parts depend on | | not modelled but for sign-in and sign-out, see below |

They interact through the tables: every source of creators calls
`upsertFromSource`; merges move the rows the other services store; the two email
jobs share nothing but `email_history`; promotion of a scouted row is one more
source of the upsert. The two pages are clients of the REST API: each request they send
may be answered late, out of order, with an error or not at all, and the page has moved
on by then.

## Modules

| module | models | used by |
|---|---|---|
| `Creators` | the creators table and every path that writes it | `MCCreators`, proofs |
| `IdentityRegistry` | what that table promises about emails and handles, without transactions | refined by `Creators` |
| `CreatorsProofs` | theorems about `Creators` | |
| `EmailExtraction` | the email sync and extraction jobs, cron guard, manual triggers, faults, restarts | `MCEmailExtraction`, proofs |
| `JobRunner` | what the scheduler promises about runs, whatever the jobs do | refined by `EmailExtraction` |
| `EmailProofs` | theorems about `EmailExtraction` | |
| `InstagramDm` | messages from the company's Instagram inbox, filed on the scouts' sheets | `MCInstagramDm`, proofs |
| `InstagramProofs` | theorems about `InstagramDm` | |
| `ScoutSheets` | the server side of the scouting sheets and of Deal Studio | `MCScoutSheets`, proofs |
| `ScoutSheetsProofs` | theorems about `ScoutSheets` | |
| `RosterView` | what is computed from a creator, its contracts and statistics, with the filters and the sort: operators only | `RosterDetails` |
| `RosterDetails` | the edit cards, `updateDetails`, and the contracts that arrive meanwhile | `MCRosterDetails`, proofs |
| `RosterProofs` | theorems about `RosterDetails` and `RosterView` | |
| `Console` | one tab of the administrators' console: roster, profile, contracts, deletion, sign-in | `MCConsole`, proofs |
| `ConsoleProofs` | theorems about `Console` | |
| `ReviewPage` | the scouts page of the same console | `MCReviewPage`, proofs |
| `ReviewPageProofs` | theorems about `ReviewPage` | |
| `ScoutPage` | one tab of the scout's page | `MCScoutPage`, proofs |
| `ScoutPageProofs` | theorems about `ScoutPage` | |
| `MC...` | the values of constants the `.cfg` files use | |

### Creators

A worker is a request or a job in flight; `task[w]` holds its local variables and
`pc` the statement it executes next. The actions follow the code:

| actions | code |
|---|---|
| `StartUpsert`, `Retry` | `upsertFromSource` and its one retry on P2002 |
| `SettleByEmail`, `LookPastEmail`, `FoundSplit`, `KeepEmailMatch`, `FoundByHandle`, `NoHandleMatch`, `FindByName` | `resolveExisting` |
| `FillEmail`, `FillHandle` | the look-ups of `applyIdentityFills` |
| `Create`, `CreateClash`, `Update`, `UpdateRefused` | the end of `doUpsert` with COMMIT, or the unique index's refusal |
| `MergeRead`, `MergeMove`, `MergeDelete`, `MergeRefused` | `doMerge`, inside an upsert or called by one of the next two |
| `StartMergeAll`, `FindMasters`, `NextPair` | `mergeAll`: `find` reads the records without a handle, then those with one, and its pairs are merged one after the other |
| `StartMergePair` | `merge-creators`: an administrator names any two records |
| `StoreContract`, `StoreStats` | `createFromOutreach` and `upsertFromStats`, after the upsert returned |
| `StartEdit`/`CommitEdit`, `StartRosterEdit`/`CommitRosterEdit`, `Remove` | `updateManual`, `updateDetails`, `remove` |
| `Abort` | a crash, timeout or lost connection: the transaction rolls back |

What is abstracted, and why the abstraction is sound:

- A record is its email, handle, name and one column more. A source overwrites the
  name and the columns it stands for when it gives another value, and a merge fills
  them where the survivor has none (`FILLABLE_FIELDS`); `extra` stands for those a
  source overwrites and a merge does not fill, so that a merge may lose them.
- `about` and `person` are history variables: who a record was created for and whom
  a payload speaks of. No guard of a handler reads them, except that a human's edit
  is taken to concern the right person, and that the two records an administrator names, and
  those `find` has evidence for, are taken to be one person's. Whether they have a handle is only
  asked where the code asks: by `find`, before the first of its merges, and not by
  `merge-creators` or `doMerge`.
- A transaction's writes become visible when it commits. Its last statements and
  the COMMIT are one action; a merge's writes are collected (`moved`, `MergeFills`)
  and applied by `MergeDelete`. A row lock only makes an interleaving impossible that
  the model allows as a refusal or an abort (`Abort` covers deadlock victims too).
- Ids are never reused. `CreatorId` bounds the rows ever created; `Create` is
  disabled beyond it.
- `audit` keeps the fields and new values logged, not the order; nothing reads it,
  which is why `CreatorsRules.cfg` may leave it out of its view.

### EmailExtraction

`rows` is `email_history` (version and `processedAt = null` of each message),
`arrived` the order of `createdAt`, `running` the scheduler's in-memory set,
`task` the runs in flight. `Tick` is `runGuarded`, `Trigger` the manual POST that
calls the job directly; `FetchPage`, `FindMessage`, `CreateMessage`,
`UpdateMessage`, `MessageFails` are the email sync; `List`, `ReadThread`, `Extract`,
`MarkThread`, `ThreadFails` the extraction; `Close` and `RunFails` the end of a
run; `Crash` a restart. The provider (`Send`) is external: it may add or edit a
message at any time, up to `MaxVersion`. A message's content is its version. The
creator link of a thread and the upsert an extraction triggers are left to
`Creators`: they read and write nothing that is modelled here, so `Extract` is one
step, but any of its calls may fail (`ThreadFails`). All messages are taken to fit in
the five pages a run reads; older messages are never read again by the code, and
`Converges` says nothing about them.

Fairness: weak fairness of each run's `Continue` (the event loop resumes a handler
whose call has answered; calls that hang are cut off by the clients' timeouts, which
is a fault here), and of each job's `Tick` (the cron timers keep firing). Nothing is
assumed fair about `Send`, `Trigger`, `Crash` or failures, which are bounded by
`MaxFaults`: with faults for ever no job would get anything done.

### InstagramDm

`ledger` is `instagram_messages`, `sheet` the `scout_entries` in the order of
`createdAt`, `users` the handle and cached Instagram id of each scout, `task` the
requests and runs in flight. `Deliver` (webhook), `Tick` (poller), `ManualSync` and
`RefileAtBoot` start the loops that call `ingest`; its statements are `SkipSeen`,
`NotSeen`, `FindCached`, `NotCached`, `MatchHandle`, `CacheId` (`resolveScout`),
`FindHalf`, `FillHalf`, `ReadRowNumber`, `CreateRow`, `RowClash` (`applyProfile`,
`applyReel`, `createRow`) and `Record`, `RecordClash`. `StartSetHandle`, `PutHandle`,
`ReadHandle`, `FindWaiting` are the handle's update and `claimForScout`; `Assign` is
`assignSender`; both end in `Release`, `Link`, `ReadPending`, `Drop`, which is
`relinkAndReprocess`. `Forget` is the erasure; `CallFails` and `Restart` are faults.
`Resume` is where a loop goes when a message is done, `Throw` what an exception does:
the webhook and the re-filing catch it per message, every other caller ends.

A message is its sender and the kinds of link it carries, at most one of each
(`Shares`); a cell holds the message its link came from. The ledger's ids are not reused and
grow with `receivedAt`, so "oldest first" is the order of ids; messages read from Meta
come in any order. The look-up of a username is merged with the read that
follows, since Meta's answer depends on nothing modelled. Left out: deactivated scouts,
scouts editing their rows while a message is filed, `upgradeReelLinks`, limits on how many
rows are re-filed, and inboxes longer than the 25 conversations of 25 messages a poll reads.

Fairness: weak fairness of `Continue` and of the poller's `Tick`, as above. `Poller`
is a set of its own because the timer does not wait for a request to end.

### ScoutSheets

`rows` is `scout_entries`, `accounts` and `campaignOf` the scouts' accounts and the
campaign assigned to each, `creators` the handles with a record, `studio` the
campaigns Deal Studio has. An `Editor` is a request of `create`, `update`, `remove` or
`review`; a `Promoter` one of `promote` or `deal-studio`.

| actions | code |
|---|---|
| `StartCreate`, `ReadNumber`, `Insert`, `NumberTaken`, `SheetGone` | `create`, with its tries for a row number |
| `StartEdit`, `SaveLink`, `CheckDuplicate` | `update` (and `create`) up to `duplicateWarning` |
| `Delete`, `Review`, `RowGone` | `remove`, `review`, and the row that was deleted meanwhile (P2025) |
| `StartPromote`, `Upsert`, `Mark` | `promote` up to `sendToDealStudio` |
| `StartRetry`, `ReadForStudio` | `sendToDealStudio`, from either route |
| `Taken`, `CampaignGone`, `NoAnswer` | the POST to Deal Studio and its one retry |
| `RecordAdded`, `RecordFails`, `RecordFailed` | the outcome on the row |
| `AssignCampaign`, `RemoveAccount`, `DeleteCreator`, `DeleteCampaign`, `Restart` | everybody else |

Deal Studio is external, and nothing makes a repeated call harmless: one that times out may have been
taken (`NoAnswer` with `took`). `Send` is the POST, and `Senders` the requests that have begun one for a row
and not yet recorded its outcome: nothing keeps a second from joining them. `sentTo`, `lost`, `warned`
and `crossed` (the rows two requests were sending at once) are history. The upsert is one step here,
as `Creators` has it in full.

### RosterView and RosterDetails

`RosterView` has no state: `Contact`, `Payment`, `CampaignList`, `ProfileViews` and
`PlatformBreakdown` are the profile, `RosterRow` a row of the list, `Parties` the party
named in an agreement, `PriorCampaigns` and `Category` what Deal Studio is told,
`MatchesRow`, `Buckets` and `VisibleCreators` the browser's filters and sort.
`RosterDetails` writes what they read. A tab opens a card over the profile it was
shown (`OpenCard`), sends what differs (`Submit`: the contact card the changed items, the
payout card all of its keys), and the request goes through `ReadCreator`,
`WriteCreator` or `WriteRefused`, `FindLatest`, `Mirror` and `Reply`, one statement each.
`ImportCreator` and `ImportContract` are the two writes of `createFromOutreach`. `clean`
is history: the tabs whose edit no other write overlapped. An address is one value, and a
name is compared as one (the code trims and folds case). The sort is stated by the place of each
row, one more than the rows that go before it, which is what a stable sort gives.

### Console, ReviewPage and ScoutPage

Each is one tab and the server as that tab sees it. `ui` (`page`) is the script's `state`
object, `net` a bag of requests that are in flight or answered but not yet handled: an
event handler runs to its `fetch` and puts one in, `Serve...` answers it from the database
of that moment, `Fail` with an error or no answer, and `...Answer` is the code after the
`await`, in any order. `Expire` ends the session, so that the next answers are 401.

`Console`: `Open`, `Back`, `Navigate`, `EditCards`, `Save`, `ViewContract`, `OpenDelete`,
`ConfirmDelete`, `SignIn` and `SignOut` are the handlers; what a creator's data is does
not matter here, only whose it is, so a profile is the creator it is about and the
roster how often it lists each. `LoadProfile` is `loadProfile` up to its fetch, `PutBack`
the undoing of a failed delete. `ServeLogin`, `ServeSignedOut`, `ServeRoster` and `ServeCreator` are the
server: sign-in, the read guard, the list, and the requests about one creator. The list has all
creators or as many as it takes, any of them (`ListOf`, `RosterLimit`: `roster()` has `take: 1000`,
ordered by a time that is not modelled). `mixed`, `ghosts` and `cut` (who was left out of a list) are
history.

`ReviewPage`: the rows of one scout under a filter (`ChangeFilter`, `LoadScouts`), their review
(`ReviewRow`), the promote dialog (`OpenPromote`, `ConfirmPromote`), sending again
(`SendToStudio`), and the account's campaign (`EditCampaign`, `PickCampaign`). `Refreshed`
is `refreshScoutRow`. `crossed` is history: the rows that two requests in flight at a
time were about, or that somebody else changed.

`ScoutPage`: `rows` is what the script holds and `shown` what the document shows; a
`Render` copies one to the other and takes the focus and what is being typed away. A field is a
cell of the table (`cell`, `draft`) or the one of the form for the Instagram handle above it (`form`,
`text`, `UseForm`, `IgSave`); `SheetHasFocus` only asks about the table. `Poll` is the timer,
`ApplyLiveRows` the way a poll's answer is folded into a sheet in use, `Elsewhere` the
administrators and the Instagram inbox. Messages and the theme only cause renders, and
a render may happen at any moment (`Repaint`).

## Runs

| run | asks | bounds |
|---|---|---|
| `creators_rules` | do the merge rules hold for any combination of identities? | one worker, 3 records ever, 2 emails x 2 handles in any combination, 1 name, 1 column merges do not fill, 1 contract, 1 stats campaign, all forms, clean-ups and merges by hand |
| `creators_race` | what survives two interleaved transactions? | two workers, two people with one email, handle and name each, 3 records, 1 contract, deletes, aborts, retries |
| `email_cron` | do the cron jobs get everything done, and nothing twice? | 2 threads of one message, batch of 1, 2 versions, 1 fault or restart |
| `email_overlap` | and when requests overlap them? | 1 message, 2 cron runs and 1 manual run in flight, 2 versions, 1 fault |
| `ig_routes` | what survives the poller, a webhook or request, an erasure and a restart interleaved? | 1 message with both links, recorded as NO_LINKS before; 2 scouts, 2 handles, 1 poller and 1 other handler, 2 requests or erasures, 1 fault, no ageing |
| `ig_sequential` | is every message filed once, in pairs, on the right sheet when nothing overlaps? | 4 messages (profile, reel, both, none) of one sender in any order, redelivered at will, 2 scouts, 2 requests, 2 rows leaving the window |
| `scout_sheets` | does a row go where it says, once, and is a duplicate warned about? | 1 scout, 1 handle, 2 campaigns, 2 rows, 2 editing and 2 promoting requests, 3 of them at a time, 2 edits, 1 administrative change, 1 fault or restart |
| `roster_details` | is a save shown everywhere, and do the views agree? | 2 tabs, 2 saves, 1 contract (new, or known and sent again), 2 creators x 3 histories of contracts and statistics, 2 other rows |
| `console` | does the page show, and act on, what it says it does? | 3 creators, lists of 2, 2 cards, 3 clicks, 4 requests in flight, 1 fault, 1 end of session |
| `console_wrong_delete` | the counterexample below | 2 creators, lists of 2, 3 clicks, nothing fails |
| `review_page` | does the list settle to the database, and a row go where the dialog said? | 2 rows of one scout, 2 campaigns, 2 events |
| `scout_page` | does live sync disturb nobody and converge? | at most 2 rows and the form for the handle, 3 events, 1 poll in flight, 2 verdicts |

Three records are the fewest for a merge of two with a bystander, and for a record
created, deleted and created again while another transaction holds its id. Two
workers suffice for every pair of transactions; a third only repeats the second, since
none holds anything between statements. Two values per key are the fewest that can
contradict each other. In the email model a batch of one is the smallest limit that
makes a thread wait for another. In `ig_routes` one message suffices, since its three
properties are about what may happen to one message; pairing, which is about several, is
checked in `ig_sequential`, where two of a kind and one of each are enough for a row to be
completed, missed or overwritten. Two rows are the fewest for a duplicate and for a
clash of row numbers, two campaigns for a row in the wrong one, two promoting requests for one to
overtake the other, and one handle for two rows to share; the theorems about
`ScoutSheets` lift its bounds, that on the requests at a time included. Lists of two among three creators leave somebody out until one is
deleted, so that lists that are complete and lists that are not both occur. `roster_details` starts from a creator without history, one
whose contract and statistics share a campaign with a statistic that has no name and no
views, and one whose posts have views by platform; a contract that is not signed arrives, so that
the roster's segment and Deal Studio's badge differ. In the pages, an event
is a click or a change made elsewhere; two of them suffice for answers to overtake each
other, the third is a delete or a sign-in while they do.

What bounds end: the pages, `ScoutSheets` and `RosterDetails` stop when their clicks, edits or
events are used up and every request is answered, which is why their configurations do
not check for deadlock.

Fairness of `ScoutPage`: the browser's timer fires (`Poll`), some request is answered, and
some answer is handled. Nothing is assumed about which, about the scout or the session;
`SheetConverges` therefore only speaks of a sheet that stays on the screen with nobody in
a cell. A request that is never answered holds nothing up but itself.

Passing runs show, for the creators: when nothing runs concurrently, identity keys are only
filled when empty (`FillOnlyWhenEmpty`); the handle-holder survives every merge the code
chooses, also when the pairs of a clean-up are older than its first merges, and after one an
administrator asks for the survivor has a handle if either had (`HandleHolderKept`); and the
survivor has every contract, statistic and fillable column of the duplicate
(`MergeKeepsAll`). No interleaving mixes two
people (`RecordsPure`), moves a contract to another person or leaves it dangling
(`ContractOnSigner`), changes a record silently (`ChangesAudited`) or gives a key two
owners (`KeysOnlyClaimed`, the refinement of `IdentityRegistry`). For the emails: every
pending message is processed and the table converges to the provider (`Converges`),
cron calls to Claude are all for pending threads no other run works on
(`ClaudeOnlyWhenPending`), and the runs implement `JobRunner` (`RunsGuarded`).

For Instagram messages: under any interleaving a share only reaches the sheet of a scout
who had the sender's handle or was assigned the sender (`OnEntitledSheet`), no step of a
handler unfiles what was filed (`AppliedKept`), and every message is in the ledger in
the end (`Recorded`), though re-filing deletes its row first. One handler at a time, shares are filed
once (`FiledOnce`) and where the ledger says (`AppliedOnSheet`), halves meet
(`HalvesPaired`), a changed handle cuts the old account off and setting one claims what
waited (`HandleRules`).

For the sheets: of two rows with one handle somebody was warned, in whatever order the
saves went (`DuplicateWarned`); a row recorded as added is in the campaign recorded, and
not shown as failed (`AddedWhereRecorded`); it gets to a second campaign only after an
outcome was lost (`SecondCampaignOnlyIfLost`); both unless two requests were sending it at once. On the
scout's page a poll takes no cell's focus and nothing typed into one, writes the page anew only when
rows came or went, and leaves no row behind what it brought (`LiveSync`); the sheet converges
(`SheetConverges`).

For the roster: campaigns and platforms add up to the views on record (`ViewsConserved`);
the list and the profile agree, filters and sort lose nobody, and Deal Studio is told the
same campaigns (`ListSound`, with `SegmentsAgree`); a save that nothing overlapped is shown,
and named in the latest agreement (`SavedEverywhere`), and touches nothing else
(`EditIsLocal`). In the console a busy flag waits for an answer that is still to come
(`BusyHonest`), profile and contracts are those of the creator selected
(`ShownIsSelected`), the roster lists every creator once when it is quiet, but for those a list from the server left out (`RosterAgrees`);
on the scouts page a row's last answer leaves it as the database has it (`RowsSettle`)
and a promoted row goes where the dialog said (`SentWhereNamed`). The exceptions are in the
properties' comments and below.

### Where the code and its documentation disagree

`console_wrong_delete` shows one: an administrator opens one creator, goes back, opens
another, and the first profile's answer comes last. The page then shows the first
(`app.js:538` does not ask whom the answer is about) while the second is selected; the
delete dialog names the first and asks for the word DELETE (106, 1229-1231), and `confirmDelete` deletes the
second. The dialog's text (`app.js:1232`) and the comment on `confirmDelete` (737)
promise otherwise. `ShownIsSelected` excepts this case (`mixed`).

The following were met while modelling and have no run; where a property would contradict
them, its comment or a history variable excepts them.

Creators and merges:
- Two sources that both read a record without an email and bring different ones: the second
  overwrites the first (`creators.service.ts:485`, against README 201).
- A contract stored for the duplicate between a merge's re-pointing and its delete is
  deleted by the cascade (`creator-merge.service.ts:208`, against 17).
- A duplicate chosen because it has no handle gets one before the merge deletes it, and its
  handle disappears (`duplicate-creators.service.ts:350`, against `creators.service.ts:400-403`).
- Two upserts by name only create two records (`creators.service.ts:446`, against 83-84 and
  README 206).
- The roster's edit form changes identity fields and logs nothing (`roster.service.ts:324`,
  against README 140-146).
- The duplicate finder names `pool[0]`'s evidence when several masters match while the survivor
  is `ranked[0]`.
- `mergeAll` uses pairs found before its first merge, and neither it nor `merge-creators` nor `doMerge`
  asks again who has a handle (`duplicate-creators.service.ts:350`, `maintenance.controller.ts:55`,
  `creator-merge.service.ts:121-135`): an administrator may fold a record with a handle into another that
  has a different one, which `creators.service.ts:400-403` calls "a conflict to leave alone".
- `FILLABLE_FIELDS` leaves out `paymentDetails`, `campaignId`, `currency`, `latestEmailDate`,
  `lastReplyDate`, the rates and flags the mail provider reports and `status` (`creator-merge.service.ts:25-56`):
  a merge loses what only the duplicate had of these, though the comment above it says that it "fills the
  survivor's EMPTY fields from the duplicate" (17-20). `MergeKeepsAll` speaks of the fillable ones.

Email and Instagram:
- A reply stored while its thread is with Claude is marked processed unread
  (`email-history.service.ts:122`, against 27-28).
- `POST /sync/claude` bypasses the guard, so two runs may analyse the same thread
  (`sync.controller.ts:39`, against README 216 and 223); `email_overlap` does not claim
  `ClaudeOnlyWhenPending`.
- The webhook and the poller both find a message unknown and both file it
  (`instagram-dm.service.ts:331`, against 991-992 and README 86).
- The properties of `ig_sequential` fail when two handlers overlap: two profiles may
  complete the same row (298); a handle changed between the match and the caching of the id
  leaves the old account linked (217, against `users.service.ts:289`); a message recorded
  as unmatched just after a claim read what waits stays unmatched (685, against 673-680). An
  admin's edit of a handle claims nothing.
- A message of an assigned sender is recorded under its scout's handle, so assigning that
  sender to a scout without a handle adopts one that may not be the sender's
  (`instagram-dm.service.ts:505`, through 670), and what its owner sent before stays unmatched.
  `HandleRules` speaks of handles a scout set (`own`), which such a handle is not. It takes two
  senders and four requests; the proof asked for it before TLC was given them.

Scouts and Deal Studio:
- A row goes to two campaigns after a lost outcome, or when two requests promote it at a
  time, against "One row goes to one campaign" (`scouts.service.ts:330`).
- Of two requests that send a row at once, one may record it as added and the other fail, having
  read the row before: its `catch` writes its error and its own campaign on the added row
  (`scouts.service.ts:400-407`), which then shows as failed and, when the scout was reassigned in between,
  names a campaign it never got to. `AddedWhereRecorded` excepts it (`crossed`).
- When the link of a promoted row is edited before a retry, Deal Studio gets the new handle
  for the creator that was promoted.

Roster:
- The list has `take: 1000` (`roster.service.ts:101`): of more creators some are in no list, and the page
  and its counts do not say so. `RosterAgrees` excepts them (`cut`).
- A name edit is not shown once a contract has a signer's name; clearing an email, phone or
  address shows an older contract's.
- Overlapping saves lose payout keys (`roster.service.ts:282`) and may mirror in the other
  order; a contract that is sent again overwrites what was mirrored on it.
- The first payout edit of a creator without a payout record hides the other keys of the
  contract's (283, against 548-550): why `EditIsLocal` asks for a record.
- A creator whose campaigns have no views counts 0 in the list and its average on the
  profile; the list counts statistics, the profile campaigns; two contracts of one campaign
  are described by the older. Estimated shares of the platforms add up but for rounding.

Pages:
- `confirmPromote`, and the form for the handle on the scout's page, stay busy after a 401.
- A failed load of the contracts is kept as "no contracts", a failed load of the accounts is
  shown as "No scouter accounts yet"; the scout's `loadError` stays though later polls succeed.
- The reply to an older filter overwrites a newer one's; a review's reply during a reload
  empties the list until the load is answered.
- The promote dialog names the old campaign when it is opened while a pick is in flight.
- The breadcrumb on the scouts page leads nowhere visible; the palette stops scanning after
  201 matches.
- A poll that sees an added row before the add's own reply shows it twice until the next one;
  a stale poll takes back an own edit in `state`; a save's reply stores a new verdict
  without painting it, and later polls see nothing new.
- A poll that brings a row more or less writes the whole page anew unless a cell of the table has the
  focus (`scout.js:366-369`, 411-416), so that what a scout is typing into the form for the Instagram handle
  (468-480) is lost, against "this must never disturb someone mid-edit" (355). `LiveSync` says when.
- Any message, a saved link or an added row re-renders the sheet and loses what is being typed.

## Proofs

`CreatorsProofs` proves for every number of workers, records and values
`TypeCorrect`, `PureRecords`, `ContractsOnSigner`, `KeysFilledOnlyWhenEmpty`, `KeysFilledAsRead`,
`ChangesLogged`, `HandleHoldersKept`, `MergesKeepAll`, `KeysUnique`, `KeysNeverTaken` and
`RequestsEnd`, and `TableIsRegistry`, the refinement.

`RecordsPure` is not inductive: an update writes values a worker read long before
into a row that has changed since. The inductive invariant

    IInv == TypeOK /\ RowsKnown /\ ContractOnSigner /\ \A w \in Worker : Good(task[w])

(`RowsKnown` is what `RecordsPure` says of each row, with the person it was created
for) adds that every id a worker holds (`target`, `byEmail`) was created for the person its
payload speaks of, and that every copy it holds is pure. This survives other
workers' steps because ids are never reused and `about` never changes once set. Each
action has a lemma (`LookUpStep`, `MergeReadStep`, `MergeDeleteStep`, ...); `NextGood`
combines them.

The action properties need more. `FillGiven` says that a worker only plans to write fields
its payload gives, and keys its transaction has read as empty (`Intended`), and that a clean-up
merges the pairs it has found (`Listed`). `ChangesLogged`
assumes `RosterEdit = {}`: the roster's form logs nothing. The refinement adds
`UniqueKeys`, which rests on `Clash` guarding every write, and needs `OneKeyEach` (each person has
one email and one handle): otherwise a source or a form may trade a key of a record for another.

What is said of filling keys has two parts. `KeysFilledAsRead` needs no hypothesis: outside the manual
forms a key is replaced only by a transaction that has read none there, whatever came between that
read and its write. `KeysFilledOnlyWhenEmpty` (`FillOnlyWhenEmpty`) is about the record as it stands
when it is written, for payloads with any keys, and needs `OneWorker`: nothing but a deletion or an abort
comes between the statements of a request. With two workers it fails (see the disagreements above).

`HandleHoldersKept` (`HandleHolderKept`) and `MergesKeepAll` (`MergeKeepsAll`) say what a merge
keeps, under `OneWorker` as well; with two workers both fail, so the hypothesis is what the code needs.
`AllHeld` strengthens the invariant: what a request has read of its rows is still so unless one of
them was deleted, the duplicate of a merge the code chose has no handle from its look-up on, and what
the survivor lacks of its statistics and contracts is in `moved`. For a clean-up the rows of the
pairs still to come keep and lack handles as `find` saw them (`PairHeld`): the survivor of such a merge
has a handle already, so none of them gives anybody one. A deletion only makes `Held` say less, and the merge
that finds a row gone is refused.

`KeysUnique`, `KeysNeverTaken` and `RequestsEnd` need no hypothesis either. `KeysUnique`: no two records
share an email or a handle; each write is checked against the rows as they stand, and a merge deletes the
duplicate before it fills the survivor. `KeysNeverTaken`: a key has another record only once a merge
deleted the one that had it. This is what is left of the refinement without `OneKeyEach`.
`RequestsEnd` is the part of liveness that needs no fairness: `Left` counts the statements a request may
still make, seven an attempt and two attempts an upsert, and each change of a request that has begun
brings it nearer to its end (`Nearer`): fewer statements are left or, in a clean-up, fewer pairs, whatever
the others do.

`ScoutSheetsProofs` proves, for any number of scouts, rows, handles, campaigns and requests,
`TypeCorrect` (with the unique row numbers), `DuplicatesWarned`, `AddedIsRecorded`,
`SecondOnlyIfLost` and `RequestsEnd`, all without a hypothesis on how many requests promote at a
time: what two of them may do to a row is in the properties (`crossed`).

- `TInv` is `TypeOK` with `Good` for each request (a step past a look-up holds an id that
  has been given, a step past a call the campaign and handle it sends) and `SentKnown`: only
  rows that have existed were sent, so a new row was sent nowhere.
- `DInv` says of two rows with one handle that somebody was warned, or an editor that wrote one
  of them has its look-up still before it. The look-up follows the write, so the later of
  the two writers finds the other row.
- `SInv` is the two properties with `Alone` (two requests are not sending one row unless it is
  crossed), `Sender(w)` (the row a request is sending is not added,
  and was sent where this request took it and nowhere else, unless an outcome was lost or the row is
  crossed; a crossed row was at least sent where the request took it) and
  `Held` (a row that was sent, is not added, not lost and not crossed, is in the hands of the request
  that sent it). Row ids are not reused and only `sendToDealStudio` marks a row as added.

`RequestsEnd` needs no hypothesis: `Left` counts the calls a request may still make, seven at
most, from the attempts it has used (`Counted`), and each change of it lowers that.

`EmailProofs` proves, for any number of messages, threads and runs, `TypeCorrect`,
`RunsAsPromised` (the runs implement `JobRunner` but for its fairness), under `TicksOnly`
(nobody triggers runs by hand) `CallsNotWasted`, and under `FiniteMail` (there are finitely many
messages and threads) `RunsEnd`.

- `TInv` adds to `TypeOK` what a run has to hold at each step, and `OneRunEach`: two runs that
  ticks started are of two jobs. A tick found its job unguarded, so nobody else has it, and the
  end of a run releases only its own job.
- `CInv` adds that every run is a tick's, that the threads left in the extraction's batch are
  pending, and that the thread at hand is not among them. Only an extraction marks messages
  processed, with ticks alone there is one, and it marks the thread it took off its batch.

`RunsEnd`: `Left` is three calls for a message not yet fetched, two for one of the page at hand
and four for a thread of the batch, with what the item at hand still needs. A run takes these off
sets it read once, so mail that arrives, other runs and failures do not prolong it.

`InstagramProofs` proves, for any number of messages, scouts and handlers, `TypeCorrect`,
`SharesEntitled` (`OnEntitledSheet`), `FiledStays` (`AppliedKept`) and `HandlersEnd`. Their invariant is `Stored`
(types and keys of the tables, that a handle or a cached id entitles, and that an unmatched row
has the sender's username or none) with `Good` for every handler:

- A handler that places a message holds a scout who was entitled to its sender when it was
  found, and rights are only ever given. Nothing has to be true of the tables any more by the
  time it files, so no interleaving matters (`Rights`).
- The ids a handler has to re-file have been given, and the row with that id is not filed if it
  is still there (`Unfiled`). Rows do not change and ids are not reused, so this stays true
  whatever is recorded or erased meanwhile.

`KeepGood` says that no handler's step disturbs another's `Good` as long as rights, rows of the
sheet and ids only grow (`Grows`); `WorkerStep` and `ResumeStep` reduce every action to that and
to its own handler.

`HandlersEnd`, for finitely many messages and senders (`FiniteInbox`), is by a lexicographic order:
the loops still to come, the senders left, the steps up to a sender's messages, the messages
left, and the calls for the message at hand (`Effort`). Each step lowers the first of these that it
changes. The messages left are finitely many since their rows have ids that were given.

For one handler (`OneHandler`) it proves `HalvesMeet` (`HalvesPaired`), and for one handler when no
call fails and nothing is erased (`OneAtATime`) `SharesFiledOnce` (`FiledOnce`), `LedgerTrue`
(`AppliedOnSheet`) and `HandleDecides` (`HandleRules`), for any number of messages, senders, scouts,
requests and rows. The hypotheses are what the code needs: two handlers overtake each other
between a read and a write (see the disagreements above); a message that fails between two rows, or
is erased from the ledger, is filed again when it is delivered again; and a look-up that fails
leaves a message unmatched. `IInv` holds throughout, and each result adds one more part:

- `PInv`: no scout has rows waiting for both halves, and between the look for a row and the write
  the row found still lacks this half (`Waits`), or there is still none. `Files` is all that
  filing does to the sheet.
- `FInv`: a share is in one cell at most, and in one only if the ledger has the message as filed
  or the handler has filed that share of the message it is at (`Done`); a row of the ledger that says so is
  right. From the look for a message to the ledger it stays unknown (`Steady`), so that it is
  recorded once and as what it is.
- `HInv`: a waiting row whose sender has the handle its scout set is `Claimed` by the run that follows
  from that handle, by its place in the run: a sender or a row still to come, or the one at
  hand. The rows a run holds are in the ledger, each once (`Listed`), so none is skipped; the
  handle it read is the scout's, so it is not refused half-way (`Loops`, `Linking`).

`ConsoleProofs` proves, for any number of creators, clicks, faults and ends of a session,
`TypeCorrect`, `BusyCorrect` (`BusyHonest`), `ShownCorrect` (`ShownIsSelected`), `RosterCorrect`
(`RosterAgrees`) and `RosterWhole`. The invariant of the first three is `Base` (types, `Flags`, `Start`) with `About(c)` for some `c` unless `mixed`, and `Others`:

- `Flags` adds to `BusyHonest` that one sign-in is in flight at most, and `Start` that a page which
  does not know its session yet has asked for nothing else: its answer finds no sign-in due.
- `About(c)` says that what is selected, shown and due is about one creator `c`. Nothing selected is
  nobody, so it survives a link back; the history selects a creator without a load only if it
  is the one shown; and what is sent is about the creator selected. Opening a profile starts a new
  `c`, and `mixed` records that something about another was due.

`SendStep`, `AnswerStep`, `PageStep` and `LoadStep` say this for any page after a step; the lemma of
each action shows which of the four it is.

`RosterCorrect` adds `Ledger`, which accounts for every creator while requests are under way:

- A list that was answered has all creators there are but for those `cut`, and no other but `ghosts`
  (`Lists`). A delete
  in flight while a list is due, or whose creator is listed again, makes its creator a ghost
  (`Deletes`), so that neither a late list nor the row put back after a failure is unaccounted for.
- A creator who is there and not listed was taken off the list by the one delete in flight
  (`Present`, `Taken`), which `Flags` says is one at most; its failure puts the row back.
- `RosterWhole` is the case that a list takes all creators there are (`AllFit`): `cut` stays empty, and
  the page lists each of them once.
- A 401 takes the page to sign-in, where `Present` claims nothing; the page comes back only
  with a fresh list.

`ReviewPageProofs` proves, for any number of rows, campaigns, clicks and failures, `TypeCorrect`,
`RowsSettled` (`RowsSettle`) and `SentAsNamed` (`SentWhereNamed`). Its invariant is `Types`, `Flags` (every
button that waits has one request, and what is shown as loading is to come), `RowsGood` and
`DialogGood`:

- A row that is not `crossed` has at most one request in flight. `RowsGood` says what the page, the
  answer and the database say of it at each stage: before it is answered the page shows what the
  database has; afterwards the answer carries it. A row the filter leaves out has only
  requests that leave its verdict alone.
- `DialogGood`: the promote dialog, and a promotion not yet answered, name the scout's campaign. The
  dialog is only opened with nothing in flight about its row, and a change of the campaign
  crosses all rows it is about.

`ScoutPageProofs` proves, for any number of rows, verdicts, clicks and polls, `TypeCorrect` and
`LiveSyncDisturbsNobody` (`LiveSync`: of the form for the handle, that it is only written anew when rows
came or went). Its invariant is `Types` with

- `Fits`: flags go up and down with their requests, the session is asked for alone, a sign-in is in
  flight only on its page, and the timer is set while the sheet is shown. Without the second and
  third an answer could enter the sheet twice and set the timer elsewhere.
- `Typed`: what is typed into the table is in the cell that has the focus, and the focus is on the
  sheet; and `Shows`: the
  rows shown are the rows held, so that a verdict that is painted is painted on its row.

`Without`, the sheet without a row, takes the rows that stay by their place (`Nth`); that there is
an n-th of them follows from the least number with as many before it (`NthThere`, `Least`).

`RosterProofs` proves, for any number of tabs, edits, values, contracts and other rows, `TypeCorrect`,
`SavesShown` (`SavedEverywhere`), `EditsLocal` (`EditIsLocal`), `ListCorrect` (`ListSound`) and
`ViewsKept` (`ViewsConserved`).

- The edits rest on `Undisturbed`, for the tabs in `clean`: up to its write, a request faces the
  profile its card showed, and its merged payout record is that of the creator as it
  stands; after it, the creator holds what was sent and shows the rest as before; at the mirror the
  contract it read is the latest one, as it was read; at the answer that contract holds what was
  sent. A write takes every other tab that has begun out of `clean`, so only a tab's own
  step has to be followed. `Equipped` types what a card and a mirror have at hand.
- That the mirror hides nothing needs that it writes only what was sent: contracts that agree on
  an item stand in alike (`FirstSame`). What the latest contract gains in payout details shows
  only when the creator has none (`had`).
- The list is correct in every typed state. `Places`: in a finite total order the place of an
  element, one more than the elements before it, is its own, and every place is taken. `ListedExactly`
  applies it to the comparison of a column with the position as tie-break, for any filter: the list has
  the rows that match, each once, in order; `Sorted` is the case of no filter. `OneBucket` goes
  through the facets.
- The views add up in every typed state, too. `SumFunctionOnSet` is defined by choosing one term after
  the other; that the choice does not matter (`SumTakesOut`: a sum is any of its terms and the
  sum of the others) is shown by least counterexamples, since of the subsets of a finite set that
  violate a claim some have no other below them (`FewestWith`). From that follow sums of parts
  (`SumParts`: each campaign's row has the views of its statistics, and each statistic is in one
  row), equal terms (`EvenShares`: what rounding adds is at most half a view a platform) and tables
  (`SumBothWays`: the posts' views by platform or by post).

Assumptions on the constants: NULL is not a value, contract tokens differ from
campaign ids, every payload and edit speaks of one person (`PayloadAssumption`,
`RosterAssumption`), every contract has a signer; a creator's id is none of the console's other
addresses (`CreatorAssumption`), and the number a list takes is a number (`LimitAssumption`); on the pages
NULL is not an answer either, and the form for the handle is not a row; for `ScoutSheets`,
those named in the module; for `RosterDetails`, the two
cards' payout keys differ, NULL is no number, and creators, histories and other rows have
the columns the schema gives them (`CreatorAssumption`, `HistoryAssumption`, `OthersAssumption`).
TLC evaluates them in every run.

Only model-checked: all liveness (`Converges`, `Recorded`, `SheetConverges`, the fairness of
`JobRunner`), which is out of the prover's reach. The part of it that needs no fairness, that no
request, run or handler goes on for ever, is a safety property and proved (the two `RequestsEnd`,
`RunsEnd`, `HandlersEnd`). Every safety property a run checks is proved, some under
the hypotheses named above.

## Not modelled

Authentication and guards beyond sign-in, sign-out, a session that ends and the refusal that follows
(signatures, roles and keys are checks of one request); mapping, normalisation and the classification of links (parsing; the models start from
normalised values); statistics, health, agreements but for the parties they name (read-only);
passwords, roles and activation of accounts; the loops of the outreach and stats syncs over
leads and campaigns, whose calls are the upserts of `Creators`; `upgradeReelLinks` and the
diagnosis of the inbox; the command palette, themes and texts of the pages; migrations and
seed; `sync_runs` counters; the scoring of duplicate pairs.

## Plan

1. `DuplicateFinder`: the scoring of pairs as pure operators, checked against the
   documented rule, in place of the choice in `FindMasters`.
2. `StatsSync` and the outreach sync: their loops over campaigns and leads, and the
   choice between candidate creators; the link of an email thread to its creator.
3. Link classification and normalisation of identities as pure operators.
4. The server of `Console` and `ReviewPage` composed with `Creators` and `ScoutSheets`.
5. The refinement of `IdentityRegistry` with weaker hypotheses: which sources trade a key for
   another when a person has several.
