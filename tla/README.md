# A TLA+ development of the TV Binge Friend backend

TV Binge Friend (`src/tvbf`, Python, FastAPI, SQLAlchemy, Postgres) keeps a
mirror of the TMDB catalog and, on top of it, users' viewing history, their
friends, weekly recommendations and push notifications. All durable state is in
Postgres. The concurrency is that of HTTP handlers against each other, of
scheduled jobs (own processes) against each other and against the handlers, and
of the outside world (TMDB, push services) against both.

Almost every handler and job step has one of two shapes, and these are where
the code is hard to test:

- *read, then write from the copy*: one READ COMMITTED transaction whose
  SELECTs each see what is committed when they run, and whose writes, made from
  what was read, commit together at the end;
- *commit, call out, commit*: a transaction that records an intention, an HTTP
  call with no transaction open, and a transaction that records the outcome.

The models give the reads, the call and the writes steps of their own, so that
anything may commit between them.

## Inventory

| Part | State | Operations | What is hard | Correct when |
|---|---|---|---|---|
| Connections (`app/services/connection_*`, two repos) | `app.connection`, one row per unordered pair; `app.connection_request_log`, the ledger | send, accept, decline, cancel, remove, block, unblock; signup by invite; account deletion | every handler reads, then writes by id or by pair; unlocked counts | no friendship without consent, blocks stand, the ledger agrees with the inbox, outreach is bounded |
| Web Push (`push/`, two repos, `push_test_service`) | `app.push_subscription`, `app.push_delivery` | two delivery tasks, test push, subscribe, unsubscribe | send between two transactions, crashes, re-runs, purge, a browser that changes hands | nothing on record is sent again, nothing goes to a device its user lost, dead devices are retired |
| Catalog runs (`catalog/runs`, `tmdb/ingest`, `tmdb/update`) | `catalog.ingest_run`, the shows' `tmdb_synced_at` stamps | full pass, daily delta, startup cleanup | runs of hours that fail, die, resume and overlap while TMDB changes; the cursor | no change is stepped over; a succeeded pass covered the catalog |
| Rate budget (`rate_budget`) | `catalog.rate_budget`, one bucket row per upstream; leases in memory | acquire | several processes and callers on one row, leases, crashes | the bucket never grants beyond its capacity and refill; nobody waits for ever |
| Nightly passes (`tmdb/tombstone`, `popularity`, `trending`, `change_events`, `catalog/last_aired`) | columns of shows; the `trending` snapshot; `show_event` | ride a delta, one transaction each; the trending job | short exports, passes that fail, a day read hours earlier | a bad export purges little, tombstones settle, a snapshot is replaced whole, an event is told once |
| Accounts (`account_service`, tokens, sessions, throttles, handles) | users, sessions, single-use tokens, invites, attempts, handle releases | signup, login, reset, email change, handle change, deletion | tokens and invites read before they are consumed, unlocked checks, resets racing logins | one invite, one account; a token used once; no session outlives a reset |
| Viewing history (`episode_service`, `rating_service`, `my_shows_service`, activity) | watches, ratings, memberships, activity events | mark, unmark, bulk, rate, add, remove | watch and event must move together; derived lists | the ledger of events tells what the tables tell |
| History migration (`tmdb/enrichment`, `human_queue`, `season_dedupe`, `episode_map`, `episode_repoint`, `orphan_retire`, `reconciliation`) | mapping columns, user rows keyed by episode | match, queue, confirm, reject, dedupe, map, repoint, retire, verify | resumable batches against live users, reports that are reviewed first | no user's row is lost or doubled; nothing owned is retired; verdicts stand |
| Weekly recommendations (`jobs/weekly_recommendations`, `recommendations/`) | recommendation sets | generate, list, dismiss | an advisory lock, an LLM call between read and write, partial failure | the last succeeded set stays current; nothing excluded is shown |
| Airdates (`airdates/`, `catalog/offsets`) | season offsets, oracle links, stamps, pairs of dates | reconcile, and the upserts that correct what they write | stale links, two writers of one date, stamps of transactions that overlap | TMDB's date is never lost; no correction argues with itself; every show heals |
| Upsert (`tmdb/upsert`) | catalog rows of a show | upsert one payload, whole or a part | four writers with payloads of different ages, seasons pruned, rows authored locally | each block of rows is of one payload; local rows stay |
| Backfills (`tmdb/*_backfill`) | marker columns | resumable loops | aborts, resumption, a work list that a nightly pass reorders | every show is reached and marked only with its data |
| Clients (`tmdb/client`, `airdates/client`, `llm/`) | none | request, retry | throttling beside failures | bounded retries, hints obeyed |
| Job shell (`jobs/scheduled` and its kin) | none | run, ping, exit | a run that is not its own, crashes before the run exists | the deadman hears of a success only |
| Reports, feedback (`report_service`) | reports | submit | notification after commit | a report is kept though its notice fails |
| Browsing (`catalog/browse_queries`) | none of its own | lists, search, credits | orders that must be total, halves that must add up | pages add up; badges agree with the list |
| Routers, email, config, telemetry | none of their own | I/O | | |

How they interact: deltas record show events that the events task of Web Push
later selects; the catalog runs, the backfills and the airdate job all call
upstreams through the rate budget; signup by invite and account deletion write
the tables of Connections and Push; recommendations read viewing history;
the migration passes rewrite the episode ids that viewing history refers to.

`PROJECT.json` lists each part with its status, and under `hazards` the lines
where each bites, with the properties that cover it.

## Connections.tla

`conn` and `log` are the rows of the two tables, `req[p]` is the request that
handler process `p` serves with the row it read (`seen`) and the day its
transaction began, `now` counts days, the unit of the throttle's windows.
An operation is a read action (`Accept`, `Withdraw`, `Remove`, `Block`,
`Unblock`, and for a request to be sent `SendCeiling`, `SendCount`,
`SendCooldown`, `SendPair`, one per SELECT in the order the router makes them)
and a write action (`...Write`) that commits from the copy. `Rollback` ends any
of them with nothing written: an error, a lost connection, or the victim of a
deadlock (block writes ledger then connection, the others the reverse).

A write action is one step although it is several statements. Under READ
COMMITTED the first statement that touches a row locks it until the commit, a
second writer waits and then re-evaluates its WHERE, and nobody sees an
uncommitted row, so concurrent writers of one row take effect in the order of
their commits; inserts meet the unique index of the unordered pair the same way
(`Insertable`). `connection_service.delete` has no caller and is left out.
Rows older than the ledger, which a pending request of before its migration
would be, are not in `Init`.

Properties: `PendingEntryIsLive` (the ledger's pending entry has its request);
`AcceptedByConsent`; `BlockIsWall`; `OutreachBounded` (the count is read without
a lock, so `n` handlers may overshoot the cap by `n - 1`, and never by more,
whatever outcome frees nothing). `TypeOK`, `UniqueIds`, `SeenFits` (how stale a
handler's copy may be: the id it will write by still names that request of that
pair, and a state it saw left behind has not come back), `OnePendingEntry` (the
premise of `resolve`, which updates by pair) and `OutcomesTerminal` are proved
and not run.

Runs. `ConnRaces`: two accounts, of which one may join on the other's invite and
may leave, two handlers, two days in which the reputation ceiling falls from 1
to 0 and the cooldown lasts a day; with three ids of each table every pair of
operations can overlap, including one that deletes the row another read and a
third request that takes its place. More accounts add nothing: every operation
touches one pair.
Three disagreements of the code with its comments, without runs: decline and
cancel delete by id what they read as pending, so an accept that commits in
between is deleted as a friendship, with a ledger that says accepted;
`resolve` updates by pair, so a
decline whose request was cancelled and sent again meanwhile settles the ledger
entry of the new request; and blocking back replaces the row, so the second
blocker's unblock takes away the first one's block with it, though `unblock`
says that only the original blocker can.

## PushDelivery.tla

`subs` and `rows` are the two tables; `work[w]` is a delivery run or a test
handler, with the selection still to do (`todo`), the devices read for the
current user (`pairs`) and the push in flight (`item`); `join[h]` is a
subscribing handler between its DELETE and its INSERT. `told` is a ghost: every
pair a run has recorded sent. Time is in hours.

`Gather`, `NextUser`, `Claim`, `RecordSent | RecordGone | RecordFailed`,
`Purge` and `Finalize` are a run; `Crash` may follow any of them, most
interestingly between a claim and its record. What the push service answered is
chosen at the record, which covers a push that was accepted but timed out.
Selection (candidates, preferences, the daily cap, rendering) is any subset:
the rules for what is sent twice must hold whatever is selected. Bulk deletion
of the doomed rows by `upsert` becomes visible at its commit, as it does in
Postgres.

`Tick` does not pass while a push is in flight, as the HTTP timeout of ten
seconds is far below `STALE_PENDING` of an hour, and no run outlives `RunSpan`;
`PushAssumption` has `Window + RunSpan <= Retention`, true of the settings
(hours against 90 days), and `RecordedOnce` depends on it.

Properties: `SingleFlight`, `RecordedOnce`, `ClaimedForOwner`. `PushRuns` checks
them with one run of each task, a test handler, two users of one browser and a
subscription id more than that.

A disagreement without a run: two users who subscribe one browser at once. The
second DELETE does not see the first's uncommitted row, the second INSERT
conflicts with it and updates its keys without its user, so the row stays with
the first user and the second one's keys, though `upsert` says that "whoever
subscribes with it now is that user".

## CatalogSync.tla

A show's payload is a version, `changes` is what TMDB's change feed lists,
`mirror[s]` the version show `s` was last stamped with. `runs[r]` and `proc[r]`
are a row of `catalog.ingest_run` and the process that works on it; a place in
`Runs` is used again once its row can no longer matter, so any number of runs
follow each other, `Cardinality(Runs)` of them at a time. Of finished rows the
code only ever reads the latest delta's cursor, the start of the first full
pass and whether one succeeded: `history`.

`Start` takes any subset of the running rows to be too stale for the guard to
see, since the clock is not in the model; this also covers two starts whose
inserts cross. `Fetch` and `Commit` are the two halves of `mirror_series`.
`FetchGone`, `FetchFails` (with the abort at `threshold`), `Finish`, `Raise`,
`Die`, `Sweep` (startup cleanup) and `Expire` end shows and runs in every way
the code has. TMDB is assumed to list a change under its UTC day at once.

`NoChangeLost` is the point of the cursor: every change of an earlier day than
the cursor is in every stamped show. Its exceptions are explicit in `lost`: a
show that the run that *succeeded* had skipped (the code counts it and moves
on), one that an overlapping run overwrote with an older payload, and one held
when a delta started cold, before any pass had completed (that delta covers one
day back and then owns the cursor). `PassCovers`: a succeeded pass stamped or
counted every show. `CatalogRuns` checks both over three days, two shows and two
runs at a time, with abort thresholds 1 and 2: enough for a delta that starts in
the middle of another, a pass that takes two attempts, a day boundary inside any
run, and a skip that aborts or does not. Two runs of one kind do not
commute: the one that fetched first may commit last, and the mirror of a show
then goes back a version until the show changes again. This is the second
exception in `lost` and not a property of its own.

The passes that ride a delta and its show events are Nightly and CatalogPasses,
the pings JobShell: they touch neither stamps nor cursor.

## TokenBucket.tla and RateBudget.tla

`TokenBucket` is the promise: a bucket of `Cap` tokens that gains one every
`Fill` ticks, grants only what it holds, and may err slow. `RateBudget` is how
the code keeps it: the row (`tokens`, `age`, `lock`), and in each process a
limiter with its local queue of callers, its lease, the level it read under the
row lock and the time it has left to sleep. `Lock` is `_take` up to the read,
`Take` and `Refuse` its two ends with their commit, `Wake` the retry, `Spend`
the return of `acquire`; `FailClosed` and `Crash` may come anywhere. Amounts
are exact multiples of a tick's refill where the code has floats. A row that is
absent is seeded full by the first to ask, under the lock of its own insert,
and so is not told apart from a full one. `span`, `granted`, `spent` and `held`
are ghosts that watch one window at a time; `Mark` begins one anywhere.

`BudgetRuns`: two processes with two callers each, a bucket of two tokens, two
ticks to the token so that a refusal meets a token half refilled, a lease as
large as the bucket (TMDB's setting), four requests of one token (all callers
ask for one), windows of two ticks. `SpendBacked`,
`ImplementsBucket` (the refinement, with the level the row would be read at as
the bucket's) and `Served`. `Served` holds under `FairSpec`: processes run (weak
fairness of their own steps), the clock advances, and Postgres, which queues the
waiters of a row lock, lets in whoever keeps asking (strong fairness of `Lock`).
Requests are bounded, and that matters: between processes there is "no queue and
no ordering guarantee" (ADR-0006), so against unending demand of the others a
process could starve.

The row never grants too much, but what a process spends in a window is not so
bounded: a lease may be spent long after it was taken, when the row has
refilled, so with the lease of a whole bucket that TMDB's client uses a window
may see up to twice the bucket's burst. `WindowGrant`, which is proved, speaks
of grants, and `SpendBacked` of what is spent against what was ever granted.

## Accounts.tla

`account`, `released`, `invite`, `session` and `token` are the tables (`account`
and `token` functions from the ids in use to rows; `released[h]` is who released
`h`, `Nobody` once that account is deleted). A request, made once, is two steps:
`Start...` reads all that the handler's checks read, `Commit...` writes what they
allowed, and nothing is locked between. A commit meets only what the database
enforces: the unique address and handle (`EmailTaken`, `HandleTaken`), the
foreign keys (a token or session of a deleted account) and the row count of an
UPDATE; else it is the matching `Refuse...`. Signup goes on to issue a
verification link in a transaction of its own (`Issuing`, `CommitIssue`).
`Revoke`, `RevokeOthers`, `Disable` and `Enable` are single statements of one
transaction and so one step.

Throttles on addresses and the login lockout only ever refuse, and any request
may be refused: a refused request is one that does not start. The two caps that
other rows decide, changes of handle and tokens per minute, are guards. No
window elapses, so a release counts against `MaxReleases` for good and a token
does not expire: expiry only refuses more. A session or password is named by the
request that made it.

`held`, `inherited`, `proven` and `redeemed` are ghosts of what happened;
`crossed` is the one that makes the properties exact. It collects what two
requests in flight together had both read (an account's handle, credential, a
token, an invite), and the accounts disabled while a request of theirs was in
flight. The properties say that the code keeps its promise except there:
`HandlesAccounted`, `NoInheritance`, `VerifiedMailbox` (with no exception),
`SessionsCurrent`, `RedeemedOnce`. So they say both how far the unlocked checks
reach and that nothing else, in particular no request of another account, can
break them.

`AccountRuns` checks them with one account, one newcomer who may sign up with or
without the one invite, three handles, two addresses, a link mailed before, and
every interleaving of three requests with the revocations and the flag. Three
requests are two that overlap and one that meets what they left; `MaxReleases`
is 2 (3 in the settings) and `TokensPerMinute` 1 so that both caps are met.
Requests are made once, so the system does stop (`CHECK_DEADLOCK FALSE`). The
run also explores Recommendations (below): the two share no state, so
`MCAccounts` lets a behaviour be of accounts (`half`) or of weeks.

What the exceptions leave out, nothing checks: a login in flight with a reset may
leave a session that outlives it, and two signups or redemptions at once may use
one invite or token twice. Both are in `crossed`, which so delimits them.

A disagreement without a run is the case the comment in `change_handle` says
cannot happen: of two overlapping changes of one account's handle the second
releases what it had read, and the handle between is free for the taking. It is
the exception of `HandlesAccounted`.

## ViewingHistory.tla and EpisodeRepoint.tla

`db` holds the committed rows of the watches, ratings, memberships and the
ledger of activity events, `episodes` the rows of `catalog.episode`. A request
is one transaction of a few statements (`Put`, `Drop`, `MarkSeason`,
`UnmarkSeason`, `MarkShow`, `UnmarkShow` make its program after the SELECT that
finds its episodes), and here the single statements are the steps: the table and
the ledger must move together, and nothing but row locks keeps two requests of
one user, or a request and a pass, apart. `Execute` is a statement; what it sees
is `View(p)`, what is committed and what its transaction did. `Wait` is a
statement that needs a row another transaction holds: it keeps to the rows it
had found, and goes on when that transaction ends (a row that went meanwhile is
passed over, a place taken meanwhile fails an UPDATE). An INSERT that finds a
committed row does nothing and locks nothing, an upsert locks it, and a new row
holds its episode (`Parents`). `Commit` and `Rollback` end a transaction; a
deadlock is a pair of waiting statements of which one rolls back.

`EpisodeRepoint` adds the pass that moves history off copied episodes to the
ingested row of the same number: a batch is `Select` (the work list, with the
people withheld), `Move` for each of the three tables, `Retire`, and the count
before `RepointCommit`; `Abort` is a count that does not add up, an error or the
death of the job, after which the pass may start again.

`crossed` makes the exceptions exact, as in Accounts: a fact two transactions
had in hand at once, one of them taking it back or moving it. Each exception is
real. A mark whose INSERT found the row there and an unmark that commits before
the mark's second statement leave an event with no watch. A mark on a copy that
commits while the pass's DELETE waits for it is gone with the copy, by the
foreign key's cascade: the comment on `_DELETE` says "nothing is deleted out
from under a watch record", and without the exception TLC finds `BatchKeeps`
violated through `RetireWaits`.

Properties: `OnlyShowMarksSilence` (of all marks, bulk marks, undoings and moves,
only the commit of a show mark leaves a watch with no event that tells of it, and
only a watch that the mark does not cover); `LedgerAgrees` (ratings and
memberships against their events, both ways); `NoOrphans` (no row, and no event,
for which there is no foreign key, on a deleted episode); `BatchKeeps`;
`MovesWhole` (all of one person's rows on a copy move, or none). An event tells of
a watch (`Told`) if it is the watch's own, or of a bulk mark that covers the
episode: a season's covers all but copied specials, a show's neither specials nor
what has not aired. That an event has its watch is no property, as it does not
hold of the code: taking back a season or a show deletes its event and the
watches, and leaves the events of episodes marked one by one.

`HistoryRuns`: one user, whose history never touches another's rows; a season
with a copy, its ingested twin, a copied special and an episode yet to air, which
users may mark; two requests of any kind, from any history of marks and ratings,
and any number of passes of one copy a batch. Two requests and a pass are enough
for each pair of statements to meet and for a third transaction to meet what they
left. Memberships are left out of the instance: their statements are those of a
rating with another key, and `RatingsAgree` is proved of both.

`ShowMark` (`WatchesTold`: a watch that no overlapping request took back always
keeps an event that tells of it) finds the one way the code loses an event. The
show mark's collapse (`delete_episode_and_season_events_for_show`) is wider than
the mark, which also asks for an air date in the past, though its docstring says
(`activity_event_repo.py:99-106`) that it collapses what "the show mark covers", as
a wider one "would claim a coverage the mark does not have". Who marks an episode
before it airs, and then the show, keeps the watch and loses its event. In the
same way it takes the event of a season-0 mark, whose specials it does not mark;
the instance has no season 0, but `Uncovered` and the proof do.
`OnlyShowMarksSilence` says that this is all: it is checked, and proved, with every
other way to lose an event excluded.

## OrphanMatching.tla and OrphanRetire.tla

`OrphanMatching` is the matcher, a module of operators: `Evidence`, `ResolveLink`
and `LinkByTitles` find the show that an orphan's leftovers belong to, and
`Matches` is the four tiers, each (`ExactKey`, `UniqueTitle`, `ShiftedKey`) a set
of pairs that are alone on both sides, added by `Then` where neither half is
taken. Titles are folded already, and `Cause` is what the report says of an
orphan.

`OrphanRetire` is the pass and its report. `episodes`, `seasons` and `shows` are
the catalog, `rows` the committed rows of users (watch, rating and the event of
each), `txn` what the open transaction has deleted and added, and `pass` the run:
its shows left, the links it found, what `_Catalog` has cached (`cache`), the
pairs and the doomed ids of the transaction. `Plan` is `build_show_plan`; then one
statement a step: three moves (`Move`), the places on users' lists (`Track`),
three deletions (`Clear`), and `Retire`, which deletes the catalog rows and
commits. `StartSeasons`, `RetireSeasons` (a batch a step) and `StartShows` follow
if there is no limit; the shows' transaction uses the same statements, with
`LeaveBlocked` for shows that still hold something. `Report` records the loss
list. `Abort`, anywhere, is an error, a batch that does not add up or the death
of the job; `StopAtLimit` stands for every limit, as any number of retired
orphans may be the limit.

A request of a user (`Put`, `Drop`) is one step, its commit, and waits for rows
that the pass has locked; ViewingHistory has the statements of a request. `Ingest`
is the catalog update adding an episode.

Properties: `KeepsHistory`, `IngestedStays`, `FullPassEmpties` and
`ReportForetells`. Two exceptions in them are the code's: a mark put on an orphan
after its table was moved and before it is deleted goes with the orphan
(`fresh`); and the report does not list a row whose place on the survivor is
taken only during the pass (by another show's row that got there first, or by the
place on the list that `Track` made), so the user has that row on the survivor.
A survivor may itself be an orphan show that is linked on: whoever has both keeps
what was on the survivor, one link further, and the first row is deleted
(`Rests`).

`OrphanRuns`: one user (users share no row), any history of theirs on five
episodes and three shows, in three catalogs; one request at any moment, any number
of runs with and without a limit, one late episode. The catalogs have every tier,
an offset of a revival, a link by titles, a collision of two tiers, an ingested
episode below an orphan season with an heir, a show that an import blocks, and a
show linked to one that is linked on.
`OrphanResume` (`ResumeForetells`) finds that the pass is not resumable as it
says: when a run ends early, by `--limit`, an error or a crash, after it has
retired the episodes of an orphan show, the next run has no titles and no
evidence left to link the show with, and deletes the users' place on the show
that the report, and an unbroken run, move.

Disagreements without a run: two orphan shows that link to one survivor, with a
user on both, make the show-grain UPDATE break its unique key and fail every run,
though `user_history.py` says that its guards keep a collision from taking a batch
down (`Move` requires the landings to differ); and an unmatched orphan's rating is
listed as a deduplication when the user has only watched the absorbing episode.

## Recommendations.tla

`sets` holds the rows of `user_recommendation_set` with their shows,
`record[u]` and `dismissed[u]` what must never be recommended to `u`, `lock`
the pass whose connection holds the advisory lock, and `work[p]` a pass: its
list of users (taken in any order, the code's is by age), the user whose turn it
is, what their payload was read to be and when the turn's transaction began,
which is the `generated_at` of its set. A turn is `CompileTaste`,
`CompileExclusion` (two statements, between which the user may act), then `Skip`,
`TooLittle` or `Call`; then `FirstAnswer` writes what is believed, or
`Unbelievable` asks again and `SecondAnswer` or `NoSecond` writes the better of
the two. An answer is the shows its titles resolve to and how many resolve to
none, so that `Believable` is the code's arithmetic. `Fail` is anything raised in
a turn, `Record` the failed set in a transaction of its own. Every show on record
is in one tier, so a payload is a set of shows; the pass that a crash or a lost
connection frees of its lock goes on, and `lost` remembers it. The shows are the
constant `Catalog`, users `Readers`, and the specification is `WeeklySpec`, since
`JobsProofs` speaks of it beside `Nightly` and a run beside `Accounts`.

Properties: `ShownStands` (a page goes blank only by what its own user does, not
by a failed or empty set), `PaidOnce` (two sets that succeeded one after the
other have different payloads, unless a lock was lost), `SkipKeepsWhole` (the set
that an unchanged payload lets stand has nothing a reader no longer sees: the
hash covers the dismissals, and not the tiers alone). They are checked in
`AccountRuns`, as the second half of its behaviours: one user (users share nothing
but the lock and the count of failures in a row), two shows, two passes, two
changes by the user.

## Offsets.tla and Airdates.tla

`Offsets` is the arithmetic: a date is stored as a pair (`air`, what readers see,
and `raw`, TMDB's, where they differ), `Pair` writes one under a table of
offsets, `Project` rewrites the stored one under another, `Judge` decides from
the two sides' dates what a season's offset is, or refuses, and `Replaced` puts
verdicts into the table.

The last air date takes the offset of the season of the last dated episode, which
the two writers work out from different episodes (`SeasonOfLastDated`): the upsert
from the payload's and `last_episode_to_air` (`LastGiven`), the projection from the
stored rows, episodes authored locally among them (`LastStored`).

`Airdates` is the two writers of one show's dates. An upsert is `StartUpsert`
(the offsets are read) and `CommitUpsert`; a turn of the nightly pass is
`LoadLink`, `LookupShow`, `GetShowEpisodes`, `JudgeSeasons` and `CommitTurn`,
with a request to the oracle between them and anything else committing
meanwhile. `FailTurn` and `FailUpsert` are errors, crashes and the deadlock the
two can get into. `clock` is the order in which the transactions and the stamps
began: `now()` in Postgres is the transaction's start, so a stamp can be older
than what it hides, and the pass then only heals the show on its turn of the
sweep. `Change` is TMDB, TV Maze (a date, an id that moves or goes), or the
show's scope.

Properties: `DatesDerive` (TMDB's dates, and those of authored episodes, which no
upsert writes, can always be told from the stored pairs, and the pairs are those
dates under the recorded offsets, except while the last upsert had read offsets
that a turn then replaced, `crossed`, which never shows on an authored episode; of
the last air date, under the season that either writer takes); `NoFlapping` (a
turn that finds what the last verdict rested on changes nothing); `Heals` (a show
in scope with a counterpart comes to show what the comparison justifies, for
good). `Heals` holds under `FairSpec`: transactions end, days pass, and the pass
runs on some nights, which is strong fairness of `BeginPass`, as it is disabled
for the rest of a day on which it ran; no fairness is assumed of upserts,
of the oracle or of failures, which are bounded by `MaxEvents`.

`AirdateRuns`: two seasons, three episodes of TMDB's and an authored one, two
schedules of TMDB (in one the second season is dated by `last_episode_to_air`
alone, so the two writers differ on the last season), five states of the oracle (a
day off, moved to another id and agreeing, in two minds, gone, unknown), a table
with a wide offset or none, a sweep of two days, a negative remembered for one,
two events. Two events are what a stale link with a changed date takes, or a
failed turn with an upsert.

## PayloadStore.tla and PayloadUpsert.tla

`PayloadStore` is `tmdb/upsert.py` as operators from a store and a payload to a
store, one for each writer, composed by `UpsertSeriesPayload` in the order of the
code. A namespace that a response did not carry is `Absent`, an empty one states
a zero. `PayloadUpsert` has the four processes that write payloads on a show (the
mirror, and the backfills of credits, recommendations and season regulars); each
fetches (`Fetch`) and writes later, TMDB and the others moving in between. Seasons,
episodes and creators are functions from their ids, as nothing a writer does goes
by their place; a season's row also has its surrogate `id`, by whose order
`SeasonByNumber` tells twins apart.

`vintage` is a ghost: for each block of rows, what the payload that last spoke
for it writes on an empty show. Properties: `OneVintage` (each block is of one
payload, whatever was stored before and whoever writes), `EpisodesHome` (an
episode hangs on a season of its number that outlived the prune, also where TMDB
had one number twice), `LocalKept` (no payload touches a row that no payload
wrote, but that an episode loses a season it hung on when TMDB withdraws the
season). What a season has of networks and regulars is in its vintage while it is
stored: one that is deleted and comes back starts from nothing.

`UpsertRuns`: four versions of one show (a season; a second one, twice;
only the younger twin; lists that cannot be read, are empty or missing), rows
copied from TV Maze and authored by hand, two changes upstream. Each version
differs from the others in every block, so a block of two vintages would show. Of
the two episodes no payload names one hangs on a season of TV Maze, the other on
a season of TMDB that goes, the two cases of `LocalKept`.

`vintage` leaves out credits of creators without an id upstream: an upsert of
such a creator stores another copy each time (see Disagreements).

## CatalogPasses.tla, Nightly.tla and Backfills.tla

`CatalogPasses` has the passes over many shows as operators: the daily id export
and its floors (`FeedIsImplausible`), `ReconcileTombstones`,
`RefreshPopularity`, `RecomputeLastAired`, the trending snapshot, the show
events. `Nightly` is the night they ride (`night`: mirroring, then the export,
popularity, tombstones and the roll-forward of `last_aired`, each of which may
fail alone) and a backfill that runs for hours through several nights (`fill`:
pages of a keyset, by id or by popularity, which the night rewrites under it).
`Backfills` is what a backfill reports. TMDB's holdings, the file it published
and the midnight are actions of their own.

Properties: `PurgeBounded` (a short export tombstones at most the share the
floors leave open of shows the published file lists, and no export tombstones a
show without a TMDB id, which none lists), `LastAiredFits`,
`NoneSkipped` (a backfill that comes to its end has considered every show that
lacked its stamp at the beginning, save those that a night's scores took from
behind all it had read to before some of it, `RosePast`; a show that rises and
stays behind is owed still),
`Settles` (tombstones come to agree with TMDB and never add up to a mirror that
refuses its exports) and `Filled` (run again and again, a backfill stamps every
mirrored show that TMDB serves, although others always fail or are gone).
Fairness: an export is published daily, the delta is scheduled nightly and each
of its steps returns, a backfill's steps return and somebody starts one without
a limit again and again (strong, as it is disabled while one runs). Faults are
bounded, since against a fault on every night nothing settles; so are the series
that always fail, to fewer than `FailureThreshold`, since as many in a row wedge
a backfill (see Disagreements).

`NightlyRuns` explores three scenarios: a backfill by id of three mirrored shows
of which two go; one by popularity with equal scores across a page; and nights
without a backfill, across a midnight, from a mirror most of which is
tombstoned. A page is two shows, the threshold two, so that a page boundary falls
between equal scores and one failing show does not abort.

## HistoryMigration.tla

The passes before the repoint: matching shows by exact ids or by title and year,
the human queue, the season dedupe, the episode map and the count that proves
nothing was lost. Each statement that writes is an operator from rows to rows,
given what its program had read earlier, so that any two passes, or a pass and a
verdict, can be put in any order. `MCEpisodeRepoint` states what they promise as
assumptions over every small catalog, which TLC evaluates when `HistoryRuns`
starts: `VerdictsStand`, `EnrichmentSettles`, `AmbiguityEnds`, `DedupeKeeps`,
`EpisodeIdsMatchLoop` (against the loop of the code), `MapAttachesOnce`,
`VerifyFindsLoss`. Catalogs of two shows, four seasons and three episodes have
each outcome a report counts.

## Browse.tla, JobShell.tla and Requests.tla

Three modules of operators without state, whose promises `MCCatalogSync` states
as assumptions, evaluated when `CatalogRuns` starts. `JobShell` is a process of
the schedule from start to exit, given what it meets: `DeadmanFed` says that the
monitor is fed by a run of one's own that succeeded and by nothing else, and that
every other end is heard of. `Requests` is how the clients ask again:
`ThrottlesAreFree` (waiting out a throttle spends no retry), `CallsBounded`,
`HintsHeld`, `CallsAccounted`. `Browse` has the queries of the catalog's readers:
`BadgesAgree` (the aka badge and the list tell the same), `PagesAddUp` (every
order is total), `CastParts` and `CrewParts` (a show's credits fall into halves
that add up, and a person's page tells what the show's does).

An assumption is checked for every input it quantifies over, which its definition
lists, and for no other; it is a check of a function against what it promises,
as a run is of a process.

## Types

Each stateful module has a `TypeOK`. It documents the module and its instance
satisfies it, but it is no property of a run: the runs spend theirs on what could
go wrong. The types of Connections, PushDelivery, CatalogSync, RateBudget,
Accounts, EpisodeRepoint, OrphanRetire and Airdates are proved; those of
Recommendations but for the bounds of its clock and counts. Of PayloadUpsert's
(`PayloadTypeOK`) the part that credits name stored rows is.

## Proofs

What is proved holds for every value of the constants that satisfies the named
assumption of the module.

`ConnectionsProofs.tla` proves, from `ConnectionsAssumption` alone (so for any
number of accounts and handlers, any limits and windows):

- `Typed`: `Spec => []TypeOK`;
- `SeenAlwaysFits`: `Spec => []SeenFits`;
- `PendingEntriesLive`, `PendingEntriesUnique`: the two ledger invariants;
- `OutcomesStayTerminal`, `AcceptedOnlyByConsent`, `BlocksStand`: the action
  properties;
- `OutreachStaysBounded`: `Spec => []OutreachBounded`.

None of the ledger invariants is inductive alone. A write by id is harmless
only if the id still names the request that was read, so the inductive
invariant is `TypeOK` with `LedgerFits == UniqueIds /\ SeenFits /\
PendingEntryIsLive /\ OnePendingEntry`. The key lemma is `AgesStep`: in any
step a row stays as it is, goes, turns from pending to accepted, or is new with
a fresh id; `FitsAges` concludes that a copy that fitted goes on fitting, and
the two ledger lemmas use it for each write. The action properties follow from
the invariant, one step per action. Outreach is bounded by `OutreachLedger`: what
an account has sent in the window is counted together with the handlers of its
requests that are past the count (`Counted`), since a handler past it will insert
whatever the others do. Only the count lets one in, and only below the ceiling;
an insert moves one from the second term to the first; all else, the passing of
days included, only lowers the sum (`Subsiding`).

`PushDeliveryProofs.tla` proves, from `PushAssumption` (any users, browsers,
notes, overlapping runs and tests, any settings that keep a row longer than its
note's window and a run), `Typed`, `FliesAlone` (`Spec => []SingleFlight`),
`NeverAgain` (`Spec => RecordedOnce`) and `StaysWithOwner`
(`Spec => ClaimedForOwner`). The invariant `IInv` says what protects a send
between its two transactions: a worker in flight has a pending row of this very
hour, or the device is gone (`Logged`); a receipt on record has its row, or its
device is gone, or every run that could still select the note is over
(`Settled`, which is where retention must exceed the window and a run); ids are
never used again, so what a run remembers of a device is of that device and its
one owner (`FreshIds`, `Owners`); runs and tests claim under keys of their own
(`OwnKeys`). Time may not pass a push in flight, which is what makes "of this
hour" inductive.

`UpstreamProofs.tla` proves of the runs, from `CatalogAssumption` (any shows, any
number of runs at a time, any thresholds), `Typed`, `CursorHonest` (`Spec =>
[]NoChangeLost`) and `PassComplete` (`Spec => []PassCovers`). The idea is
`Safe(c)`: the mirror holds the change, or its show is in `lost`, or the show is
not stamped yet and every payload in hand for it is late enough. What is safe
stays safe, whoever commits, so the invariant says who makes what safe: a delta
answers for every change before its day, being safe, or still before it, in hand
or skipped (`DeltasHold`); a full pass in the same way for every show
(`PassesHold`); the days before the first attempt at a full pass are safe as
whatever was stamped until then is in `lost` (`Guessed`, `BeganHolds`).
`NoChangeLost` follows from `CursorHolds`.

Of the budget the same module proves `BucketWindows`: no window of the bucket sees
more granted than a full bucket and what flowed in. The invariant `WindowInv` adds
what the bucket still holds: `granted * Fill + Level <= Full + span`. Of the
limiters it proves, from `RateAssumption` (so for any lease, request sizes and
finite set of processes), `LimitersAreOneBucket` (`BudgetSpec =>
ImplementsBucket`) and, through it, `WindowsGranted` (`BudgetSpec =>
[]WindowGrant`); `BudgetTyped`; and `NothingForged` (`BudgetSpec =>
[]SpendBacked`). The refinement's invariant is `LimiterInv`: whoever is between
its SELECT and its UPDATE holds the row lock, has a caller to serve, and the level
it read is still there, since others wait and the clock only adds. For
`NothingForged`, what is on lease is the cardinality of a set of tokens, each with
its process, so that one process's lease and the others' add up (`LeaseSplit`);
spent tokens, those held back by callers and those on lease are then together what
was granted or less, a crash only losing some.

`AccountsProofs.tla` proves, from `AccountsAssumption` (so for any accounts,
handles, addresses, invites and number of requests):

- `Typed`: `Spec => []TypeOK`, in which the foreign keys and the unique address
  and handle are what takes work;
- `HandlesNeverLost` (`Spec => []HandlesAccounted`) and `NeverInherited`
  (`Spec => []NoInheritance`), the never-reusable rule;
- `WorksOnce` (`Spec => []RedeemedOnce`), `NoStaleSession`
  (`Spec => []SessionsCurrent`) and `MailboxProven` (`Spec => []VerifiedMailbox`).

For handles the inductive invariant is `HandleInv` (`HandleInvariant`). A commit
releases the handle its request read, so it matters that this is still the
account's handle (`OldHandle`), which holds unless another request of the account
was in flight (`Overlap`: what two requests have both read is in `crossed`).
`BeforeCrossed` carries what the check of a claim found to the commit that relies
on it, `HeldNow` and `ReleasedHeld` tie the rows to the ghost `held`. All but six
actions leave handles alone and are covered by `QuietStep`.

The other three rest on the same idea and on `FlightInv`: the account of a
request has lived (`Known`, so no signup is given its id), a request has shown
what it will use up (`Shown`), and a token is named by a request that is done
(`Issued`, so a redeem in flight never finds another token under the name it
read). `StartFacts`, `SignupFacts`, `DeleteFacts`, `IssueFacts`, `RedeemFacts` and
`AdminFacts` say once what each step does. `OnceInv`: what was used up is consumed
or redeemed in its row (`Spent`), and who still shows it overlapped (`Guarded`).
`SessionInv`: a login in flight has the password there is, or overlapped with the
change of it, and `RekeySession` covers the change and the reset alike. `MailInv`:
a link to verify an address is for the one the account has until the account is
verified (`LinksCurrent`), which is why following an old one proves nothing false.

`HistoryMoveProofs.tla` proves, from `HistoryAssumption` and `RepointAssumption`
(any users, seasons, copies and twins, any number of requests beside the pass, any
batch size): `Typed`, `NobodyOrphaned` (`Spec => []NoOrphans`), `BatchesKeep`
(`Spec => BatchKeeps`), `HistoryMovesTogether` (`Spec => MovesWhole`),
`RatingsAgree` (`Spec => []LedgerAgrees`), `OnlyMarksSilence` (`Spec =>
OnlyShowMarksSilence`) and `CoveredWatchesTold` (whatever a show mark covers keeps
an event that tells of it). Two conjuncts of `HistoryAssumption` come from how
copies are found: a copy and its twin share show, season and number
(`episode_repoint.py:173-187`), so also whether the number is negative, which is
what makes a copied special (`catalog/episodes.py:61`).

`IInv` is why the pass is safe. Row locks keep apart what two transactions have
written (`Apart`). Two transactions that name one fact, one of them to undo or
move it, have it in `crossed` (`Paired`, `Named`), and the pass names every fact
on the numbers it has in hand (`Batched`). Only the pass deletes episodes, so a
row on an episode about to go came with a request that overlapped (`Clean`,
`RowsHome`), each row taken away was put back on the twin (`Kept`), and what
nobody else has had in hand goes with its table or, for a person withheld, stays
(`Whole`). Every statement of a request is handled through what its program may
contain (`ProgramFits`), not statement by statement of each handler.

`LInv`, on top of it, is why the ledger keeps step. A request leaves a fact and
its event alone, puts both, or takes both back (`Accord`), where "puts" counts
what it has written, will write and will not strike again; so at its commit table
and ledger agree, however its statements met those of others. Watches have more
than one event to tell of them, and the show mark takes away events of watches it
does not cover, so `Tale` says less: who puts a watch, or takes an event away that
answers for it (`Answering`: those that tell of it, and the show mark's), has locked
one that does, or is about to write it, unless the watch goes as well. What answers
for a watch without telling of it is only the show mark's event for an episode it
does not cover, from which both theorems follow.

`OrphanRetireProofs.tla` proves of the matcher, for any sets of episodes, any link
and any offset: `MatchesOneToOne` (no twin for two orphans, no orphan with two
twins), `MatchesWithin` (a twin is an ingested episode of the show or the linked
show) and `ExactTwinsMove` (what the report calls an exact twin is moved to it).
Each tier is one-to-one because its pairs are alone on both sides, and `Then` keeps
that (`ThenOneToOne`). Of the pass it proves, from `OrphanAssumption` (any catalog,
users, history, import references, late episodes, batch size and floor):

- `RetireTyped`: `Spec => []TypeOK`;
- `MergesKeepHistory`: `Spec => KeepsHistory`;
- `IngestedKept`: `Spec => IngestedStays`;
- `RunsEmpty`: `Spec => FullPassEmpties`;
- `ReportComplete`: `Spec => ReportForetells`.

All five rest on `IInv`. A transaction takes rows away only from what leaves, its
show's orphans or the orphan shows, and puts them on what stays (`ChangesFit`):
pairs lead there by the matcher's theorems (`PairsFit`), and a link leads to a show
that is ingested or has ingested episodes below it (`LinksFit`), so that
`LeaveBlocked` keeps it. What a statement has done stays done, since the rows it
changed are locked and whoever changes another while the transaction is open is in
`fresh`: a row on what leaves is where its pair leads, or, if the row that was in
its place has moved on itself, where that went (`Carried`). Orphans are ahead of the
run, in its hands or gone (`Ahead`), which is what empties the catalog and, as
`BlockedShows` asks for everything below a show, keeps cascades from having
anything to take.

`ShowRowsProofs.tla` proves of the airdates, from `NoDateAssumption` and
`AirdatesAssumption` (any show, schedules, oracle, operator's table and periods):

- `PairKeepsUpstream` and `ProjectIsPair`: writing under one table and projecting
  onto another is writing under the other, and TMDB's date is kept by both;
- `JudgeBounded` and `ReplacedKeepsRefused`: a verdict is a shift of at most a day
  or none, and a refusal leaves a season's offset alone;
- `AirdatesTypeCorrect` and `DatesAlwaysDerive` (`Spec => []DatesDerive`). It is
  inductive together with `Written`: each date is stored as some table has it, under
  one of the two seasons for the last date, which is what a turn of the pass,
  projecting all of them onto another table, needs; and, `Corrected`, authored
  episodes are under the recorded one, as only turns write them;
- `NeverFlaps` (`Spec => NoFlapping`). The invariant `Firm` says that a turn in
  flight commits the verdicts of the dates it names, and that the recorded offsets
  are what recording the last verdicts again would give. The former holds as TMDB's
  side of the comparison is told by the pairs and not by what is shown
  (`JudgesWhatItNames`), the latter as recording is idempotent (`ReplacedTwice`).

Of the writers of payloads it proves, from `PayloadStoreAssumption` and
`PayloadUpsertAssumption` (any payloads that can be fetched, any rows a show may
have that no payload wrote, any shows recommended):

- `ShowsOneVintage` (`PayloadSpec => []OneVintage`);
- `EpisodesAreHome` (`PayloadSpec => []EpisodesHome`);
- `LocalRowsKept` (`PayloadSpec => LocalKept`);
- `CreditsInterned` (`PayloadSpec => []Interned(store)`): whoever a credit names, at
  the grain of show, season or episode, is stored.

The invariant is `Sound`: the rows and the ghost agree (`Agrees`), and what the
writers have in hand are versions of the show. `Agrees` is `OneVintage` and
`EpisodesHome` with what the next write relies on: the tables keep their shape
(`Whole`), and what is not stored, or no payload spoke for, has nothing and no
vintage (`SeasonsAgree`, `EpisodesAgree`). The work is `Upserted`, what a whole
payload makes of each table, found writer by writer in the order of the code:
`Touches` names the tables a writer may change, and the others carry over.
`AloneIs` is the same of a show that has nothing, and `MirrorAgrees`,
`SeriesCreditsAgree`, `RecommendationsAgree` and `SeasonCreditsAgree` compare the
two. `EpisodesHome` hangs on that order: seasons are written and pruned before the
episodes look theirs up, so the season found is one that stays. `LocalRowsKept` and
`CreditsInterned` follow writer by writer from the same lemmas (`KeepsLocal`,
`InternedStill`).

`JobsProofs.tla` proves, of the nightly jobs, from `FloorAssumption` and
`NightlyAssumption` (any catalog, floors, scenarios):

- `LastAiredAlwaysFits` (`Spec => []LastAiredFits`). The invariant `NightlyInv`
  adds that the night's day lies between the last roll-forward and today, and that
  rows keep their columns; all but two actions leave dates alone (`QuietStep`);
- `PurgesAreBounded` (`Spec => PurgeBounded`). The shows wrongly purged have
  distinct ids in the published list and not in the short one, so there are at
  most as many as it lacks (`AtMostOneShowAnId`), and the floor says how many it
  may lack (`TombstoneBound`); that a show TMDB never served stays live follows from
  the reconcile's condition on the id;
- `NobodySkipped` (`Spec => NoneSkipped`). By `FillInv`, a show that is owed and
  lacks its stamp is on the page, or after the cursor and after all of the page, by
  the key it has now (`Owing`): a page takes the first of what waits (`PageIs`),
  and what a night rewrites stays behind all that was read or rose past some of it
  and was given up (`StandsStill`). At
  the end nothing waits, so nothing is owed. That of finitely many keys one comes
  first (`FirstIs`) goes by well-founded sets, without induction;
- `AcceptedAgain`: a feed no smaller than one that was accepted is accepted by the
  mirror that one left behind, so tombstones never lock out the next export.

Of the weekly one it proves, from `RecommendationsAssumption` (any users, shows,
passes at once, floors and limits, every answer of the model):

- `PaidOnceOnly` (`WeeklySpec => []PaidOnce`), `ShownStandsStill`
  (`WeeklySpec => ShownStands`) and `SkipsKeepWhole`
  (`WeeklySpec => SkipKeepsWhole`), all from `PassesSound`, the invariant
  `WeeklyInv`.

A set's time is its transaction's, and a transaction writes one set (`OwnTimes`),
so of a user's sets that succeeded one is the newest (`Topped`) and `Current` is
that one (`CurrentOf`). Only the lock makes "nothing was written since this turn
began" true (`Alone`), and with it a payload that had changed at the gate still
has when its set is written, which is `PaidOnce`. The other two hold without the
lock, and say so: a set written late by a pass that was overtaken is not the
newest, and leaves what is shown alone (`NewestThen`); one that is the newest has
shows, none excluded by its payload (`Cleared`).

Only model-checked, and why:

- the liveness properties `Served`, `Heals`, `Settles` and `Filled`: liveness under
  fairness and `ENABLED` are beyond the prover;
- `PayloadTypeOK`: the rows of a show's cast and crew are put together with
  `FlattenSeq`, and what type its result has is an induction over data;
- the operators of HistoryMigration, Browse, JobShell, Requests and Backfills, over
  bounded inputs.

## Disagreements without a run

What the code does and a comment or docstring says otherwise, met while
modelling, beside those named above. The models do what the code does.

- The two writers of `show.last_air_date` may take it to belong to different
  seasons, and so correct it differently, each overwriting the other: only the
  upsert reads `last_episode_to_air`, only the projection authored episodes
  (`LastSeasons`). `season_of_last_dated` is one rule so that "neither can
  substitute its own idea of 'the last season'" (`offsets.py:115`).
- A show created upstream after the day's export and mirrored by the same delta is
  tombstoned until the next export, which `tombstone.py` calls the authoritative
  full list.
- `roll_forward_last_aired` uses the day read when the run started, so after
  midnight it can move back a date that an upsert had written (`LastAiredFits`
  allows any day since the last roll-forward).
- An upstream that shrinks past the floor for good disables tombstones and
  popularity until somebody lowers the floor; documented, and the exception in
  `Settles`.
- As many shows that always fail as the abort threshold, one after the other in
  the work list, wedge a backfill; and runs with `--limit` take the same failing
  head again.
- `human_queue.reject` on a row that the ingest inserted retracts its TMDB id,
  though the comment on `RESOLVABLE_METHODS` (`human_queue.py:77`) says otherwise.
- `map_episode_ids` catches a show's exception without a rollback, so an error of
  the database fails the rest of the batch's transaction too.
- `airdate_reconcile.py:17` calls "corrected = raw + offset" an invariant. It does
  not hold while an upsert that had read the offsets lands after a turn changed
  them (`crossed`); the next turn of the sweep heals it. In the same way a stamp is
  its transaction's start, so the clauses that are to see every change miss one
  whose transactions overlap, until the sweep.
- `mark_series_synced` stamps credits and regulars "by construction", also if the
  response lacked them (`upsert.py:162`).
- A creator without a credit id is stored again by every upsert, though the rows
  are to be "the whole of this show's rows" (`upsert.py:321`).
- A search for a symbol alone, such as "+", is kept by the tokenizer and dropped by
  the SQL fold, and lists every show, though `browse_queries.py:937` says "match
  nothing, not everything" (`BadgesAgree` states both).
- The TV Maze client waits a flat time on repeated 429s, which the TMDB client's
  comment warns against (`tmdb/client.py:315`).
- A `show_crew` row with no count and no episodes is on the show's page of episode
  crew and on neither of the person's lists (`CrewParts` states it).

## Not modelled

- Reports and feedback: a row is inserted, then an email is sent after the commit
  and its failure is logged; one request, no state that another reads.
- History readers (lists, feed, export): queries over the tables that
  ViewingHistory writes, tens of aggregates in SQL whose promises are about
  presentation.
- Configuration, logging, telemetry, email transport, cookies, HTTP plumbing: no
  state of their own, or pure I/O.
- Schema migrations and one-off scripts: run once, by hand, on a quiet database.
- Of modelled parts: how Web Push selects and renders (any subset is selected, as
  what may be sent twice must not depend on it); muting and hiding flags; issuing
  invites and the admin flag; the catalog's facet lists.

## What is left

In order: the types of PayloadUpsert, whose lists of credits would have to become
sets of rows; lemmas about the operators of HistoryMigration and Browse that use
no recursion; then the feed and list readers against the ledger of ViewingHistory.
A theorem goes into the proof module of its part: `HistoryMoveProofs` for the
repoint, `OrphanRetireProofs` for the retirement, `UpstreamProofs` for the catalog
runs and their budget, `ShowRowsProofs` for what is written on a show's rows,
`JobsProofs` for the scheduled jobs.
