# A verification project for afghanistan-news

TLA+ models of the backend of *afghanistan-news*, the TLC runs that check them
on small instances and the TLAPS proofs that hold for all instances. Paths below
are relative to the repository; `pipeline.go`, `feeds.go`, `articles.go`,
`push.go` and `fetcher.go` stand for the files under `backend/internal/`
(`ingest`, `store`, `store`, `store`, `feed/fetcher`), `middleware.go`, `server.go` and
`admin.go` for those under `httpapi`.

    tlc -workers 2 -config Feeds.cfg MCFeeds
    tlapm FeedScheduler_proofs.tla

`PROJECT.json` lists the components, the runs, the source lines behind every
definition, a mutation that each property catches, the hazards and the findings.

## 1. The system

Worker processes (`cmd/worker`, or embedded in `cmd/api`) poll several hundred
RSS and Atom feeds listed in a registry, store what they find as articles in
PostgreSQL (or SQLite), group reports of one story into clusters, flag breaking
stories and announce those through Firebase. An HTTP API serves readers (an
Android app and a web page) and an admin console.

| component | state | operations | what is hard |
|---|---|---|---|
| polling scheduler (`pipeline.go`, `feeds.go`) | columns of `feeds`: enabled, review flag, health, failures, next poll, lease | claim a batch, process each feed in a bounded number of goroutines, store the outcome, release | several processes, leases that expire under running work, counts read at claim time, lost writes, crashes |
| fetcher (`fetcher.go`) | per process: breaker (failures, open circuits), limiter (semaphores, request windows) | Allow, Acquire, the request, Failure or Success, Release | goroutines between two critical sections, cancellation while waiting, stragglers |
| article store (`articles.go`) | `articles`, `article_clusters` | look up a duplicate, insert, attach to a cluster, hide | check-then-insert without a lock, counts computed in a snapshot, unique violations, crashes between statements |
| push delivery (`pipeline.go`, `push.go`, `push/push.go`, `httpapi/admin.go`) | `push_events` | check, throttle, send, record | the record follows the message; workers and editors race; failed sends that arrived |
| push registration (`push.go`, `PushSyncWorker.kt`, `SettingsStore.kt`) | `push_registrations`, `push_subscriptions`; the app's stored token and topics | new token, topic switch, sync job, register, unregister | several statements without a transaction, retries that overlap, what the app keeps of an answer |
| poll pace (`feeds.go`, `pipeline.go`, `opml.go`, `model.go`) | tier, failures, health, score and next poll of a feed | schedule after an answer, a 304, a failure, a refusal; edit the tier | order of doubling, jitter and clamping; counts read at claim time |
| feed registry (`imports.go`, `feeds.go`, `activation.go`, admin handlers, `cmd/api`) | `feeds`, `feed_pack_imports` | reconcile a pack, create a feed, edit one, apply a wave, bootstrap an empty registry | three normal forms of one address; no transaction around any of these; concurrent editors and starts |
| newsroom (`pipeline.go`, `articles.go`, `httpapi/admin.go`) | `is_breaking`, `status`, origins of the category rows, the audit log | store and weigh an item, mark it, edit an article in up to three statements | decisions once per article, caps per run, editors on the same rows |
| rate limiter (`httpapi/middleware.go`) | a bucket per client, in memory | allow | clock read before the lock, collection of old buckets |
| lists and pages (`articles_query.go`, `httpapi/server.go`, `app.js`) | none; the reader keeps pages and a cursor | open, next page | articles that come, go and share an instant between two pages |
| sections (`articles_query.go`) | none | mix the sources of a section | greedy choice, cut to size afterwards, expired jobs taken out after that |
| start-up (`db.go`, `cmd/api`, `cmd/worker`, `store/admin.go`) | `schema_migrations`, sequences, `admin_users` | migrate, repair sequences, seed | two processes start at once, while others insert |
| admin sessions | none: signed tokens | login, logout | none of weight |
| Android client | Room cache, DataStore, WorkManager jobs | refresh, topic sync, cleanup | jobs that overlap, process death |
| parser, classifier, sanitiser, SSRF guard | none | pure functions | wording |
| web reader, admin console, scripts | page state | calls of the API | none of weight |

How they interact: the scheduler calls the fetcher and then the article store
from one goroutine per feed; the store decides whether an item is new, and only
a new item reaches the breaking evaluator, which calls push delivery in the same
goroutine. Workers share nothing but the database; breaker and limiter belong to
one process. The admin API writes the same rows without taking leases, and none of
its requests is a transaction: imports, waves, edits and registrations interleave
statement by statement with each other and with the workers.

What makes each part correct: a feed is polled by one worker at a time, neither
too often nor never again, and its failures are counted; a publisher is spared
when it fails, at the pace of its tier otherwise, and no slot is lost on the way; the
registry is what the last import, wave and edits say; a story is stored once, in one
cluster, with the right count; it is announced once, not too many of them an
hour, and the history tells what was sent; an editor's word is final; a device that registers gets the topics
it asked for, and registers its own token; a reader who turns pages misses nothing
and sees nothing twice; no client is let through more often than its share; and the
processes come up in any order.

## 2. The modules

Every module models PostgreSQL at READ COMMITTED: a statement, or a transaction
where its statements cannot be told apart, is one step. Absolute times are kept
as the time left, so that the state space is finite. Constants named `Max...` under
"bound" in a module limit a behaviour and occur in guards only.

### FeedScheduler

`Claim` is `ClaimDueFeeds` as `RunOnce` calls it, with the WHERE clause of the
dialect in `Claimable` and ORDER BY and LIMIT in `IsBatch`. A claimed feed is
`queued` until a slot of the semaphore is free (`StartFetch`), `fetching` inside
`Fetch`, `ingesting` until `MarkFeedSuccess`, `marked` until `ReleaseFeed`. The
ways out of `fetching` are those of `ProcessFeed`: `FetchFails` (also the parse
branch: one transaction stores the outcome and drops the lease),
`FetchNotModified`, `FetchParsed`. `LoseMark` and `LoseJob` are the dropped
errors and recovered panics, `Crash` the death of a process. `UpdateFeed`,
`MarkFeedsMissingFromPack`, `WaveEnables` and `WaveDisables` are the statements
of the admin API, imports and waves that touch a column `Claimable` reads.
`SetFeedEnabled` and `ScheduleFeedNow` have no caller and are left out.

`since`, `excused` and `streak` are history: the time since a fetch of the feed
last began, whether an earlier poll was asked for (a 429 with a short
Retry-After, a wave that enables the feed), and the failures really stored.

### FetchGuard

The critical sections of `breaker.mu` and `domainLimiter.mu`, the two waits of
`Acquire`, and the outcomes of a request. `Wake` does not look at the window
again, as the code does not: several goroutines that slept for one entry all go
on. `Disappoints` is an answer the breaker never hears of (too large, empty,
HTML). `late` is history: requests sent to a host since its circuit opened.

### ArticleStore

`LookUp` is `FindDuplicateArticle`, `Insert` the transaction of `InsertArticle`
with its `RACE` outcome, `Place` the two queries of `attachToCluster`, `Link` and
`Commit` the transaction of `AssignCluster` up to and with its commit: the count
is taken in the snapshot of the former and written in the latter. A cluster is
named by its topic, the hash of title and day. The look-back windows of 36 and 48
hours do not end within a behaviour. An item is handled when a poll returns a body that
lists it, which is sure to happen again only for reports in `Relisted`, whose publisher
sends no validators and so never answers 304. SQLite serialises writers and has fewer
behaviours.

### PushDelivery

Goroutines in `enqueuePush` and requests in `handleAdminPushSend`: `CheckNew` is
`PushEventExists`, `Throttle` the two counts (for workers only), `SendSucceeds`,
`SendDry` and `SendFails` the sender, `Record` the INSERT under the unique
`dedup_key`. A failed send may or may not have reached FCM. `created_at` belongs
to the event and is set before the send (`born`). Handlers that answer 400 or 409
before that change nothing and are no actions; what the handler does after the
row is written is outside the module (`Newsroom` has its breaking flag). A limit
of 0, which means none, is not modelled.

### PushRegistration

The app (`NewToken` is `onNewToken`, `SetPushTopic` a switch in the settings,
`Sync` the call in `doWork`, `Answer` what it stores on success) and the handlers
of `/v1/push/register`: `Find`, `Insert`, `Update`, `Clear` and `Subscribe` are the
statements of `RegisterPushDevice`, each a step because there is no transaction.
`GiveUp` is a client that is gone while its handler goes on, `Abort` a failed
statement, a cancelled request or a crash. `Unregister` is one transaction; no part
of the app calls it. A token is a sequence of groups of four characters: `"dev_"`
is one group and `shortToken` keeps four, so that the ids made from tokens, and from
ids, are what they are in the code. `PUSH_REGISTRATION_ID`, which nothing reads, is
left out. `alone` is history: nobody else worked on the row, and nobody revoked it,
since the request looked.

### FeedRegistry

The table `feeds` under everything that writes more of it than the scheduler:
`ImportFeedPack`, the manual creation of a feed, the PATCH of one, the two UPDATEs of a
wave, and the start of the API, which imports the bundled pack and applies a wave
when no feed is enabled. A request is a job that goes statement by statement: `Look` is
the pair of SELECTs of an outline, `InsertFeed` and `UpdateRow` the two branches of
`UpsertFeedFromImport`, `Mark` the flags of missing feeds, `Record` the row of the
import, `EnableWave` and `DisableWave` a wave, `Edit` and `SavePatch` the read and the
write of an edit. `Break` is a failed statement or a crash at any of them.

An address has three normal forms: the id comes from `normalizeFeedURL` of the OPML
parser (`Identity`), the unique key from `CanonicalizeURL` (`Canonical`), and the
create handler stores a key that is lower case only (`Spelling`). They are three
functions on addresses, related as far as the code relates them
(`RegistryAssumption`), and the module is about what follows from their being
different. `calm` is history: nobody else has written the table since the job began.

### PollPace

What one poll leaves in one row: the tier an outline gets (`ParseSourceType`,
`mapPriority`, `PollTierFor`, `Interval`), `NextPollDelay` in whole seconds with every
clamp in the order of the code, `HealthScore`, and for each outcome of `ProcessFeed` and
`handleFetchError` the health, score, count and delay it stores. A poll works with the
row of its claim (`poll`), the table may have changed (`Patch`, `Import`). A success is two
statements: `MarkStored` is `MarkFeedSuccess` and `MarkLost` its failure, whose error the
code drops; `ScheduleNext` is `ReleaseFeed`, which comes after either. `LosePoll` is a poll
that ends without its last statement. Two polls of one feed do not overlap here.
`FeedScheduler` takes some delay of `PollDelays` for granted; `WithinBounds`, part of
this module's invariant, is what justifies that.

### Newsroom

Polls that store, group, weigh and mark items, and editors' requests about the same
articles. `DecideBreaking` is `decideBreaking` with its score, its qualifying signals, the
cap of a run and the rule for bulk streams; what the keyword lists say of an item is its
`Signals`. `Weigh` is `evaluateBreaking`, whose count of publishers may fail and is then
0. `SetBreaking`, `SetStatus`, `FileUnder` and `Reload` are the statements of
`handleAdminArticleUpdate` in their order, `SendPush` the flag that an admin push sets.
Behaviours are shorter than the six hours in which reports count.

### RateLimiter and TokenBucket

`TokenBucket` is the promise: an allowance per client that grows to its size and pays for
each request. `RateLimiter` is the code: `Call` reads the clock, `Allow` has the lock; in
between other calls may have been served and the ones that read the clock later may have
come first, so that elapsed times are negative; old buckets are collected now and then.
The refinement maps a client without a bucket to a full allowance and a bucket to what it
would hold now. `Slack` of the promise is what a call may have waited for the lock.

### Reading

One reader who turns the pages of a list, by time or by score, while articles appear and
vanish. `Rows` is the WHERE clause with the cursor, `Firsts` ORDER BY and LIMIT,
`CursorOf` the cursor of the answer, `More` what `loadMore` of the page does. The list by
score ignores the cursor and yet returns one; its first page repeats for ever, and the
properties are about lists by time.

### Digest

`ApplySourceDiversity`, a turn of its loop per step, over the candidates a section asks
for, the cut to size after it (`Section`), and what is left of it on the page
(`ShownPlaces`): from the section of the jobs `HomePayload` takes the expired ones, after
mixing and cutting. `expired` is not empty for sections of that size only.

### Startup

`Migrate`, `SyncSequences`, `SeedReference` and `EnsureAdminSeed` as each process runs them
when it starts, and the inserts of the processes that run already. The check of a
migration is outside its transaction; `ReadMax` and `SetVal` are two steps because
setval obeys no transaction and the maximum is that of a snapshot. `SyncFails` is a
repair that fails and is only logged. A process that exits starts again, as
`docker-compose.yml` says. `suspect` is history: rows were loaded past the sequence and no
repair has seen them, or an insert crossed the last repair.

### The composed instances

`MCFeeds`, `MCApi` and `MCWorker` each check several specifications that share no state:
`part`, fixed at the beginning, says which of them a behaviour is about while the others
rest. Every property of a part is then checked as it would be alone.

## 3. The runs

| run | question | result |
|---|---|---|
| worker | is a feed worked on once at a time, are failures counted, are polls polite? is every article weighed, do runs mark few, does the editor's word stand? | holds, polling given `Sized` timing |
| scheduler_live | is every feed polled again and again? | holds |
| scheduler_defaults | "two processes never fetch the same feed" with a batch above the concurrency | violated |
| scheduler_quarantine | "quarantine the feed for 24 h": does a quarantine ever end? | violated |
| feeds | limiter and breaker under cancellation, stragglers, time; imports, waves, edits and starts on one registry; the pace of a feed; the start of the processes | holds |
| registry_collapse | is each outline of a pack reconciled into the registry? | violated |
| article_store | who may store a copy, do counts and clusters settle? | holds |
| article_titles | is a title stored once within 48 hours? | violated |
| push | how often is a story repeated, what may a row claim, how firm are the limits? | holds |
| push_twice | is a story delivered once? | violated |
| api | do registrations keep their keys and answer truly; is the limiter a token bucket; does a reader miss or repeat anything; are sections mixed? | holds |
| push_token_swap | does the app keep the token that FCM issued? | violated |

**Bounds.** Two workers are enough for every race of two; `worker` has two
feeds of different priority (so that LIMIT and ORDER BY matter in
`scheduler_live`, where a batch has one), a lease one tick longer than fetch plus
writes, and one fault and one operator action, which is enough for every expired
lease. Six outcomes occur, one of each kind of delay (computed by `NextPollDelay`,
a day, asked for by the publisher) and each of the two ways out of success.
The guard part of `feeds` has two hosts that share a site, so that limiter and breaker have
different keys, one token and one request a window, so that both waits happen.
`article_store` has a page that two feeds list, each under a GUID of its own, and a page
without a GUID whose reworded headline is near to it: the race of two feeds, two copies
that must meet in one cluster, and the near duplicate all occur. The two copies are
relisted, the third report is not; with the first alone, with either and the third, or with
all three relisted the same properties hold. `push` has three stories against a limit
of one, windows of one and two ticks, and a process without credentials. With
four stories and a daily limit of two the same properties hold in a run of
several minutes. The registration part of `api` keeps one group of a token in an id instead of
four and gives an install two tokens that begin alike, so that the ids of two tokens,
and of two installs after enough syncs, are the same; one fault and four new tokens,
switches or revocations. With two faults the same properties hold.

The registry part of `feeds` has two jobs, three requests and one failed statement or
crash, over six addresses: a feed that editors spell differently than packs, two searches
with one key, a topic feed, one of unknown type, one that the parser rejects, one listed
twice. That is enough for two starts at a time, an import cut short and repaired by
another, an edit that crosses a wave, and a hand-made feed that a pack lists. The pace
part begins with a direct feed or a search and comes through all tiers by an edit; it has up
to seven failures (the doubling ends at six), ages on both sides of the stale windows, the
least and the greatest jitter, one edit or import, and one write of a poll that is lost:
the one that stores a success, stores a failure or schedules. The
start part has one API, one worker, one migration, four ids, one crash or failed repair
and one bulk load, so that a start meets an insert in every order.

The limiter part of `api` has two clients, two calls at a time that wait up to one tick
for the lock, and eight ticks, past the first collection of buckets. The reading part has
five articles, two of one instant, pages of one to three and three that come or go. The
digest part takes every sequence of up to six candidates from three sources, sections of
one, two and four cards, the last with any set of expired jobs. `scheduler_quarantine` has two feeds and a batch of one, so
that its property is about the feed no claim can leave out for want of room; with the
condition on the health dropped from `Claimable`, and a quarantined feed thus treated as
the document says, the property holds. The
newsroom part of `worker` has three articles on one topic from two publishers, a cap of
one per run, one request of an editor and one failed statement; the bonus for three
publishers, and what it decides, is not reached with them.

Deadlock is checked in `worker` and `feeds`; parts that may stop at their bounds have an
explicit idle step, so the check is about polling and about the fetcher. In `api`
a device without a token has nothing to do, a walk ends and a section is complete, so it
is not checked there, nor in `registry_collapse`, which has one import.

**Fairness.** `scheduler_live` assumes that the loop of `Run` goes on, that a
started goroutine takes its next step and that time passes; `docker-compose.yml`
restarts a dead worker, so that the model lets a crashed process claim again.
Faults and operators are not obliged to act. `feeds` assumes the same of
goroutines inside `Fetch`, which nobody has to call, and of each process that starts:
main takes its next step, and Docker starts a container that has exited. `article_store` assumes that a
worker goes on with the item it has, and that a report of `Relisted` is handled again and
again, strongly fair because a worker is not always free for it. The latter is an
assumption about publishers as much as about the code: `PolledAgain` gives fetches, and a
fetch handles an item only if the answer is a body that lists it. A publisher that sends
neither ETag nor Last-Modified never answers 304 (`fetcher.go:165`), and `Relisted` are
reports that such a publisher keeps on its list. For the others nothing is assumed, and
nothing holds: with `CountSettles` and `StoriesMeet` stated for all reports TLC finds the
lost attachment after which the item never comes back. `push` has no liveness: a story that is lost is not announced, and nothing
promises otherwise. `api` has none either: section 5 says why settings
do not arrive.

**What the properties say.**

* `AtMostOneFetcher`, `NoLostFailure`, `Polite` need the sizing `Sized`: a batch
  no larger than the concurrency, and fetch plus writes within the lease. The
  defaults (24 feeds, 8 slots) do not satisfy it, which is what
  `scheduler_defaults` shows; and no deadline bounds the writes.
* `PolledAgain` covers feeds with fewer rivals of their priority or a higher one
  than a claim has room for. A claim can starve the others.
* `DeadHostCut` lets each other caller send the request it was about to send.
* `OnlyRivalsCopy` bounds the copies of a URL by the workers that had looked
  before the first copy was stored.
* `CountSettles` and `StoriesMeet` speak of stories that a feed without validators lists
  (`Relisted`). Elsewhere the ETag of a body is stored by `MarkFeedSuccess` also when an
  attachment in it failed; 304s follow, and a missing cluster or a wrong count stays (see
  section 5).
* `StoriesMeet` also speaks of `Traceable` articles: a copy without a GUID is never
  found again by its own feed (the lookup by URL may return the other copy), and
  if its attachment was lost it waits for ever. Title and day are fixed per
  report: an item whose URL carries two headlines in two feeds moves its article
  from cluster to cluster with every poll.
* `RepeatsBounded` counts the senders that can announce a key and the faults.
* `Throttled` allows for goroutines that passed on the same count, and assumes
  that all workers have credentials: the row of a dry run takes the key and is
  not counted, so a worker with credentials that delivered the same story at the
  same time leaves no SENT row.
* `Reconciled`, `OnlyHandMadeClash` and `WaveExact` speak of requests that had the table to
  themselves (`calm`); the registry they find may be anything that broken imports, waves
  and edits leave. `OpenedWithReason` and `SilentByReopening` are about every step: they
  name the only ways in which a feed that was shut opens and in which an enabled feed
  comes to rest for a year.
* `SelectiveAfterBoot` holds while only starts have happened and each came to its end, two
  of them at a time included. What a start that dies between import and wave leaves
  enabled stays so (see section 5); the property does not speak of what follows.
* `BacksOff` and `BackToItsPace` are about schedules of one tier: while a feed fails each
  delay exceeds the one before up to the ceiling, and two successes that are stored and
  scheduled bring it back to the pace of its tier, whatever other writes of its polls
  are lost. One does not: a 304 is scheduled with the failures its claim read. A success
  that is not stored does not count either: the row keeps its failures, the next
  claim reads them, and if its answer is a 304 it waits the backoff once more.
* `CollisionsExplained` says exactly when "SyncSequences guarantees that every sequence is
  ahead of the data it serves" (`db.go:291`) does not hold: after a load that no start has
  seen, or when the repair of a start crossed an insert of another process.
* `EditorsWordStands` excepts articles an editor spoke about while the poll that had just
  stored them was still deciding.
* `IsTokenBucket` is a refinement; `Throughput` is its consequence for the number of
  requests since the start.
* `NoRepeat` and `NoGap` hold for lists by time whatever appears, vanishes or shares an
  instant; articles that appear above the cursor are not promised to anybody.
* `WellMixed` says what the greedy choice gives and no more: in a section as it is shown a
  source exceeds its run only when no other source had candidates left, or when an expired
  job of another stood between its cards; and a card is overtaken only for variety.
* `QuarantineEnds` is about feeds that every claim has room for, that are enabled and not
  held for review: each is fetched again and again or out of `QUARANTINED` again and again.
* `AnswerTrue` speaks of requests that had their row to themselves. Two requests
  for one token that overlap may both be answered with a mixture of their topics.

## 4. What is proved

TLAPS checks, for any constants that satisfy the named assumptions:

| module | theorem | statement |
|---|---|---|
| FeedScheduler_proofs | TypeCorrect | `Spec => []TypeOK` |
| | Exclusive, ExactCount, PoliteAlways | `AtMostOneFetcher`, `NoLostFailure`, `Polite`, assuming `Sized` |
| Worker_proofs | NewsroomTypeCorrect, NothingLeftOut, RestraintKept | `NewsroomTypeOK`, `WeighedUnlessCutOff`, `Restrained` |
| | EditorsHaveTheLastWord, PartsInOrder | `EditorsWordStands`, `EditsInOrder` |
| | WorkerTypeCorrect | `WorkerTypeOK` of scheduler and newsroom together |
| ArticleStore_proofs | TypeCorrect, CopiesExplained | `TypeOK`, `OnlyRivalsCopy` |
| | CopiesBoundedByWorkers | a URL has no more copies than there are workers |
| | StoriesExist, NeverDetached | attached articles are stored, their clusters exist, and they stay attached |
| PushDelivery_proofs | TypeCorrect, RepeatsKept, HistoryIsHonest, LimitsKept | `TypeOK`, `RepeatsBounded`, `HonestStatus`, `Throttled` |
| | AloneOnce | `DeliveredOnce`, with one announcer a story and no faults |
| PushRegistration_proofs | TypeCorrect, AnswersTrue | `TypeOK`, `AnswerTrue` |
| FeedRegistry_proofs | RegistryTypeCorrect, ImportReconciles, ClashesByHand | `RegistryTypeOK`, `Reconciled`, `OnlyHandMadeClash` |
| | WavesAreExact, OpensForAReason, SilentFeedsWereReopened | `WaveExact`, `OpenedWithReason`, `SilentByReopening` |
| | StartsAreSelective | `SelectiveAfterBoot` |
| | DistinctOutlinesPolled | `EveryOutlinePolled`, where equal keys mean equal ids |
| Feeds_proofs | FetchTypeCorrect | `TypeOK` of FetchGuard, and every request window in its order |
| | TokensKept, BreakerKept, DeadHostIsCut | `TokensMatch`, `BreakerExact`, `DeadHostCut` |
| | NobodyWaitsInVain | a full semaphore has a holder other than who waits for it |
| | RowFits, DelaysBounded, OutagesForgotten, FailuresBackOff | `PaceTypeOK`, `WithinBounds`, `BackToItsPace`, `BacksOff` |
| | MigratedOnce, SequencesAhead | `StartupTypeOK`, `CollisionsExplained` |
| | FeedsTypeCorrect | `FeedsTypeOK` of the four parts together |
| Api_proofs | LimiterTypeCorrect, ThroughputHolds | `LimiterTypeOK`, `Throughput` |
| | LimitsAsPromised | `IsTokenBucket`: `RateLimiter` implements `TokenBucket` |
| | ReadingTypeCorrect, NothingRepeated, NothingMissed | `ReadingTypeOK`, `NoRepeat`, `NoGap` |
| | MixedWell | `WellMixed` |
| | ApiTypeCorrect | `ApiTypeOK` of the four parts together |

Every safety property that a passing run checks, invariant or action property, is thus a
theorem. Three theorems answer a claim that a run refutes: `DistinctOutlinesPolled` says
when each outline of a pack has a feed, `AloneOnce` when a story is delivered once, and
`Exclusive`, with `Sized`, when two workers never fetch one feed.

The assumptions on constants are `ASSUME`s of the modules, which the runs evaluate: sets of
workers, reports, callers, items and requests are finite, limits and bounds are naturals,
tables have the domains they are used with. Beyond that `RegistryAssumption` relates the
normal forms of an address, `LimiterAssumption` says that collection takes longer than
filling up, `PaceAssumption` bounds the grades and the draws of the jitter, and `ArticleAssumption`
that nearness of titles is symmetric and equal contents have equal titles. Further
hypotheses (`Sized`, and those of the two theorems above) stand in the theorems that need
them.

The arguments:

* *Scheduler.* None of the properties is inductive: nothing in the table says how
  long a goroutine still works. The invariant (`Covered`, `Ageless`, `Fits`) ties
  the two together: the lease of a feed in work carries its worker's name, what is
  left of it and the age of the job add up to `Lease`, and the jobs of a batch fit
  the semaphore, so that none grows old in the queue. Since `Sized` keeps the age
  below the lease, `Claimable` is false for a feed somebody works on, which gives
  exclusion; then the claimed count is the one in the table (`Fresh`). For
  `Polite`, `Spaced` says what keeps the distance to the next fetch: the schedule
  or the lease of an idle feed, the claim of a queued one, the age of a running
  one.
* *FetchGuard.* Tokens equal the cardinality of the callers that hold one. The
  breaker needs that no entry is open below the threshold and none closed at it,
  which `Failure`, `Success` and `Allow` keep because each writes both maps in one
  critical section. For `DeadHostCut` the requests sent since the circuit opened
  plus the callers past Allow are fewer than the callers: the one whose failure
  opened it is on its way out, and while it is open nobody comes in. `Ordered` says that
  the window of a site is sorted by time: `RecordedLast` and `AgedKeepsOrder` show that
  what is appended is the youngest and that a tick drops exactly a prefix, which is why
  the module may cut the front where the code filters.
* *ArticleStore.* The copies of a URL plus the workers about to store it are at
  most one plus the rivals counted at the first insert; a lookup that comes later
  finds a copy. Rivals are workers other than the one that inserts (`RivalsAreOthers`),
  hence the bound by the number of workers. `Linked` follows a row from `Place` to the
  commit: a worker past `Place` has a topic, what it attaches is stored, and a commit
  creates the cluster in the step that attaches.
* *PushDelivery.* The deliveries of a key, plus the senders on their way that may
  still deliver, are bounded by announcers plus faults as long as there is no row;
  once there is one only senders already past the check can deliver. A SENT
  outcome is carried only by a sender whose key was delivered. For `Throttled` the rows
  inside a window, the workers past the throttle or about to record what FCM took
  (`Ahead`), and the stories no row will ever count (`Untold`, each explained by a fault)
  stay together below the limit plus one for each other worker plus the faults
  (`Counted`). A worker that passes the throttle has counted the rows itself, so they
  were below the limit then. `NotOlder` ties the windows of rows to those of
  deliveries: no row is older than the first event of its story.
* *PushRegistration.* That topics belong to a row is not inductive alone: it needs
  that a handler past SELECT or INSERT has its row (`Present`), which holds because
  no row is ever deleted. `Own` follows one request along its statements: while it
  is alone with its row, the row is active from the UPDATE on and has exactly the
  topics asked for that are not left to insert.
* *FeedRegistry.* `Knows` says what a job that is alone knows of the table at each of its
  statements: before an INSERT its key is free, and the keys of the outlines behind it
  have rows as those outlines want them (`Made`); `Placed` says that a job is where its
  data says. A failed import leaves nothing that an undisturbed one does not overwrite,
  since its loop visits every key of the pack and the flags every other. For
  `OnlyHandMadeClash`, a row that no editor created is where some address of its identity
  put it (`ImportMade`), and equal ids have equal keys by `RegistryAssumption`, so an id
  that clashes under a free key belongs to a row made by hand. The statements of a wave
  complement each other (`WaveQueries`), for every type and priority. For
  `SelectiveAfterBoot` the invariant `StartsAlone` holds while only starts have happened:
  every job is a start with the bundled pack and the wave of the setting, no row is made
  by hand, and as long as a feed outside the wave is open some start has the closing
  statement still before it (`Sweeps`). The one that opened it does; an INSERT that fails
  means that another start has inserted (`LookFindsRoom`).
* *PollPace.* `PaceInv` adds to the bounds what relates claim and row, by the step of the
  poll: nobody but the poll under way counts failures, so while it fetches the claim has as
  many as the row, and once its success is stored the row has none (`ClaimCurrent`); after
  a success stored and scheduled without a later failure or edit every claim shows none,
  also when later writes are lost (`SteadyClaim`); and after a failure the delay is the
  backoff of its count until a success is stored (`Backed`). `NoPollAssumption` keeps a
  poll and none apart. The rest is
  arithmetic about `NextPollDelay`: one doubling exceeds the widest jitter, so that delays
  grow (`DelayGrows`), and clamps come last (`DelayWithinBounds`).
* *Newsroom.* The histories need what binds a poll to them: its item is stored and weighed
  before it is marked (`HandStored`), an editor who speaks while a poll has the item in
  hand is recorded as crossing it (`SpokenInTime`), a decision to mark still holds when
  the mark is written, since only the poll itself adds to its run (`DecidedWell`), and a
  request has done exactly the parts it came past (`OnTheWay`).
* *Startup.* One process at a time applies a migration, and one that is not yet recorded
  (`Migrating`); a repair that no insert crossed has read the maximum there still is
  (`Repairing`); while nothing is suspect the sequence is past every row and every
  open insert, whose ids differ (`SequencePast`). That a table which is not empty has a
  largest id is the one induction, taken from the library's well-foundedness of `<`.
* *RateLimiter.* Neither the tokens of a bucket nor its time is monotonic, as calls come out
  of order. What is: the line through both, `Line`, is never below nothing now, so no
  bucket owes more than the lag of a call gains; what a client was let through for plus
  its tokens never exceeds a full bucket plus what it gained by the bucket's own time;
  and a bucket that was thrown away is so old that it would be full
  (`LimiterAssumption`: collection takes longer than filling up). The refinement follows:
  what a call finds differs from the allowance of now by at most `Slack`.
* *Reading.* While a list is open all that was read lies before the cursor, and of what
  was in the list all along nothing that lies there is missing. The order by time and id
  is total and strict (`NewerIsAnOrder`), so a page that begins after the cursor, whether
  its article is still there or not, neither repeats nor skips.
* *Digest.* What is out and what waits are the candidates, each once (`Complete`, `Once`,
  `Tallied`); the last `run` cards are of `lastSource` and the one before is not
  (`RunExact`), so that a source is held back only after a full run; and a card that waits
  was overtaken only by cards for which its own source had had its run (`Patient`). Variety is
  first shown of the list before jobs are taken out (`VariedAll`): cards of one source that
  are neighbours on the page either were neighbours before, or an expired one of another
  source stood between.
* *Compositions.* A step of one part leaves the others' variables alone, so their
  invariants hold side by side (`WorkerTypeCorrect`, `FeedsTypeCorrect`,
  `ApiTypeCorrect`).

Only model-checked are the liveness properties `PolledAgain`, `CooldownEnds`,
`EveryFetchEnds`, `CountSettles`, `StoriesMeet` and `ProcessesComeUp`: they need fairness
and ENABLED, which the prover does not handle. `NobodyWaitsInVain` is the part of
`EveryFetchEnds` that is safety. What the six refuted properties say of the code is shown
by a counterexample and needs no proof.

## 5. Where code and documentation differ

Six differences are runs (see `findings`): leases and batches, quarantine,
titles, repeated pushes, the stored push token, and the registry that keeps 2 of the 538
searches in the bundled pack. The one about the push token means that after its
first sync a device registers the id of its registration as if it were a token, then
the id of that, until an id comes out that exists already (at the latest
`dev_dev_dev_dev_dev_`, which all devices come to) and every further call fails; a
topic switched off in the app stays on in the row of the real token. Others met
while reading, without a run:

* `docs/deployment.md:85` calls `QUARANTINE_AFTER` the failures "before a feed is
  quarantined"; the code stores UNSTABLE (`pipeline.go:667`), while a single
  blocked request quarantines at once.
* `docs/operations/runbook.md:51` speaks of per-topic throttles; `enqueuePush`
  counts all topics.
* `fetcher.go:287` promises a number of requests a minute per publisher;
  goroutines that slept do not look again, and the limiter is one per process.
  Hosts under a shared suffix such as `co.uk` count as one site.
* The SQLite claim ignores `needs_review`, the PostgreSQL one does not.
* `articles.go:147` calls concurrent ingestion idempotent; two feeds that list
  one URL may store it twice.
* `AssignCluster` recounts the cluster an article joins, never the one it leaves.
* An insert or an attachment that fails (`pipeline.go:309`, `314`, `320`) is only logged, and the
  ETag of the body is stored all the same (`pipeline.go:223`). While the publisher answers 304, `ProcessFeed` returns before
  `ingestCandidates`, so that the article stays without its cluster and a wrong count stays
  wrong until the feed changes while the item is still on it.
* `middleware.go:152` says that search and push registration are limited more
  strictly; the weight it computes is not used.
* `feeds.go:522` says a feed is never scheduled further out than six hours or
  polled faster than two minutes; fixed delays of 12 and 24 hours and a short
  Retry-After bypass both bounds.
* The app declares `unregisterPush` and never calls it; `push.go:189` says that
  tokens rejected by FCM are removed, and `DeactivatePushToken` has no caller.
* `docs/security/ssrf-and-content.md:43` says that registration is capped per device
  token; no such cap exists.
* An admin push for an unknown article is sent and then refused by the foreign
  key; each retry of the 500 sends it again.

Of the registry:

* `handleAdminCreateFeed` stores the address in lower case as the key and the parser's id;
  an import that lists the feed finds no row with its key, inserts, and meets the primary
  key. The whole import stops there, though `opml.go:5` says one bad outline must never
  abort it. Manual feeds are flagged as missing by every import.
* An import enables the feeds it lists, also those a wave or an editor shut, and leaves
  `next_poll_at` alone: what a wave parked stays silent for up to a year. So it is with an
  editor's PATCH, which also writes back what it read of the columns it was not asked
  about.
* `docs/operations/runbook.md:23` says "activation changes only the polling flag", and so
  does the answer of the handler (`activation.go:57`); a wave writes `next_poll_at` too. The
  description of wave 4 counts all feeds, though those of unknown type are disabled by it.
* A start that dies between the import and the wave leaves the whole catalog enabled, and
  the next start does nothing, since feeds are enabled; one that dies within the import
  leaves part of the pack and no row in `feed_pack_imports`. A registry whose feeds are
  all disabled is imported again at the next start. The embedded worker starts before
  all this.

Of pace, newsroom and start-up:

* After an outage the first answer that is a 304 is scheduled with the failures counted at
  claim time, though the row says none. Where `MarkFeedSuccess` fails, whose error is
  dropped (`pipeline.go:176`), the row says so too, and the next 304 waits the backoff as well.
  The PATCH of a feed takes any string as its tier,
  which then means 15 minutes, and a change of priority does not change the tier. An HTML
  page or an empty body counts as parsed in the score, which may rise while polls fail.
* `docs/product/reading-contract.md:35` says that breaking evaluation runs on every insert; a
  process that dies between the two leaves the article unweighed for good, and
  `RecentBreakingCandidates`, which could find it, has no caller. The reports that came
  first are never weighed again when others corroborate them, and the count of publishers
  asks for the item's own topic, not for the cluster it was put into, so that reworded
  reports corroborate nothing.
* `articles.go:455` speaks of replacing editor-owned assignments; only rows that are not an
  editor's are deleted, so that editors' categories add up. `handleAdminArticleUpdate`
  answers 400 for a bad status after it has stored the breaking flag; errors of the audit
  log are dropped, and articles that do not exist are audited.
* The repair of the sequences at a start may set one back under a process that inserts;
  the insert that then collides takes its transaction with it, such as a failure count
  in `MarkFeedFailure`, whose error is dropped.

Of reading and limits:

* The Android app (`NewsApi.kt:40`) and the page (`app.js:157`) send `categoryId`,
  `provinceId` and `sourceId`; `parseArticleQuery` reads `category`, `province` and
  `source`, so their filters do nothing. `loadMore` of the page sends neither filter nor
  query. A list by score returns a cursor that it ignores.
* `offset` is parsed by `parseLimit` and so never exceeds 100; `parseOffset` has no caller.
* `README.md:206` promises at most one card of a source in a section, and the comment at
  `articles_query.go:297` speaks of the number of cards a source may contribute; what is limited
  is how many come in a row. Candidates of u, u, v and w make the section u, v, u of three
  cards. Fewer than three are not mixed at all. The expired jobs are taken out of their section after
  it was mixed and cut (`articles_query.go:375`): their places stay empty though candidates were
  left, and cards of one source may come to stand next to each other, as A and A of A, B
  (expired), A, C do.
* A login is said to be limited "more aggressively than other endpoints" (`admin.go:170`); it
  has a bucket of its own of the same size and rate.
* A limit of one to three requests a minute allows nothing: a quarter of a minute holds less
  than one token.

## 6. Not modelled, and what could follow

Not modelled, because it keeps no state and its content is wording: the SSRF guard, the
parser, the sanitiser, the classifier, normalisation beyond equality; because it reads once
and formats: related and trending articles, RSS, caching headers, filters and
full-text search, the choice of the sections of the home page; because it is a user
interface: the screens of the app, the page and the console, and the race of two lists
loading in the page; because its interleavings are those of libraries that are not in
the repository: the WorkManager jobs and the Room cache of the app. Of the admin API,
sessions are left out: signed tokens without any state at the server; logins are
throttled by the limiter that `RateLimiter` models, under a key of their own. `Claimable`
has the query of SQLite too, but every run is about PostgreSQL.

Approximations that remain: `ArticleStore` and `Newsroom` have no end of their look-back
windows; `Reading` takes the scores of a list as fixed during a walk; `FeedRegistry` takes
a parked feed as parked until somebody wakes it, since a year is longer than a behaviour;
`Startup` has one table for the four with a sequence.

What could follow: an exclusive polling service that `FeedScheduler` implements under
`Sized` and an announcement service that `PushDelivery` implements, each with the proof
of its refinement; a bound on the requests of a minute that go beyond `RequestsPerMinute`
when several goroutines slept for one entry; the composition of `ArticleStore` and `Newsroom` under
one clock, so that reports leave the six hours.
