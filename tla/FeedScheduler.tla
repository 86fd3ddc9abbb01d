---------------------------- MODULE FeedScheduler ----------------------------
(***************************************************************************)
(* The polling of the feed registry: worker processes lease due rows of    *)
(* the table `feeds`, fetch and ingest them in bounded concurrency, and    *)
(* write health, failure count and next poll time back                     *)
(* (backend/internal/ingest/pipeline.go, backend/internal/store/feeds.go). *)
(*                                                                         *)
(* Every SQL statement or transaction is one step; what a worker does      *)
(* between two statements is a separate step, so that time, other workers, *)
(* crashes and the admin API interleave there.  Timestamps are kept as the *)
(* time left: a column holds 0 once its instant has passed.                *)
(***************************************************************************)
EXTENDS Integers, FiniteSets

CONSTANTS
  Workers,       \* processes running Pipeline.Run (cmd/worker replicas, cmd/api)
  Feeds,         \* rows of the feeds table
  None,          \* SQL NULL in lease_owner
  Priority,      \* [Feeds -> Int], the priority column
  Dialect,       \* "postgres" or "sqlite": ClaimDueFeeds has one query for each
  BatchSize,     \* LIMIT of a claim (INGEST_BATCH_SIZE, 24)
  Concurrency,   \* feeds one worker processes at once (WORKER_CONCURRENCY, 8)
  Lease,         \* length of a lease (3 minutes)
  FetchTimeout,  \* deadline of Fetch (2 minutes)
  IngestTime,    \* time the writes after a fetch take; the code does not bound it
  MinPoll,       \* minPollDelay (2 minutes)
  MaxPoll,       \* maxPollDelay (6 hours)
  Backoff,       \* [Outcomes -> SUBSET Nat]: delays handleFetchError sets itself
  Parked,        \* delay of a deactivated feed (365 days)
  QuarantineAfter,  \* failures from which on most failures read UNSTABLE
  Outcomes,      \* the results of a poll that occur, each by the status it stores
  MaxFailures,   \* bound: the failure counter saturates here
  MaxFaults,     \* bound: crashes, panics and lost writes in a behaviour
  MaxOps         \* bound: admin and import operations in a behaviour

\* The statuses handleFetchError and the parse branch of ProcessFeed store.
FailureStatus ==
  {"QUARANTINED",   \* ErrBlocked: SSRF guard, DNS failure, bad URL
   "DEGRADED",      \* timeout, 5xx, circuit open, any other error
   "UNSTABLE",      \* ErrTooLarge, ErrBadType
   "RATE_LIMITED",  \* 429
   "HTTP_ERROR",    \* 404, 410
   "DISABLED",      \* 401, 403
   "PARSER_ERROR"}  \* the body is no feed

\* A readable feed: with recent items, with none, or with old ones only.
SuccessStatus == {"HEALTHY", "EMPTY", "STALE"}

HealthStatus == FailureStatus \cup SuccessStatus \cup {"UNKNOWN"}

ASSUME SchedulerAssumption ==
  /\ IsFiniteSet(Workers) /\ IsFiniteSet(Feeds) /\ None \notin Workers
  /\ Priority \in [Feeds -> Int]
  /\ Dialect \in {"postgres", "sqlite"}
  /\ BatchSize \in Nat \ {0} /\ Concurrency \in Nat \ {0}
  /\ Lease \in Nat \ {0} /\ FetchTimeout \in Nat /\ IngestTime \in Nat
  /\ MinPoll \in Nat /\ MaxPoll \in Nat /\ MinPoll <= MaxPoll
  /\ Outcomes \subseteq FailureStatus \cup SuccessStatus
  /\ Backoff \in [Outcomes -> SUBSET Nat]
  /\ Parked \in Nat
  \* 3 minutes, 365 days, 24, 12 and 1 hours: none is under minPollDelay.
  /\ MinPoll <= Lease /\ MinPoll <= Parked
  /\ \A o \in Outcomes \ {"RATE_LIMITED"} : \A d \in Backoff[o] : MinPoll <= d
  /\ QuarantineAfter \in Nat \ {0} /\ MaxFailures \in Nat \ {0}
  /\ MaxFaults \in Nat /\ MaxOps \in Nat

VARIABLES
  \* the columns of the feeds table, by feed
  enabled, needsReview, health, failures, nextPoll, leaseOwner, leaseLeft,
  \* the goroutine of a worker that processes a feed, by worker and feed: where it
  \* is, the failure count of the row its claim returned, the time since it began
  stage, snapshot, age,
  \* history of a feed, for the properties: time since a fetch last began, whether
  \* an early poll was asked for, failures stored since the last success
  since, excused, streak,
  \* faults and operator actions still allowed
  faults, ops

config  == <<enabled, needsReview>>
outcome == <<health, failures>>
lease   == <<leaseOwner, leaseLeft>>
job     == <<stage, snapshot, age>>
history == <<since, excused, streak>>
bounds  == <<faults, ops>>
table   == <<config, outcome, nextPoll, lease>>

vars == <<table, job, history, bounds>>

\* Waiting for the semaphore of RunOnce, in Fetch, in the writes after it, between
\* MarkFeedSuccess and ReleaseFeed.
Stage == {"none", "queued", "fetching", "ingesting", "marked"}

\* The columns, goroutines and histories hold what their types allow.
TypeOK ==
  /\ enabled \in [Feeds -> BOOLEAN] /\ needsReview \in [Feeds -> BOOLEAN]
  /\ health \in [Feeds -> HealthStatus] /\ failures \in [Feeds -> Nat]
  /\ nextPoll \in [Feeds -> Nat]
  /\ leaseOwner \in [Feeds -> Workers \cup {None}] /\ leaseLeft \in [Feeds -> Nat]
  /\ stage \in [Workers -> [Feeds -> Stage]]
  /\ snapshot \in [Workers -> [Feeds -> Nat]] /\ age \in [Workers -> [Feeds -> Nat]]
  /\ since \in [Feeds -> Nat] /\ excused \in [Feeds -> BOOLEAN]
  /\ streak \in [Feeds -> Nat]
  /\ faults \in Nat /\ ops \in Nat

(***************************************************************************)
(* Helpers                                                                 *)
(***************************************************************************)
Running(w) == {f \in Feeds : stage[w][f] \in {"fetching", "ingesting", "marked"}}
JobsOf(w)  == {f \in Feeds : stage[w][f] # "none"}

Bump(n) == IF n < MaxFailures THEN n + 1 ELSE n

PollDelays == MinPoll..MaxPoll      \* every value NextPollDelay can return

Delays(status) == IF Backoff[status] = {} THEN PollDelays ELSE Backoff[status]

\* From QuarantineAfter failures on, what is neither a quarantine nor a parse error
\* (whose branch has no such rule) reads UNSTABLE.
StatusAfter(status, n) ==
  IF n >= QuarantineAfter /\ status \notin {"QUARANTINED", "PARSER_ERROR"}
  THEN "UNSTABLE" ELSE status

\* A claim that takes leased rows, and one that never takes a row back from a dead
\* worker: what the lease test of the next definition must not be.
ClaimableThoughLeased(f) ==
  enabled[f] /\ nextPoll[f] = 0 /\ health[f] # "QUARANTINED"
ClaimableOnceReleased(f) ==
  ClaimableThoughLeased(f) /\ leaseOwner[f] = None

\* The WHERE clause of ClaimDueFeeds; the SQLite query has no needs_review test.
Claimable(f) ==
  /\ enabled[f]
  /\ nextPoll[f] = 0
  /\ leaseLeft[f] = 0
  /\ health[f] # "QUARANTINED"
  /\ Dialect = "postgres" => ~needsReview[f]

Due == {f \in Feeds : Claimable(f)}

\* ORDER BY priority DESC LIMIT BatchSize. Among equal priorities the query takes
\* the longest overdue first; the model takes any.
IsBatch(B) ==
  /\ B \subseteq Due
  /\ Cardinality(B) <= BatchSize
  /\ B = Due \/ Cardinality(B) = BatchSize
  /\ \A f \in B, g \in Due \ B : Priority[f] >= Priority[g]

(***************************************************************************)
(* The statements of the store. None of them looks at lease_owner.         *)
(***************************************************************************)
\* A release that leaves next_poll_at where it was.
ReleaseUnscheduled(f, delay) ==
  /\ leaseOwner' = [leaseOwner EXCEPT ![f] = None]
  /\ leaseLeft' = [leaseLeft EXCEPT ![f] = 0]
  /\ UNCHANGED nextPoll

ReleaseFeed(f, delay) ==
  /\ leaseOwner' = [leaseOwner EXCEPT ![f] = None]
  /\ leaseLeft' = [leaseLeft EXCEPT ![f] = 0]
  /\ nextPoll' = [nextPoll EXCEPT ![f] = delay]

\* A success that forgets to reset the counter.
MarkSuccessKeepsCount(f, status) ==
  /\ health' = [health EXCEPT ![f] = status]
  /\ streak' = [streak EXCEPT ![f] = 0]
  /\ UNCHANGED failures

MarkFeedSuccess(f, status) ==
  /\ health' = [health EXCEPT ![f] = status]
  /\ failures' = [failures EXCEPT ![f] = 0]
  /\ streak' = [streak EXCEPT ![f] = 0]

MarkFeedFailure(f, n, status, delay) ==
  /\ health' = [health EXCEPT ![f] = status]
  /\ failures' = [failures EXCEPT ![f] = n]
  /\ streak' = [streak EXCEPT ![f] = Bump(@)]
  /\ ReleaseFeed(f, delay)

(***************************************************************************)
(* The worker                                                              *)
(***************************************************************************)
Init ==
  /\ enabled = [f \in Feeds |-> TRUE] /\ needsReview = [f \in Feeds |-> FALSE]
  /\ health = [f \in Feeds |-> "UNKNOWN"] /\ failures = [f \in Feeds |-> 0]
  /\ nextPoll = [f \in Feeds |-> 0]
  /\ leaseOwner = [f \in Feeds |-> None] /\ leaseLeft = [f \in Feeds |-> 0]
  /\ stage = [w \in Workers |-> [f \in Feeds |-> "none"]]
  /\ snapshot = [w \in Workers |-> [f \in Feeds |-> 0]]
  /\ age = [w \in Workers |-> [f \in Feeds |-> 0]]
  /\ since = [f \in Feeds |-> MinPoll] /\ excused = [f \in Feeds |-> FALSE]
  /\ streak = [f \in Feeds |-> 0]
  /\ faults = MaxFaults /\ ops = MaxOps

\* RunOnce begins: one UPDATE ... RETURNING leases the batch. The loop of Run comes
\* back here only after wg.Wait, when no goroutine of the last batch is left.
Claim(w) ==
  /\ JobsOf(w) = {}
  /\ Due # {}
  /\ \E B \in SUBSET Due :
       /\ IsBatch(B)
       /\ leaseOwner' = [f \in Feeds |-> IF f \in B THEN w ELSE leaseOwner[f]]
       /\ leaseLeft' = [f \in Feeds |-> IF f \in B THEN Lease ELSE leaseLeft[f]]
       /\ stage' = [stage EXCEPT ![w] =
            [f \in Feeds |-> IF f \in B THEN "queued" ELSE "none"]]
       /\ snapshot' = [snapshot EXCEPT ![w] =
            [f \in Feeds |-> IF f \in B THEN failures[f] ELSE 0]]
  /\ UNCHANGED <<config, outcome, nextPoll, age, history, bounds>>

\* `sem <- struct{}{}; go func() ...`: a free slot of the semaphore starts the fetch.
StartFetch(w, f) ==
  /\ stage[w][f] = "queued"
  /\ Cardinality(Running(w)) < Concurrency
  /\ stage' = [stage EXCEPT ![w][f] = "fetching"]
  /\ since' = [since EXCEPT ![f] = 0]
  /\ excused' = [excused EXCEPT ![f] = FALSE]
  /\ UNCHANGED <<table, snapshot, age, streak, bounds>>

EndJob(w, f) ==
  /\ stage' = [stage EXCEPT ![w][f] = "none"]
  /\ snapshot' = [snapshot EXCEPT ![w][f] = 0]
  /\ age' = [age EXCEPT ![w][f] = 0]

\* handleFetchError, or the parse branch of ProcessFeed: one transaction writes the
\* outcome, drops the lease and sets the next poll. The new count comes from the
\* claimed row, not from the table.
FetchFails(w, f) ==
  /\ stage[w][f] = "fetching"
  /\ \E status \in Outcomes \cap FailureStatus : \E delay \in Delays(status) :
       LET n == Bump(snapshot[w][f]) IN
       /\ MarkFeedFailure(f, n, StatusAfter(status, n), delay)
       /\ excused' = [excused EXCEPT ![f] = delay < MinPoll]
  /\ EndJob(w, f)
  /\ UNCHANGED <<config, since, bounds>>

\* 304 Not Modified: health is written at once, the release follows.
FetchNotModified(w, f) ==
  /\ stage[w][f] = "fetching"
  /\ MarkFeedSuccess(f, "HEALTHY")
  /\ stage' = [stage EXCEPT ![w][f] = "marked"]
  /\ UNCHANGED <<config, nextPoll, lease, snapshot, age, since, excused, bounds>>

\* The body parsed: ingestCandidates writes the articles.
FetchParsed(w, f) ==
  /\ stage[w][f] = "fetching"
  /\ stage' = [stage EXCEPT ![w][f] = "ingesting"]
  /\ UNCHANGED <<table, snapshot, age, history, bounds>>

\* MarkFeedSuccess once the candidates are stored.
MarkSuccess(w, f) ==
  /\ stage[w][f] = "ingesting"
  /\ \E status \in Outcomes \cap SuccessStatus : MarkFeedSuccess(f, status)
  /\ stage' = [stage EXCEPT ![w][f] = "marked"]
  /\ UNCHANGED <<config, nextPoll, lease, snapshot, age, since, excused, bounds>>

\* scheduleNext: ReleaseFeed clears whatever lease the row carries.
Release(w, f) ==
  /\ stage[w][f] = "marked"
  /\ \E delay \in PollDelays : ReleaseFeed(f, delay)
  /\ EndJob(w, f)
  /\ UNCHANGED <<config, outcome, history, bounds>>

(***************************************************************************)
(* Faults                                                                  *)
(***************************************************************************)
\* MarkFeedSuccess returns an error, which ProcessFeed drops, and goes on; from
\* "fetching" it is the one of the 304 branch.
LoseMark(w, f) ==
  /\ faults > 0
  /\ stage[w][f] \in {"fetching", "ingesting"}
  /\ stage' = [stage EXCEPT ![w][f] = "marked"]
  /\ faults' = faults - 1
  /\ UNCHANGED <<table, snapshot, age, history, ops>>

\* The goroutine ends and the row keeps its lease: a recovered panic, a
\* MarkFeedFailure or a ReleaseFeed that returned an error.
LoseJob(w, f) ==
  /\ faults > 0
  /\ f \in Running(w)
  /\ EndJob(w, f)
  /\ faults' = faults - 1
  /\ UNCHANGED <<table, history, ops>>

\* The process dies or is shut down; its supervisor starts it again. A claim whose
\* rows could not be read back (an error of collectFeedRows) leaves the same: leases
\* without goroutines.
Crash(w) ==
  /\ faults > 0
  /\ JobsOf(w) # {}
  /\ stage' = [stage EXCEPT ![w] = [f \in Feeds |-> "none"]]
  /\ snapshot' = [snapshot EXCEPT ![w] = [f \in Feeds |-> 0]]
  /\ age' = [age EXCEPT ![w] = [f \in Feeds |-> 0]]
  /\ faults' = faults - 1
  /\ UNCHANGED <<table, history, ops>>

(***************************************************************************)
(* Operators: each statement that touches scheduling columns               *)
(***************************************************************************)
Operate == ops > 0 /\ ops' = ops - 1 /\ UNCHANGED <<outcome, lease, job, faults>>

\* PATCH of a feed: UpdateFeedAdmin. An import whose pack contains the feed (the
\* update branch of UpsertFeedFromImport) does the same with `on` TRUE.
UpdateFeed(f, on) ==
  /\ Operate
  /\ enabled' = [enabled EXCEPT ![f] = on]
  /\ needsReview' = [needsReview EXCEPT ![f] = FALSE]
  /\ UNCHANGED <<nextPoll, history>>

\* An import whose pack lacks the feeds of S.
MarkFeedsMissingFromPack(S) ==
  /\ Operate
  /\ needsReview' = [f \in Feeds |-> needsReview[f] \/ f \in S]
  /\ UNCHANGED <<enabled, nextPoll, history>>

\* The two statements of ApplyActivationWave, S being the rows of the wave's types.
WaveEnables(S) ==
  /\ Operate
  /\ enabled' = [f \in Feeds |-> enabled[f] \/ f \in S]
  /\ nextPoll' = [f \in Feeds |-> IF f \in S /\ ~enabled[f] THEN 0 ELSE nextPoll[f]]
  /\ excused' = [f \in Feeds |-> excused[f] \/ (f \in S /\ ~enabled[f])]
  /\ UNCHANGED <<needsReview, since, streak>>

WaveDisables(S) ==
  /\ Operate
  /\ enabled' = [f \in Feeds |-> enabled[f] /\ f \notin S]
  /\ nextPoll' = [f \in Feeds |->
       IF f \in S /\ enabled[f] THEN Parked ELSE nextPoll[f]]
  /\ UNCHANGED <<needsReview, history>>

(***************************************************************************)
(* Time                                                                    *)
(***************************************************************************)
LessUnbounded(n) == n - 1      \* a timer that runs past its end
Less(n) == IF n > 0 THEN n - 1 ELSE 0

\* A fetch ends by its deadline, the writes after it take at most IngestTime, and
\* a goroutine with a free slot is started at once.
MayWait(w, f) ==
  /\ stage[w][f] = "queued" => Cardinality(Running(w)) >= Concurrency
  /\ stage[w][f] = "fetching" => age[w][f] < FetchTimeout
  /\ stage[w][f] \in {"ingesting", "marked"} => age[w][f] < FetchTimeout + IngestTime

Tick ==
  /\ \A w \in Workers, f \in Feeds : MayWait(w, f)
  /\ nextPoll' = [f \in Feeds |-> Less(nextPoll[f])]
  /\ leaseLeft' = [f \in Feeds |-> Less(leaseLeft[f])]
  /\ age' = [w \in Workers |-> [f \in Feeds |->
       IF f \in Running(w) THEN age[w][f] + 1 ELSE age[w][f]]]
  /\ since' = [f \in Feeds |-> IF since[f] < MinPoll THEN since[f] + 1 ELSE since[f]]
  /\ UNCHANGED <<config, outcome, leaseOwner, stage, snapshot, excused, streak, bounds>>

(***************************************************************************)
(* Specification                                                           *)
(***************************************************************************)
Process(w, f) ==
  \/ StartFetch(w, f) \/ FetchFails(w, f) \/ FetchNotModified(w, f)
  \/ FetchParsed(w, f) \/ MarkSuccess(w, f) \/ Release(w, f)

Fault(w, f) == LoseMark(w, f) \/ LoseJob(w, f)

Operator ==
  \/ \E f \in Feeds, on \in BOOLEAN : UpdateFeed(f, on)
  \/ \E S \in SUBSET Feeds :
       MarkFeedsMissingFromPack(S) \/ WaveEnables(S) \/ WaveDisables(S)

Next ==
  \/ \E w \in Workers : Claim(w) \/ Crash(w)
  \/ \E w \in Workers, f \in Feeds : Process(w, f) \/ Fault(w, f)
  \/ Operator
  \/ Tick

Spec == Init /\ [][Next]_vars

\* Run loops for as long as its process lives, a started goroutine ends, and time
\* passes. Nothing obliges a fault or an operator.
Fairness ==
  /\ WF_vars(Tick)
  /\ \A w \in Workers : WF_vars(Claim(w))
  /\ \A w \in Workers, f \in Feeds : WF_vars(Process(w, f))

FairSpec == Spec /\ Fairness

(***************************************************************************)
(* Properties                                                              *)
(***************************************************************************)
\* The sizing under which a lease outlives the work it covers: a claim never
\* queues behind itself, and fetch and writes together fit into the lease. The
\* defaults (24 feeds, 8 slots) do not satisfy the first conjunct.
Sized ==
  /\ BatchSize <= Concurrency
  /\ FetchTimeout + IngestTime < Lease

\* No two processes work on the same feed at the same time, whatever crashes,
\* expired leases and operators do: what the lease of ClaimDueFeeds is for.
AtMostOneFetcher ==
  \A f \in Feeds : \A w1, w2 \in Workers :
    (f \in JobsOf(w1) /\ f \in JobsOf(w2)) => w1 = w2

\* The same of the fetches alone, as the architecture document has it: "claims due
\* feeds with a short lease, so two processes never fetch the same feed".
NeverFetchedTwiceAtOnce ==
  \A f \in Feeds : \A w1, w2 \in Workers :
    (stage[w1][f] = "fetching" /\ stage[w2][f] = "fetching") => w1 = w2

\* The failure counter of the row is the number of failures stored since the last
\* stored success: two workers writing a count they both read at claim time would
\* lose one.
NoLostFailure ==
  \A f \in Feeds : failures[f] = streak[f]

\* "A feed is never polled faster than minPollDelay", also when its worker died
\* and the lease ran out, unless the publisher asked for an earlier retry or a wave
\* has just activated it.
Polite ==
  [][\A w \in Workers, f \in Feeds :
       StartFetch(w, f) => (since[f] >= MinPoll \/ excused[f])]_vars

Fetching(f) == \E w \in Workers : stage[w][f] = "fetching"

Pollable(f) ==
  /\ enabled[f]
  /\ health[f] # "QUARANTINED"
  /\ Dialect = "postgres" => ~needsReview[f]

\* Fewer rivals of the same or a higher priority than one claim has room for.
Uncontended(f) ==
  Cardinality({g \in Feeds \ {f} : Priority[g] >= Priority[f]}) < BatchSize

\* A pollable feed is polled again and again: no crash, panic, lost write or
\* operator leaves it behind. Low priorities are covered only as far as the
\* LIMIT of a claim reaches them.
PolledAgain ==
  \A f \in Feeds : Uncontended(f) => []<>(Fetching(f) \/ ~Pollable(f))

\* No feed stays quarantined for good: one that is enabled, parked by nobody and not kept
\* waiting by the LIMIT of a claim is fetched again or its quarantine lifted ("repeated
\* blocks quarantine the feed for 24 h instead of retrying", security/ssrf-and-content.md:17).
QuarantineEnds ==
  \A f \in Feeds : Uncontended(f) =>
    []<>(Fetching(f) \/ health[f] # "QUARANTINED" \/ ~enabled[f] \/ needsReview[f])
=============================================================================
