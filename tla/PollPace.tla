------------------------------- MODULE PollPace -------------------------------
(***************************************************************************)
(* How often one feed is polled: the tier an outline gets at import        *)
(* (backend/internal/feed/opml/opml.go, backend/internal/model/model.go),  *)
(* the delay, health and score each poll leaves in its row                 *)
(* (Store.NextPollDelay and HealthScore in backend/internal/store/feeds.go,*)
(* Pipeline.ProcessFeed and handleFetchError in                            *)
(* backend/internal/ingest/pipeline.go).                                   *)
(*                                                                         *)
(* FeedScheduler takes "some delay between the bounds" for granted and     *)
(* asks who polls when; here the delay is computed.  Durations are in      *)
(* seconds; the nanoseconds below them are left out.  A poll works with    *)
(* the row its claim returned while editors and imports change the table,  *)
(* and what it writes back may be lost: the code drops the errors of       *)
(* MarkFeedSuccess and MarkFeedFailure and only logs that of ReleaseFeed.  *)
(* Two polls of one feed, which FeedScheduler has, do not overlap here.    *)
(***************************************************************************)
EXTENDS Integers

CONSTANTS
  Kinds,            \* sourceType attributes of outlines
  Marks,            \* priority attributes of outlines
  Grades,           \* priorities an editor sets, within 1..5
  Counts,           \* numbers of candidates in a body
  Ages,             \* hours since the newest dated candidate
  Draws,            \* values of UnixNano() % 1000 in the jitter
  RetryAfters,      \* Retry-After values, 0 for none
  Adaptive,         \* ADAPTIVE_POLLING
  QuarantineAfter,  \* failures from which on most failures read UNSTABLE
  NoPoll,           \* no poll is under way
  MaxFailures,      \* bound: no poll begins beyond this many failures
  MaxChanges,       \* bound: edits and imports in a behaviour
  MaxLosses         \* bound: writes of polls lost in a behaviour

\* The draw is UnixNano() % 1000, the grades are those of the validation in
\* handleAdminUpdateFeed.
ASSUME PaceAssumption ==
  /\ Grades \subseteq 1..5 /\ Draws \subseteq 0..999
  /\ Counts \subseteq Nat /\ RetryAfters \subseteq Nat
  /\ QuarantineAfter \in Nat /\ MaxFailures \in Nat
  /\ MaxChanges \in Nat /\ MaxLosses \in Nat

VARIABLES
  feed,     \* the row: kind, priority, tier, failures, health, score, delay
  poll,     \* the poll under way, or NoPoll: the tier and the failures its claim
            \* returned, its step and, once answered, the items it counted
  ended,    \* history: how the last poll ended
  paced,    \* history: the tier that poll was scheduled by
  steady,   \* history: successes stored and scheduled since a failure or a change of the
            \* tier, to 2
  changes,
  losses

paceVars == <<feed, poll, ended, paced, steady, changes, losses>>

OneMinute == 60
OneHour   == 60 * OneMinute
MinPoll == 2 * OneMinute       \* minPollDelay
MaxPoll == 6 * OneHour         \* maxPollDelay

AtMost(n, limit) == IF n > limit THEN limit ELSE n
AtLeast(n, limit) == IF n < limit THEN limit ELSE n

(***************************************************************************)
(* Tiers                                                                   *)
(***************************************************************************)
\* ParseSourceType: an attribute it does not know makes an UNKNOWN source.
SourceTypeOf(kind) ==
  IF kind \in {"validated-direct", "direct", "official-realtime", "official",
               "aggregator-topic", "aggregator-search", "opportunity", "tender"}
  THEN kind ELSE "unknown"

\* mapPriority: the source type decides first.
PriorityOf(kind, mark) ==
  CASE kind = "official-realtime" -> 5
    [] kind = "validated-direct"  -> IF mark = "low" THEN 4 ELSE 5
    [] kind = "experimental"      -> 1
    [] OTHER -> CASE mark = "high" -> 4
                  [] mark = "low"  -> 2
                  [] mark = "1"    -> 1
                  [] OTHER         -> 3

PollTierFor(type, priority) ==
  CASE type = "official-realtime"                     -> "BREAKING"
    [] type = "validated-direct" /\ priority >= 5     -> "HIGH"
    [] type = "direct" /\ priority >= 4               -> "HIGH"
    [] type \in {"opportunity", "tender"}             -> "OPPORTUNITY"
    [] type = "aggregator-search" /\ priority <= 2    -> "SLOW"
    [] OTHER                                          -> "NORMAL"

\* A PATCH stores whatever tier it is sent: "other" stands for a word nobody knows.
Tiers == {"BREAKING", "HIGH", "NORMAL", "SLOW", "OPPORTUNITY", "other"}

\* A poll under way.
Polls == [tier : Tiers, failures : Nat, count : Nat, step : {"fetching", "stored", "unstored"}]

ASSUME NoPollAssumption == NoPoll \notin Polls

Interval(tier) ==
  OneMinute * (CASE tier = "BREAKING"    -> 3
              [] tier = "HIGH"        -> 5
              [] tier = "NORMAL"      -> 12
              [] tier = "SLOW"        -> 30
              [] tier = "OPPORTUNITY" -> 60
              [] OTHER                -> 15)

\* staleWindow, in hours.
StaleWindow(tier) ==
  CASE tier \in {"BREAKING", "HIGH"} -> 24
    [] tier = "NORMAL"               -> 72
    [] OTHER                         -> 14 * 24

(***************************************************************************)
(* Delay and score                                                         *)
(***************************************************************************)
\* Quiet feeds are stretched and busy ones hurried, unless the feed is failing.
Base(tier, failures, count) ==
  CASE Adaptive /\ count = 0 /\ failures = 0 -> 2 * Interval(tier)
    [] Adaptive /\ count >= 10               -> AtLeast(Interval(tier) \div 2, MinPoll)
    [] OTHER                                 -> Interval(tier)

\* 1 << min(failures, 6), from the first failure on.
Doublings == <<2, 4, 8, 16, 32, 64>>

Backoff(tier, failures, count) ==
  Base(tier, failures, count)
    * (IF failures > 0 THEN Doublings[AtMost(failures, 6)] ELSE 1)

\* Between -20 % and +20 %.
Jittered(duration, draw) == (duration * (800 + (4 * draw) \div 10)) \div 1000

\* Clamped before the jitter, as the code once did: the ceiling is 7.2 hours then.
DelayClampedFirst(tier, failures, count, draw) ==
  Jittered(AtLeast(AtMost(Backoff(tier, failures, count), MaxPoll), MinPoll), draw)

\* NextPollDelay.
NextPollDelay(tier, failures, count, draw) ==
  AtLeast(AtMost(Jittered(Backoff(tier, failures, count), draw), MaxPoll), MinPoll)

HealthScore(failures, parsed, stale) ==
  AtLeast(100 - (IF parsed THEN 0 ELSE 35) - 12 * failures - (IF stale THEN 20 ELSE 0), 0)

(***************************************************************************)
(* A poll                                                                  *)
(***************************************************************************)
Fresh(kind, mark) ==
  [kind |-> kind, priority |-> PriorityOf(kind, mark),
   tier |-> PollTierFor(SourceTypeOf(kind), PriorityOf(kind, mark)),
   failures |-> 0, health |-> "UNKNOWN", score |-> 100, delay |-> 0]

\* UpsertFeedFromImport inserts a row that is due at once.
PaceInit ==
  /\ feed \in {Fresh(kind, mark) : kind \in Kinds, mark \in Marks}
  /\ poll = NoPoll /\ ended = "never" /\ paced = feed.tier /\ steady = 0
  /\ changes = 0 /\ losses = 0

\* ClaimDueFeeds hands the row to the worker; a quarantined one never.
BeginPoll ==
  /\ poll = NoPoll
  /\ feed.health # "QUARANTINED" /\ feed.failures < MaxFailures
  /\ poll' = [tier |-> feed.tier, failures |-> feed.failures, count |-> 0, step |-> "fetching"]
  /\ UNCHANGED <<feed, ended, paced, steady, changes, losses>>

\* A success that leaves the count of the failures.
MarkCounting(health, stale, failures, count) ==
  /\ poll' = [poll EXCEPT !.step = "stored", !.failures = failures, !.count = count]
  /\ feed' = [feed EXCEPT !.health = health, !.score = HealthScore(0, TRUE, stale)]
  /\ UNCHANGED <<ended, paced, steady, changes, losses>>

\* MarkFeedSuccess clears the failures; scheduleNext is still to come, with the `failures`
\* and the `count` it will be given.
MarkStored(health, stale, failures, count) ==
  /\ poll' = [poll EXCEPT !.step = "stored", !.failures = failures, !.count = count]
  /\ feed' = [feed EXCEPT !.failures = 0, !.health = health,
                          !.score = HealthScore(0, TRUE, stale)]
  /\ UNCHANGED <<ended, paced, steady, changes, losses>>

\* Its transaction fails: the error is dropped and the poll goes on, the row keeps its
\* failures.
MarkLost(failures, count) ==
  /\ losses < MaxLosses /\ losses' = losses + 1
  /\ poll' = [poll EXCEPT !.step = "unstored", !.failures = failures, !.count = count]
  /\ UNCHANGED <<feed, ended, paced, steady, changes>>

InFetch == poll # NoPoll /\ poll.step = "fetching"

\* 304: scheduleNext is given the failures the claim returned, though MarkFeedSuccess
\* has just cleared them, so that the first answer after an outage still waits the backoff.
NotModified ==
  /\ InFetch
  /\ MarkStored("HEALTHY", FALSE, poll.failures, 0) \/ MarkLost(poll.failures, 0)

\* A body that parsed, with `count` candidates; undated ones say nothing of its age.
Parsed ==
  /\ InFetch
  /\ \E count \in Counts :
       \/ \E dated \in BOOLEAN, age \in Ages :
            LET stale == count > 0 /\ dated /\ age > StaleWindow(poll.tier)
            IN MarkStored(IF count = 0 THEN "EMPTY" ELSE IF stale THEN "STALE" ELSE "HEALTHY",
                    stale, 0, count)
       \/ MarkLost(0, count)

\* scheduleNext and ReleaseFeed, whether or not the success was stored.
ScheduleNext ==
  /\ poll # NoPoll /\ poll.step # "fetching"
  /\ \E draw \in Draws :
       feed' = [feed EXCEPT
                  !.delay = NextPollDelay(poll.tier, poll.failures, poll.count, draw)]
  /\ steady' = IF poll.step = "stored" THEN AtMost(steady + 1, 2) ELSE steady
  /\ ended' = "answered" /\ paced' = poll.tier /\ poll' = NoPoll
  /\ UNCHANGED <<changes, losses>>

\* The poll ends without ReleaseFeed or MarkFeedFailure: the worker dies, the poll panics
\* or the statement fails.  The row keeps what it holds and comes up again once its lease
\* has run out.
LosePoll ==
  /\ poll # NoPoll /\ losses < MaxLosses /\ losses' = losses + 1
  /\ ended' = "lost" /\ poll' = NoPoll
  /\ UNCHANGED <<feed, paced, steady, changes>>

\* A failed poll scheduled by the count it found.
FailUncounted(health, parsed, own, draw) ==
  /\ feed' = [feed EXCEPT !.failures = poll.failures + 1, !.health = health,
       !.score = HealthScore(poll.failures + 1, parsed, FALSE),
       !.delay = IF own > 0 THEN own ELSE NextPollDelay(poll.tier, poll.failures, 0, draw)]
  /\ ended' = IF own > 0 THEN "refused" ELSE "failed"
  /\ steady' = 0 /\ paced' = poll.tier /\ poll' = NoPoll
  /\ UNCHANGED <<changes, losses>>

\* MarkFeedFailure: one transaction stores the count, the score and the next poll, for
\* which the answer has a delay of its `own` or the tier and the count decide.
Fail(health, parsed, own, draw) ==
  /\ feed' = [feed EXCEPT !.failures = poll.failures + 1, !.health = health,
       !.score = HealthScore(poll.failures + 1, parsed, FALSE),
       !.delay = IF own > 0 THEN own ELSE NextPollDelay(poll.tier, poll.failures + 1, 0, draw)]
  /\ ended' = IF own > 0 THEN "refused" ELSE "failed"
  /\ steady' = 0 /\ paced' = poll.tier /\ poll' = NoPoll
  /\ UNCHANGED <<changes, losses>>

Unstable(health) ==
  IF poll.failures + 1 >= QuarantineAfter THEN "UNSTABLE" ELSE health

\* The parse branch of ProcessFeed has no rule for repeated failures.
ParseFails ==
  /\ InFetch
  /\ \E draw \in Draws : Fail("PARSER_ERROR", FALSE, 0, draw)

\* handleFetchError: timeout, 5xx, circuit open, or another error (DEGRADED); too
\* large or no feed (UNSTABLE).
FetchErrs ==
  /\ InFetch
  /\ \E health \in {"DEGRADED", "UNSTABLE"}, draw \in Draws :
       Fail(Unstable(health), TRUE, 0, draw)

\* The answers whose delay handleFetchError sets itself: blocked by the guard, 404
\* or 410, 401 or 403, and 429, which may name its own delay.
Refused ==
  /\ InFetch
  /\ \/ Fail("QUARANTINED", TRUE, 24 * OneHour, 0)
     \/ Fail(Unstable("HTTP_ERROR"), TRUE, 24 * OneHour, 0)
     \/ Fail(Unstable("DISABLED"), TRUE, 12 * OneHour, 0)
     \/ \E after \in RetryAfters :
          Fail(Unstable("RATE_LIMITED"), TRUE, IF after > 0 THEN after ELSE OneHour, 0)

(***************************************************************************)
(* Changes of the row                                                      *)
(***************************************************************************)
Rated(priority, tier) ==
  /\ changes < MaxChanges /\ changes' = changes + 1
  /\ feed' = [feed EXCEPT !.priority = priority, !.tier = tier]
  /\ steady' = IF tier = feed.tier THEN steady ELSE 0
  /\ UNCHANGED <<poll, ended, paced, losses>>

\* handleAdminUpdateFeed: the tier is the one sent or the one the row has; it does
\* not follow the priority.
Patch ==
  \E priority \in Grades \cup {feed.priority}, tier \in Tiers : Rated(priority, tier)

\* UpsertFeedFromImport with another mark in the pack: what an editor set is lost,
\* what the polls stored is kept.
Import ==
  \E mark \in Marks :
    Rated(PriorityOf(feed.kind, mark),
          PollTierFor(SourceTypeOf(feed.kind), PriorityOf(feed.kind, mark)))

PaceNext ==
  \/ BeginPoll \/ NotModified \/ Parsed \/ ScheduleNext
  \/ ParseFails \/ FetchErrs \/ Refused \/ LosePoll
  \/ Patch \/ Import

PaceSpec == PaceInit /\ [][PaceNext]_paceVars

(***************************************************************************)
(* Properties                                                              *)
(***************************************************************************)
Healths == {"UNKNOWN", "HEALTHY", "EMPTY", "STALE", "DEGRADED", "UNSTABLE",
            "RATE_LIMITED", "HTTP_ERROR", "DISABLED", "PARSER_ERROR", "QUARANTINED"}

\* The row holds what its columns allow, and its score fits the rest of it: full or,
\* for old news, 80 as long as no failure is counted, and less than that or 88 after.
PaceTypeOK ==
  /\ feed.priority \in 1..5 /\ feed.tier \in Tiers
  /\ feed.failures \in 0..MaxFailures /\ feed.health \in Healths
  /\ feed.score \in 0..100 /\ feed.delay \in Nat
  /\ feed.failures = 0 <=> feed.score \in {80, 100}
  /\ feed.health = "STALE" <=> feed.score = 80
  /\ poll \in Polls \cup {NoPoll} /\ poll # NoPoll => poll.failures <= MaxFailures
  /\ ended \in {"never", "answered", "failed", "refused", "lost"}
  /\ paced \in Tiers /\ steady \in 0..2
  /\ changes \in 0..MaxChanges /\ losses \in 0..MaxLosses

\* Whatever the tier, the failures, the items and the draw: a poll that is scheduled by
\* its tier is followed by another no sooner than minPollDelay and no later than
\* maxPollDelay (feeds.go:522).  FeedScheduler's PollDelays rests on this.
WithinBounds ==
  ended \in {"answered", "failed"} => feed.delay \in MinPoll..MaxPoll

\* The longest delay of a feed that does not fail: twice the interval, jittered up.
LongestPace(tier) == AtLeast(Jittered(2 * Interval(tier), 999), MinPoll)

\* A feed of which two successes were stored and scheduled since its last failure and since
\* its tier last changed is polled at the pace of its tier again, also when other writes of its
\* polls were lost in between: neither the backoff an answer inherits through 304 nor the
\* tier of an old claim lasts.  A success that is not stored does not count: the row keeps
\* its failures, and the answer after it may wait the backoff once more (pipeline.go:176).
BackToItsPace == steady = 2 => feed.delay <= LongestPace(feed.tier)

\* While a feed keeps failing at one tier, each delay is longer than the one before it,
\* whatever the draws, until it reaches the ceiling or the sixth doubling: no failure
\* is left out of the count and no jitter outruns the doubling (pipeline.go:618,
\* feeds.go:504).
BacksOff ==
  [][ /\ ended = "failed" /\ ended' = "failed" /\ poll # NoPoll /\ poll' = NoPoll
      /\ poll.tier = paced /\ poll.failures < 6
      => feed'.delay > feed.delay \/ feed'.delay = MaxPoll ]_paceVars
================================================================================
