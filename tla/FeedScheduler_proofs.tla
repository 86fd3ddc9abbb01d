------------------------- MODULE FeedScheduler_proofs -------------------------
(***************************************************************************)
(* What FeedScheduler guarantees for every number of workers and feeds and *)
(* every value of the delays: types always; exclusive processing, an exact *)
(* failure count and polite spacing whenever the sizing `Sized` holds.     *)
(***************************************************************************)
EXTENDS FeedScheduler, FiniteSetTheorems, TLAPS

USE SchedulerAssumption

(***************************************************************************)
(* The inductive invariant                                                 *)
(***************************************************************************)
Active(w, f) == stage[w][f] \in {"fetching", "ingesting", "marked"}

\* The lease of a feed in work is its worker's and has not run out: what is left of
\* it and the age of the job add up to its length.
Covered ==
  \A w \in Workers, f \in Feeds :
    stage[w][f] # "none" =>
      /\ leaseOwner[f] = w
      /\ leaseLeft[f] + age[w][f] = Lease
      /\ age[w][f] <= FetchTimeout + IngestTime

\* A job that does not run has no age: the wait for a slot takes no time.
Ageless ==
  \A w \in Workers, f \in Feeds : stage[w][f] \in {"none", "queued"} => age[w][f] = 0

\* A claim never queues behind itself: its jobs fit the semaphore.
Fits ==
  \A w \in Workers : Cardinality(JobsOf(w)) <= BatchSize

\* Until the outcome is written, the claimed count is the row's.
Fresh ==
  \A w \in Workers, f \in Feeds :
    stage[w][f] \in {"queued", "fetching", "ingesting"} => snapshot[w][f] = failures[f]

\* What keeps the distance to the next fetch: the schedule or the lease of an idle
\* feed, the claim of a queued one, the age of a running one.
IdleSpaced ==
  \A f \in Feeds : (\A w \in Workers : stage[w][f] = "none") =>
    \/ excused[f]
    \/ since[f] + nextPoll[f] >= MinPoll
    \/ since[f] + leaseLeft[f] >= MinPoll

QueuedSpaced ==
  \A w \in Workers, f \in Feeds :
    stage[w][f] = "queued" => excused[f] \/ since[f] >= MinPoll

ActiveSpaced ==
  \A w \in Workers, f \in Feeds :
    Active(w, f) => since[f] >= MinPoll \/ since[f] >= age[w][f]

Spaced == IdleSpaced /\ QueuedSpaced /\ ActiveSpaced

IInv == TypeOK /\ Covered /\ Ageless /\ Fits /\ Fresh /\ Spaced /\ NoLostFailure

(***************************************************************************)
(* Types                                                                   *)
(***************************************************************************)
\* The saturating count stays a count.
LEMMA BumpType == ASSUME NEW n \in Nat PROVE Bump(n) \in Nat
  BY DEF Bump

\* A timer never runs below zero.
LEMMA LessType == ASSUME NEW n \in Nat PROVE Less(n) \in Nat
  BY DEF Less

\* Every delay a poll can set is a natural number, and only a 429 sets a short one.
LEMMA DelayTypes ==
  /\ \A delay \in PollDelays : delay \in Nat /\ delay >= MinPoll
  /\ \A status \in Outcomes : \A delay \in Delays(status) :
       delay \in Nat /\ (status # "RATE_LIMITED" => delay >= MinPoll)
  BY DEF PollDelays, Delays

\* Every status a failed poll can store is one of the column's.
LEMMA StatusTypes ==
  ASSUME NEW status \in FailureStatus, NEW n \in Nat
  PROVE  StatusAfter(status, n) \in HealthStatus
  BY DEF FailureStatus, StatusAfter, HealthStatus

\* The state keeps its types whatever the constants are.
LEMMA TypeStep == TypeOK /\ [Next]_vars => TypeOK'
<1> SUFFICES ASSUME TypeOK, [Next]_vars PROVE TypeOK'
  OBVIOUS
<1> USE DEF TypeOK, table, config, outcome, lease, job, history, bounds
<1>1. ASSUME NEW w \in Workers, Claim(w) PROVE TypeOK'
  BY <1>1 DEF Claim, Stage
<1>2. ASSUME NEW w \in Workers, Crash(w) PROVE TypeOK'
  BY <1>2 DEF Crash, Stage
<1>3. ASSUME NEW w \in Workers, NEW f \in Feeds, StartFetch(w, f) PROVE TypeOK'
  BY <1>3 DEF StartFetch, Stage
<1>4. ASSUME NEW w \in Workers, NEW f \in Feeds, FetchFails(w, f) PROVE TypeOK'
  <2> DEFINE n == Bump(snapshot[w][f])
  <2>0. PICK status \in Outcomes \cap FailureStatus : \E delay \in Delays(status) :
          /\ MarkFeedFailure(f, n, StatusAfter(status, n), delay)
          /\ excused' = [excused EXCEPT ![f] = delay < MinPoll]
    BY <1>4 DEF FetchFails
  <2>1. PICK delay \in Delays(status) :
          /\ MarkFeedFailure(f, n, StatusAfter(status, n), delay)
          /\ excused' = [excused EXCEPT ![f] = delay < MinPoll]
    BY <2>0
  <2>2. n \in Nat /\ delay \in Nat /\ Bump(streak[f]) \in Nat
    BY BumpType, DelayTypes
  <2>3. StatusAfter(status, n) \in HealthStatus
    BY <2>2, StatusTypes
  <2> QED
    BY <1>4, <2>1, <2>2, <2>3 DEF FetchFails, MarkFeedFailure, ReleaseFeed, EndJob, Stage
<1>5. ASSUME NEW w \in Workers, NEW f \in Feeds, FetchNotModified(w, f) PROVE TypeOK'
  BY <1>5 DEF FetchNotModified, MarkFeedSuccess, HealthStatus, SuccessStatus, Stage
<1>6. ASSUME NEW w \in Workers, NEW f \in Feeds, FetchParsed(w, f) PROVE TypeOK'
  BY <1>6 DEF FetchParsed, Stage
<1>7. ASSUME NEW w \in Workers, NEW f \in Feeds, MarkSuccess(w, f) PROVE TypeOK'
  BY <1>7 DEF MarkSuccess, MarkFeedSuccess, HealthStatus, Stage
<1>8. ASSUME NEW w \in Workers, NEW f \in Feeds, Release(w, f) PROVE TypeOK'
  BY <1>8, DelayTypes DEF Release, ReleaseFeed, EndJob, Stage
<1>9. ASSUME NEW w \in Workers, NEW f \in Feeds, Fault(w, f) PROVE TypeOK'
  <2>1. CASE LoseMark(w, f)
    BY <2>1 DEF LoseMark, Stage
  <2>2. CASE LoseJob(w, f)
    BY <2>2 DEF LoseJob, EndJob, Stage
  <2> QED
    BY <1>9, <2>1, <2>2 DEF Fault
<1>10. CASE Operator
  <2>1. ASSUME NEW f \in Feeds, NEW on \in BOOLEAN, UpdateFeed(f, on) PROVE TypeOK'
    BY <2>1 DEF UpdateFeed, Operate
  <2>2. ASSUME NEW S \in SUBSET Feeds, MarkFeedsMissingFromPack(S) PROVE TypeOK'
    BY <2>2 DEF MarkFeedsMissingFromPack, Operate
  <2>3. ASSUME NEW S \in SUBSET Feeds, WaveEnables(S) PROVE TypeOK'
    BY <2>3 DEF WaveEnables, Operate
  <2>4. ASSUME NEW S \in SUBSET Feeds, WaveDisables(S) PROVE TypeOK'
    BY <2>4 DEF WaveDisables, Operate
  <2> QED
    BY <1>10, <2>1, <2>2, <2>3, <2>4 DEF Operator
<1>11. CASE Tick
  BY <1>11, LessType DEF Tick
<1>12. CASE UNCHANGED vars
  BY <1>12 DEF vars
<1> QED
  BY <1>1, <1>2, <1>3, <1>4, <1>5, <1>6, <1>7, <1>8, <1>9, <1>10, <1>11, <1>12
     DEF Next, Process

\* At first nothing is out of its range.
LEMMA TypeInit == Init => TypeOK
  BY DEF Init, TypeOK, HealthStatus, Stage

\* The columns, the goroutines' snapshots and the history keep their types in every
\* behaviour, for every number of workers and feeds.
THEOREM TypeCorrect == Spec => []TypeOK
  BY TypeInit, TypeStep, PTL DEF Spec

(***************************************************************************)
(* Facts about the invariant                                               *)
(***************************************************************************)
\* A feed in work has one worker only, and its lease has not run out.
LEMMA LeaseHeld ==
  ASSUME Sized, TypeOK, Covered, NEW w \in Workers, NEW f \in Feeds, stage[w][f] # "none"
  PROVE  /\ leaseLeft[f] > 0
         /\ \A v \in Workers \ {w} : stage[v][f] = "none"
  BY DEF Sized, TypeOK, Covered

\* A worker has finitely many goroutines.
LEMMA JobsFinite ==
  ASSUME NEW w \in Workers
  PROVE  /\ IsFiniteSet(JobsOf(w)) /\ Cardinality(JobsOf(w)) \in Nat
         /\ IsFiniteSet(Running(w)) /\ Cardinality(Running(w)) \in Nat
<1>1. JobsOf(w) \subseteq Feeds /\ Running(w) \subseteq Feeds
  BY DEF JobsOf, Running
<1> QED
  BY <1>1, FS_Subset, FS_CardinalityType

\* Where no worker takes on a job, the batches still fit.
LEMMA FitsWhenShrunk ==
  ASSUME Fits, \A w \in Workers : JobsOf(w)' \subseteq JobsOf(w)
  PROVE  Fits'
<1> SUFFICES ASSUME NEW w \in Workers PROVE Cardinality(JobsOf(w))' <= BatchSize
  BY DEF Fits
<1>1. JobsOf(w)' \subseteq JobsOf(w) /\ IsFiniteSet(JobsOf(w))
  BY JobsFinite
<1>2. Cardinality(JobsOf(w)') <= Cardinality(JobsOf(w)) /\ Cardinality(JobsOf(w)') \in Nat
  BY <1>1, FS_Subset, FS_CardinalityType
<1> QED
  BY <1>2, JobsFinite DEF Fits

\* With a slot for each feed of a claim, time never passes while one is queued: the
\* running ones are fewer than the batch, hence fewer than the slots.
LEMMA NobodyQueues ==
  ASSUME Sized, TypeOK, Fits, Tick, NEW w \in Workers, NEW f \in Feeds
  PROVE  stage[w][f] # "queued"
<1> SUFFICES ASSUME stage[w][f] = "queued" PROVE FALSE
  OBVIOUS
<1>1. Cardinality(Running(w)) >= Concurrency
  BY DEF Tick, MayWait
<1>2. f \in JobsOf(w) /\ Running(w) \subseteq JobsOf(w) \ {f}
  BY DEF JobsOf, Running
<1>3. /\ IsFiniteSet(JobsOf(w) \ {f})
      /\ Cardinality(JobsOf(w) \ {f}) = Cardinality(JobsOf(w)) - 1
  BY <1>2, JobsFinite, FS_RemoveElement
<1>4. Cardinality(Running(w)) <= Cardinality(JobsOf(w) \ {f})
  BY <1>2, <1>3, FS_Subset
<1> QED
  BY <1>1, <1>3, <1>4, JobsFinite DEF Fits, Sized

(***************************************************************************)
(* Each action keeps the invariant                                         *)
(***************************************************************************)
\* A claim takes feeds nobody works on, no more than a batch, each of them due.
LEMMA ClaimKeeps ==
  ASSUME Sized, IInv, TypeOK', NEW w \in Workers, Claim(w)
  PROVE  IInv'
<1> USE DEF IInv, TypeOK, config, outcome, lease, job, history, bounds, table
<1>1. PICK B \in SUBSET Due :
        /\ IsBatch(B)
        /\ leaseOwner' = [f \in Feeds |-> IF f \in B THEN w ELSE leaseOwner[f]]
        /\ leaseLeft' = [f \in Feeds |-> IF f \in B THEN Lease ELSE leaseLeft[f]]
        /\ stage' = [stage EXCEPT ![w] =
             [f \in Feeds |-> IF f \in B THEN "queued" ELSE "none"]]
        /\ snapshot' = [snapshot EXCEPT ![w] =
             [f \in Feeds |-> IF f \in B THEN failures[f] ELSE 0]]
  BY DEF Claim
<1>2. \A f \in B : f \in Feeds /\ nextPoll[f] = 0 /\ leaseLeft[f] = 0
  BY DEF Due, Claimable
<1>3. \A f \in B, v \in Workers : stage[v][f] = "none"
  BY <1>2, LeaseHeld
<1>4. \A f \in Feeds : stage[w][f] = "none"
  BY DEF Claim, JobsOf
<1>5. UNCHANGED <<failures, nextPoll, age, since, excused, streak>>
  BY DEF Claim
<1>6. Covered'
  BY <1>1, <1>3, <1>4, <1>5 DEF Covered, Ageless
<1>7. Ageless'
  BY <1>1, <1>4, <1>5 DEF Ageless
<1>8. Fits'
  <2>1. JobsOf(w)' = B
    BY <1>1, <1>2 DEF JobsOf
  <2>2. \A v \in Workers \ {w} : JobsOf(v)' = JobsOf(v)
    BY <1>1 DEF JobsOf
  <2> QED
    BY <1>1, <2>1, <2>2 DEF Fits, IsBatch
<1>9. Fresh'
  BY <1>1, <1>5 DEF Fresh
<1>10. IdleSpaced'
  BY <1>1, <1>2, <1>4, <1>5 DEF IdleSpaced, Spaced
<1>11. QueuedSpaced'
  <2> SUFFICES ASSUME NEW v \in Workers, NEW f \in Feeds, stage'[v][f] = "queued"
               PROVE  excused[f] \/ since[f] >= MinPoll
    BY <1>5 DEF QueuedSpaced
  <2>1. CASE v = w
    <3>1. f \in B
      BY <1>1, <2>1
    <3>2. \A u \in Workers : stage[u][f] = "none"
      BY <1>3, <3>1
    <3>3. nextPoll[f] = 0 /\ leaseLeft[f] = 0
      BY <1>2, <3>1
    <3>4. excused[f] \/ since[f] + 0 >= MinPoll
      BY <3>2, <3>3 DEF IdleSpaced, Spaced
    <3> QED
      BY <3>4
  <2>2. CASE v # w
    BY <1>1, <2>2 DEF QueuedSpaced, Spaced
  <2> QED
    BY <2>1, <2>2
<1>12. ActiveSpaced'
  BY <1>1, <1>5 DEF ActiveSpaced, Spaced, Active
<1>13. NoLostFailure'
  BY <1>5 DEF NoLostFailure
<1> QED
  BY <1>6, <1>7, <1>8, <1>9, <1>10, <1>11, <1>12, <1>13 DEF Spaced

\* A crash leaves leases behind: the distance is kept by what is left of them.
LEMMA CrashKeeps ==
  ASSUME Sized, IInv, TypeOK', NEW w \in Workers, Crash(w)
  PROVE  IInv'
<1> USE DEF IInv, TypeOK, config, outcome, lease, job, history, bounds, table, Crash
<1>1. Covered' /\ Ageless' /\ Fresh' /\ NoLostFailure'
  BY DEF Covered, Ageless, Fresh, NoLostFailure
<1>2. Fits'
  BY FitsWhenShrunk DEF JobsOf
<1>3. IdleSpaced'
  <2> SUFFICES ASSUME NEW f \in Feeds, \A v \in Workers : stage'[v][f] = "none"
               PROVE  \/ excused[f]
                      \/ since[f] + nextPoll[f] >= MinPoll
                      \/ since[f] + leaseLeft[f] >= MinPoll
    BY DEF IdleSpaced
  <2>1. \A v \in Workers \ {w} : stage[v][f] = "none"
    OBVIOUS
  <2>2. CASE stage[w][f] = "none"
    BY <2>1, <2>2 DEF IdleSpaced, Spaced
  <2>3. CASE stage[w][f] = "queued"
    BY <2>3 DEF QueuedSpaced, Spaced
  <2>4. CASE Active(w, f)
    <3>1. leaseLeft[f] + age[w][f] = Lease
      BY <2>4 DEF Covered, Active
    <3>2. since[f] >= MinPoll \/ since[f] >= age[w][f]
      BY <2>4 DEF ActiveSpaced, Spaced
    <3> QED
      BY <3>1, <3>2
  <2> QED
    BY <2>2, <2>3, <2>4 DEF Active, Stage
<1>4. QueuedSpaced' /\ ActiveSpaced'
  BY DEF QueuedSpaced, ActiveSpaced, Spaced, Active
<1> QED
  BY <1>1, <1>2, <1>3, <1>4 DEF Spaced

\* StartFetch sets the distance to zero, and the age is zero as well.
LEMMA StartFetchKeeps ==
  ASSUME Sized, IInv, TypeOK', NEW w \in Workers, NEW f \in Feeds, StartFetch(w, f)
  PROVE  IInv'
<1> USE DEF IInv, TypeOK, config, outcome, lease, job, history, bounds, table, StartFetch
<1>1. Covered' /\ Ageless' /\ Fresh' /\ NoLostFailure'
  BY DEF Covered, Ageless, Fresh, NoLostFailure
<1>2. Fits'
  BY FitsWhenShrunk DEF JobsOf
<1>3. stage[w][f] = "queued" /\ \A v \in Workers \ {w} : stage[v][f] = "none"
  BY LeaseHeld
<1>4. IdleSpaced'
  BY <1>3 DEF IdleSpaced, Spaced
<1>5. QueuedSpaced'
  BY <1>3 DEF QueuedSpaced, Spaced
<1>6. ActiveSpaced'
  BY <1>3 DEF ActiveSpaced, Spaced, Active, Ageless
<1> QED
  BY <1>1, <1>2, <1>4, <1>5, <1>6 DEF Spaced

\* A failure writes the claimed count plus one, which is the row's plus one, and a
\* delay that is either long enough or asked for by the publisher.
LEMMA FetchFailsKeeps ==
  ASSUME Sized, IInv, TypeOK', NEW w \in Workers, NEW f \in Feeds, FetchFails(w, f)
  PROVE  IInv'
<1> USE DEF IInv, TypeOK, config, outcome, lease, job, history, bounds, table, EndJob
<1> DEFINE n == Bump(snapshot[w][f])
<1>1. PICK status \in Outcomes \cap FailureStatus : \E delay \in Delays(status) :
        /\ MarkFeedFailure(f, n, StatusAfter(status, n), delay)
        /\ excused' = [excused EXCEPT ![f] = delay < MinPoll]
  BY DEF FetchFails
<1>2. PICK delay \in Delays(status) :
        /\ MarkFeedFailure(f, n, StatusAfter(status, n), delay)
        /\ excused' = [excused EXCEPT ![f] = delay < MinPoll]
  BY <1>1
<1>3. delay \in Nat
  BY DelayTypes
<1>4. /\ stage[w][f] = "fetching"
      /\ \A v \in Workers \ {w} : stage[v][f] = "none"
      /\ stage' = [stage EXCEPT ![w][f] = "none"]
      /\ snapshot' = [snapshot EXCEPT ![w][f] = 0]
      /\ age' = [age EXCEPT ![w][f] = 0]
      /\ since' = since
  BY LeaseHeld DEF FetchFails
<1>5. /\ failures' = [failures EXCEPT ![f] = n]
      /\ streak' = [streak EXCEPT ![f] = Bump(@)]
      /\ leaseOwner' = [leaseOwner EXCEPT ![f] = None]
      /\ leaseLeft' = [leaseLeft EXCEPT ![f] = 0]
      /\ nextPoll' = [nextPoll EXCEPT ![f] = delay]
  BY <1>2 DEF MarkFeedFailure, ReleaseFeed
<1>6. Covered' /\ Ageless'
  BY <1>4, <1>5 DEF Covered, Ageless
<1>7. Fits'
  BY <1>4, FitsWhenShrunk DEF JobsOf
<1>8. Fresh'
  BY <1>4, <1>5 DEF Fresh
<1>9. NoLostFailure'
  BY <1>4, <1>5 DEF NoLostFailure, Fresh
<1>10. IdleSpaced'
  <2> SUFFICES ASSUME NEW g \in Feeds, \A v \in Workers : stage'[v][g] = "none"
               PROVE  \/ excused'[g]
                      \/ since'[g] + nextPoll'[g] >= MinPoll
                      \/ since'[g] + leaseLeft'[g] >= MinPoll
    BY DEF IdleSpaced
  <2>1. CASE g = f
    <3>1. nextPoll'[f] = delay /\ since'[f] \in Nat
      BY <1>4, <1>5
    <3>2. excused'[f] = (delay < MinPoll)
      BY <1>2, Zenon
    <3>3. CASE delay < MinPoll
      BY <2>1, <3>2, <3>3, Zenon
    <3>4. CASE delay >= MinPoll
      BY <2>1, <3>1, <3>4
    <3> QED
      BY <1>3, <3>3, <3>4
  <2>2. CASE g # f
    <3>1. \A v \in Workers : stage[v][g] = "none"
      BY <1>4, <2>2
    <3>2. excused'[g] = excused[g] /\ nextPoll'[g] = nextPoll[g] /\ leaseLeft'[g] = leaseLeft[g]
      BY <1>2, <1>5, <2>2
    <3> QED
      BY <1>4, <3>1, <3>2 DEF IdleSpaced, Spaced
  <2> QED
    BY <2>1, <2>2
<1>11. QueuedSpaced' /\ ActiveSpaced'
  BY <1>2, <1>4 DEF QueuedSpaced, ActiveSpaced, Spaced, Active
<1> QED
  BY <1>6, <1>7, <1>8, <1>9, <1>10, <1>11 DEF Spaced

\* The step from a fetch to the writes after it moves one job on and nothing else.
LEMMA FetchParsedKeeps ==
  ASSUME Sized, IInv, TypeOK', NEW w \in Workers, NEW f \in Feeds, FetchParsed(w, f)
  PROVE  IInv'
<1> USE DEF IInv, TypeOK, config, outcome, lease, job, history, bounds, table, FetchParsed
<1>1. Covered' /\ Ageless' /\ Fresh' /\ NoLostFailure'
  BY DEF Covered, Ageless, Fresh, NoLostFailure
<1>2. Fits'
  BY FitsWhenShrunk DEF JobsOf
<1>3. IdleSpaced' /\ QueuedSpaced' /\ ActiveSpaced'
  BY DEF IdleSpaced, QueuedSpaced, ActiveSpaced, Spaced, Active
<1> QED
  BY <1>1, <1>2, <1>3 DEF Spaced

\* A success: row and history forget the failures together, and no other goroutine
\* holds a count of this row.
LEMMA MarkKeeps ==
  ASSUME Sized, IInv, TypeOK', NEW w \in Workers, NEW f \in Feeds,
         stage[w][f] \in {"fetching", "ingesting"},
         stage' = [stage EXCEPT ![w][f] = "marked"],
         \/ /\ failures' = [failures EXCEPT ![f] = 0]
            /\ streak' = [streak EXCEPT ![f] = 0]
         \/ UNCHANGED <<failures, streak>>,
         UNCHANGED <<nextPoll, leaseOwner, leaseLeft, snapshot, age, since, excused>>
  PROVE  IInv'
<1> USE DEF IInv, TypeOK
<1>1. \A v \in Workers \ {w} : stage[v][f] = "none"
  BY LeaseHeld
<1>2. Covered' /\ Ageless'
  BY DEF Covered, Ageless
<1>3. Fresh'
  BY <1>1 DEF Fresh
<1>4. NoLostFailure'
  BY DEF NoLostFailure
<1>5. Fits'
  BY FitsWhenShrunk DEF JobsOf
<1>6. IdleSpaced' /\ QueuedSpaced' /\ ActiveSpaced'
  BY DEF IdleSpaced, QueuedSpaced, ActiveSpaced, Spaced, Active
<1> QED
  BY <1>2, <1>3, <1>4, <1>5, <1>6 DEF Spaced

\* The end of a job: the distance is kept by a delay of at least MinPoll, or by the
\* lease where the goroutine ends without releasing it.
LEMMA EndKeeps ==
  ASSUME Sized, IInv, TypeOK', NEW w \in Workers, NEW f \in Feeds,
         Active(w, f), EndJob(w, f),
         \/ \E delay \in PollDelays : ReleaseFeed(f, delay)
         \/ UNCHANGED <<nextPoll, leaseOwner, leaseLeft>>,
         UNCHANGED <<failures, since, excused, streak>>
  PROVE  IInv'
<1> USE DEF IInv, TypeOK, EndJob
<1>1. \A v \in Workers \ {w} : stage[v][f] = "none"
  BY LeaseHeld DEF Active
<1>2. \A g \in Feeds \ {f} :
        nextPoll'[g] = nextPoll[g] /\ leaseOwner'[g] = leaseOwner[g]
        /\ leaseLeft'[g] = leaseLeft[g]
  BY DEF ReleaseFeed
<1>3. Covered' /\ Ageless'
  BY <1>1, <1>2 DEF Covered, Ageless
<1>4. Fresh' /\ NoLostFailure'
  BY DEF Fresh, NoLostFailure
<1>5. Fits'
  BY FitsWhenShrunk DEF JobsOf
<1>6. since[f] + nextPoll'[f] >= MinPoll \/ since[f] + leaseLeft'[f] >= MinPoll
  <2>1. CASE \E delay \in PollDelays : ReleaseFeed(f, delay)
    BY <2>1, DelayTypes DEF ReleaseFeed
  <2>2. CASE UNCHANGED <<nextPoll, leaseOwner, leaseLeft>>
    <3>1. leaseLeft[f] + age[w][f] = Lease
      BY DEF Covered, Active
    <3>2. since[f] >= MinPoll \/ since[f] >= age[w][f]
      BY DEF ActiveSpaced, Spaced
    <3> QED
      BY <2>2, <3>1, <3>2
  <2> QED
    BY <2>1, <2>2
<1>7. IdleSpaced'
  <2> SUFFICES ASSUME NEW g \in Feeds, \A v \in Workers : stage'[v][g] = "none"
               PROVE  \/ excused[g]
                      \/ since[g] + nextPoll'[g] >= MinPoll
                      \/ since[g] + leaseLeft'[g] >= MinPoll
    BY DEF IdleSpaced
  <2>1. CASE g = f
    BY <1>6, <2>1
  <2>2. CASE g # f
    <3>1. \A v \in Workers : stage[v][g] = "none"
      BY <2>2
    <3> QED
      BY <1>2, <2>2, <3>1 DEF IdleSpaced, Spaced
  <2> QED
    BY <2>1, <2>2
<1>8. QueuedSpaced' /\ ActiveSpaced'
  BY DEF QueuedSpaced, ActiveSpaced, Spaced, Active
<1> QED
  BY <1>3, <1>4, <1>5, <1>7, <1>8 DEF Spaced

\* Operators touch neither leases nor jobs; what they do to the schedule keeps the
\* distance or is an excuse.
LEMMA OperatorKeeps ==
  ASSUME Sized, IInv, TypeOK', Operator
  PROVE  IInv'
<1> USE DEF IInv, TypeOK, outcome, lease, job, history, Operate
<1>1. UNCHANGED <<failures, leaseOwner, leaseLeft, stage, snapshot, age, since, streak>>
  BY DEF Operator, UpdateFeed, MarkFeedsMissingFromPack, WaveEnables, WaveDisables
<1> DEFINE Kept(f) ==
      /\ excused[f] => excused'[f]
      /\ nextPoll'[f] = nextPoll[f] \/ nextPoll'[f] = Parked \/ excused'[f]
<1>2. ASSUME NEW f \in Feeds PROVE Kept(f)
  <2>1. ASSUME NEW g \in Feeds, NEW on \in BOOLEAN, UpdateFeed(g, on) PROVE Kept(f)
    BY <2>1, Zenon DEF UpdateFeed
  <2>2. ASSUME NEW S \in SUBSET Feeds, MarkFeedsMissingFromPack(S) PROVE Kept(f)
    BY <2>2, Zenon DEF MarkFeedsMissingFromPack
  <2>3. ASSUME NEW S \in SUBSET Feeds, WaveEnables(S) PROVE Kept(f)
    <3>1. /\ nextPoll'[f] = IF f \in S /\ ~enabled[f] THEN 0 ELSE nextPoll[f]
          /\ excused'[f] = (excused[f] \/ (f \in S /\ ~enabled[f]))
      BY <2>3, Zenon DEF WaveEnables
    <3> QED
      BY <3>1, Zenon
  <2>4. ASSUME NEW S \in SUBSET Feeds, WaveDisables(S) PROVE Kept(f)
    <3>1. /\ nextPoll'[f] = IF f \in S /\ enabled[f] THEN Parked ELSE nextPoll[f]
          /\ excused' = excused
      BY <2>4, Zenon DEF WaveDisables
    <3> QED
      BY <3>1, Zenon
  <2> HIDE DEF Kept
  <2> QED
    BY ONLY Operator, <2>1, <2>2, <2>3, <2>4 DEF Operator
<1>3. Covered' /\ Ageless' /\ Fresh' /\ NoLostFailure'
  BY <1>1 DEF Covered, Ageless, Fresh, NoLostFailure
<1>4. Fits'
  BY <1>1, FitsWhenShrunk DEF JobsOf
<1>5. IdleSpaced'
  <2> SUFFICES ASSUME NEW f \in Feeds, \A v \in Workers : stage[v][f] = "none"
               PROVE  \/ excused'[f]
                      \/ since[f] + nextPoll'[f] >= MinPoll
                      \/ since[f] + leaseLeft[f] >= MinPoll
    BY <1>1 DEF IdleSpaced
  <2>1. excused[f] \/ since[f] + nextPoll[f] >= MinPoll \/ since[f] + leaseLeft[f] >= MinPoll
    BY DEF IdleSpaced, Spaced
  <2>2. Kept(f)
    BY <1>2
  <2>3. CASE excused'[f]
    BY <2>3
  <2>4. CASE ~excused'[f]
    <3>1. ~excused[f] /\ (nextPoll'[f] = nextPoll[f] \/ nextPoll'[f] = Parked)
      BY <2>2, <2>4, Zenon
    <3>2. CASE nextPoll'[f] = nextPoll[f]
      BY <2>1, <3>1, <3>2
    <3>3. CASE nextPoll'[f] = Parked
      BY <3>3
    <3> QED
      BY <3>1, <3>2, <3>3
  <2> QED
    BY <2>3, <2>4
<1>6. QueuedSpaced'
  <2> SUFFICES ASSUME NEW v \in Workers, NEW f \in Feeds, stage[v][f] = "queued"
               PROVE  excused'[f] \/ since[f] >= MinPoll
    BY <1>1 DEF QueuedSpaced
  <2> QED
    BY <1>2 DEF QueuedSpaced, Spaced
<1>7. ActiveSpaced'
  BY <1>1 DEF ActiveSpaced, Spaced, Active
<1> QED
  BY <1>3, <1>4, <1>5, <1>6, <1>7 DEF Spaced

\* Time: no job is queued, so every job ages as its lease runs down; the distance
\* grows as the schedule comes nearer.
LEMMA TickKeeps ==
  ASSUME Sized, IInv, TypeOK', Tick
  PROVE  IInv'
<1> USE DEF IInv, TypeOK, config, outcome, bounds
<1>1. ASSUME NEW w \in Workers, NEW f \in Feeds PROVE stage[w][f] # "queued"
  BY NobodyQueues
<1>2. /\ UNCHANGED <<failures, leaseOwner, stage, snapshot, excused, streak>>
      /\ nextPoll' = [f \in Feeds |-> Less(nextPoll[f])]
      /\ leaseLeft' = [f \in Feeds |-> Less(leaseLeft[f])]
      /\ age' = [w \in Workers |-> [f \in Feeds |->
           IF f \in Running(w) THEN age[w][f] + 1 ELSE age[w][f]]]
      /\ since' = [f \in Feeds |-> IF since[f] < MinPoll THEN since[f] + 1 ELSE since[f]]
  BY DEF Tick
<1>3. Covered'
  <2> SUFFICES ASSUME NEW w \in Workers, NEW f \in Feeds, stage[w][f] # "none"
               PROVE  /\ leaseOwner[f] = w
                      /\ leaseLeft'[f] + age'[w][f] = Lease
                      /\ age'[w][f] <= FetchTimeout + IngestTime
    BY <1>2 DEF Covered
  <2>1. stage[w][f] \in {"fetching", "ingesting", "marked"}
    BY <1>1 DEF Stage
  <2>2. age'[w][f] = age[w][f] + 1
    BY <1>2, <2>1 DEF Running
  <2>3. leaseLeft'[f] = leaseLeft[f] - 1
    BY <1>2, LeaseHeld DEF Less
  <2>4. age[w][f] < FetchTimeout + IngestTime
    BY <2>1 DEF Tick, MayWait
  <2>5. leaseOwner[f] = w /\ leaseLeft[f] + age[w][f] = Lease
    BY DEF Covered
  <2>6. leaseLeft[f] \in Nat /\ age[w][f] \in Nat
    OBVIOUS
  <2>7. FetchTimeout + IngestTime \in Int
    OBVIOUS
  <2>8. age'[w][f] <= FetchTimeout + IngestTime
    BY ONLY <2>2, <2>4, <2>6, <2>7
  <2>9. leaseLeft'[f] + age'[w][f] = Lease
    BY ONLY <2>2, <2>3, <2>5, <2>6
  <2> QED
    BY ONLY <2>5, <2>8, <2>9
<1>4. Ageless'
  BY <1>2 DEF Ageless, Running
<1>5. Fits' /\ Fresh' /\ NoLostFailure'
  BY <1>2 DEF Fits, JobsOf, Fresh, NoLostFailure
<1>6. IdleSpaced'
  <2> SUFFICES ASSUME NEW f \in Feeds, \A w \in Workers : stage[w][f] = "none"
               PROVE  \/ excused[f]
                      \/ since'[f] + nextPoll'[f] >= MinPoll
                      \/ since'[f] + leaseLeft'[f] >= MinPoll
    BY <1>2 DEF IdleSpaced
  <2>1. excused[f] \/ since[f] + nextPoll[f] >= MinPoll \/ since[f] + leaseLeft[f] >= MinPoll
    BY DEF IdleSpaced, Spaced
  <2>2. ASSUME NEW n \in Nat, since[f] + n >= MinPoll
        PROVE  since'[f] + Less(n) >= MinPoll
    BY <1>2, <2>2 DEF Less
  <2> QED
    BY <1>2, <2>1, <2>2
<1>7. QueuedSpaced'
  BY <1>1, <1>2 DEF QueuedSpaced
<1>8. ActiveSpaced'
  BY <1>2 DEF ActiveSpaced, Spaced, Active, Running
<1> QED
  BY <1>3, <1>4, <1>5, <1>6, <1>7, <1>8 DEF Spaced

(***************************************************************************)
(* The theorems                                                            *)
(***************************************************************************)
\* Initially no lease is held and no goroutine runs.
LEMMA InitInv == Init => IInv
<1> SUFFICES ASSUME Init PROVE IInv
  OBVIOUS
<1>1. TypeOK
  BY TypeInit
<1>2. \A w \in Workers : JobsOf(w) = {}
  BY DEF Init, JobsOf
<1>3. Fits
  BY <1>2, FS_EmptySet DEF Fits
<1> QED
  BY <1>1, <1>3 DEF Init, IInv, Covered, Ageless, Fresh, Spaced, IdleSpaced, QueuedSpaced,
     ActiveSpaced, Active, NoLostFailure

\* Under the sizing, every step keeps every part of the invariant.
LEMMA NextInv == Sized /\ IInv /\ [Next]_vars => IInv'
<1> SUFFICES ASSUME Sized, IInv, [Next]_vars PROVE IInv'
  OBVIOUS
<1>1. TypeOK'
  BY TypeStep DEF IInv
<1>2. ASSUME NEW w \in Workers, NEW f \in Feeds, FetchNotModified(w, f) PROVE IInv'
  BY <1>1, <1>2, MarkKeeps DEF FetchNotModified, MarkFeedSuccess, lease, config
<1>3. ASSUME NEW w \in Workers, NEW f \in Feeds, MarkSuccess(w, f) PROVE IInv'
  BY <1>1, <1>3, MarkKeeps DEF MarkSuccess, MarkFeedSuccess, lease, config
<1>4. ASSUME NEW w \in Workers, NEW f \in Feeds, Release(w, f) PROVE IInv'
  BY <1>1, <1>4, EndKeeps DEF Release, Active, outcome, history
<1>5. ASSUME NEW w \in Workers, NEW f \in Feeds, Fault(w, f) PROVE IInv'
  <2>1. CASE LoseMark(w, f)
    BY <1>1, <2>1, MarkKeeps DEF LoseMark, table, outcome, lease, history
  <2>2. CASE LoseJob(w, f)
    BY <1>1, <2>2, EndKeeps DEF LoseJob, Running, Active, table, outcome, lease, history
  <2> QED
    BY <1>5, <2>1, <2>2 DEF Fault
<1>6. CASE UNCHANGED vars
  BY <1>6 DEF vars, table, config, outcome, lease, job, history, bounds, IInv, TypeOK,
     Covered, Ageless, Fits, JobsOf, Fresh, Spaced, IdleSpaced, QueuedSpaced,
     ActiveSpaced, Active, NoLostFailure
<1> QED
  BY <1>1, <1>2, <1>3, <1>4, <1>5, <1>6, ClaimKeeps, CrashKeeps, StartFetchKeeps,
     FetchFailsKeeps, FetchParsedKeeps, OperatorKeeps, TickKeeps DEF Next, Process

\* Under the sizing, the lease discipline holds in every reachable state.
THEOREM Inductive ==
  ASSUME Sized PROVE Spec => []IInv
<1>1. IInv /\ [Next]_vars => IInv'
  BY NextInv
<1> QED
  BY InitInv, <1>1, PTL DEF Spec

\* No two processes work on one feed at the same time, whatever crashes, expired
\* leases and operators do, for every number of processes and feeds: the lease of
\* ClaimDueFeeds excludes them as long as a batch fits the semaphore and fetch and
\* writes fit the lease.
THEOREM Exclusive ==
  ASSUME Sized PROVE Spec => []AtMostOneFetcher
<1>1. IInv => AtMostOneFetcher
  BY DEF IInv, Covered, AtMostOneFetcher, JobsOf
<1> QED
  BY Inductive, <1>1, PTL

\* The count MarkFeedFailure writes from the claimed row loses no failure.
THEOREM ExactCount ==
  ASSUME Sized PROVE Spec => []NoLostFailure
<1>1. IInv => NoLostFailure
  BY DEF IInv
<1> QED
  BY Inductive, <1>1, PTL

\* No feed is fetched again before minPollDelay unless a short Retry-After or an
\* activation asked for it, also after a crash, a panic or a lost release.
THEOREM PoliteAlways ==
  ASSUME Sized PROVE Spec => Polite
<1>1. IInv /\ [Next]_vars =>
        [\A w \in Workers, f \in Feeds :
           StartFetch(w, f) => (since[f] >= MinPoll \/ excused[f])]_vars
  BY DEF IInv, Spaced, QueuedSpaced, StartFetch
<1> QED
  BY Inductive, <1>1, PTL DEF Spec, Polite
=============================================================================
