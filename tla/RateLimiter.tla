----------------------------- MODULE RateLimiter -----------------------------
(***************************************************************************)
(* The limit on requests to the API: buckets of tokens by client, in       *)
(* memory (backend/internal/httpapi/middleware.go).                        *)
(*                                                                         *)
(* allow() reads the clock before it takes the lock, so calls may get to   *)
(* the buckets in another order than that of their times; buckets nobody   *)
(* has used for a while are thrown away.  Tokens are counted in parts of   *)
(* which Cost make one.                                                    *)
(***************************************************************************)
EXTENDS Integers

CONSTANTS
  Clients,   \* addresses, and "login:" with an address
  Calls,     \* calls of allow() that can be under way at a time
  Refill,    \* rate: parts of a token that a bucket gains in a unit of time
  Full,      \* burst
  Cost,      \* parts of one token
  GCPeriod,  \* ten minutes
  MaxLag,    \* the longest a call waits for the lock, far less than GCPeriod
  NoClient,  \* no call
  MaxNow     \* bound: how far time goes

\* burst is what rate gives in a quarter of a minute, far less than GCPeriod.
ASSUME LimiterAssumption ==
  /\ Refill \in Nat /\ Full \in Nat /\ Cost \in Nat
  /\ GCPeriod \in Nat /\ MaxLag \in Nat /\ MaxNow \in Nat
  /\ Full + 2 * (MaxLag * Refill) <= GCPeriod * Refill
  /\ NoClient \notin Clients

VARIABLES
  buckets,  \* the clients that have one
  tokens,   \* b.tokens
  updated,  \* b.updated
  lastGC,
  now,      \* the clock
  caller,   \* a call: its client, or none
  readAt,   \* what it read on the clock
  allowed   \* history: calls that were let through, by client

limiterVars == <<buckets, tokens, updated, lastGC, now, caller, readAt, allowed>>

LimiterTypeOK ==
  /\ buckets \subseteq Clients
  /\ tokens \in [Clients -> Int] /\ updated \in [Clients -> Nat]
  /\ now \in Nat /\ lastGC \in 0 .. now
  /\ caller \in [Calls -> Clients \cup {NoClient}] /\ readAt \in [Calls -> 0 .. now]
  /\ allowed \in [Clients -> Nat]
  /\ \A c \in Clients : updated[c] <= now /\ tokens[c] <= Full

LimiterInit ==
  /\ buckets = {} /\ tokens = [c \in Clients |-> Full] /\ updated = [c \in Clients |-> 0]
  /\ lastGC = 0 /\ now = 0
  /\ caller = [h \in Calls |-> NoClient] /\ readAt = [h \in Calls |-> 0]
  /\ allowed = [c \in Clients |-> 0]

AtMostFull(x) == IF x > Full THEN Full ELSE x

\* A request of c comes in: now := time.Now(). Probes and metrics do not.
Call(h, c) ==
  /\ caller[h] = NoClient
  /\ caller' = [caller EXCEPT ![h] = c] /\ readAt' = [readAt EXCEPT ![h] = now]
  /\ UNCHANGED <<buckets, tokens, updated, lastGC, now, allowed>>

\* The buckets that are left when the call gets the lock.
DropYoung(h) == {c \in buckets : readAt[h] - lastGC > GCPeriod => readAt[h] - updated[c] <= 1}
Left(h) ==
  {c \in buckets : readAt[h] - lastGC > GCPeriod => readAt[h] - updated[c] <= GCPeriod}

\* What the bucket of the call holds by then, elapsed being negative if another call that
\* read the clock later came first.
LevelNoCap(h) ==
  IF caller[h] \in Left(h)
  THEN tokens[caller[h]] + (readAt[h] - updated[caller[h]]) * Refill
  ELSE Full
Level(h) ==
  IF caller[h] \in Left(h)
  THEN AtMostFull(tokens[caller[h]] + (readAt[h] - updated[caller[h]]) * Refill)
  ELSE Full

Leave(h) ==
  /\ caller' = [caller EXCEPT ![h] = NoClient] /\ readAt' = [readAt EXCEPT ![h] = 0]

\* The section under the lock.
Allow(h) ==
  /\ caller[h] # NoClient
  /\ LET c == caller[h] IN
       /\ buckets' = Left(h) \cup {c}
       /\ updated' = [updated EXCEPT ![c] = readAt[h]]
       /\ lastGC' = IF readAt[h] - lastGC > GCPeriod THEN readAt[h] ELSE lastGC
       /\ \/ /\ Level(h) >= Cost
             /\ tokens' = [tokens EXCEPT ![c] = Level(h) - Cost]
             /\ allowed' = [allowed EXCEPT ![c] = @ + 1]
          \/ /\ Level(h) < Cost
             /\ tokens' = [tokens EXCEPT ![c] = Level(h)]
             /\ UNCHANGED allowed
  /\ Leave(h) /\ UNCHANGED now

TimePasses ==
  /\ \A h \in Calls : caller[h] # NoClient => now - readAt[h] < MaxLag
  /\ now < MaxNow /\ now' = now + 1
  /\ UNCHANGED <<buckets, tokens, updated, lastGC, caller, readAt, allowed>>

LimiterNext ==
  \/ \E h \in Calls : Allow(h) \/ \E c \in Clients : Call(h, c)
  \/ TimePasses

LimiterSpec == LimiterInit /\ [][LimiterNext]_limiterVars

(***************************************************************************)
(* Properties                                                              *)
(***************************************************************************)
\* What a client could take now; a client without a bucket, all.
Allowance(c) ==
  IF c \in buckets THEN AtMostFull(tokens[c] + (now - updated[c]) * Refill) ELSE Full

Bucket == INSTANCE TokenBucket
  WITH level <- [c \in Clients |-> Allowance(c)], granted <- allowed, elapsed <- now,
       Slack <- MaxLag * Refill

\* The limiter is a bucket of tokens for every client: neither the throwing away of
\* buckets nor the order in which calls get the lock lets a client have more.
IsTokenBucket == Bucket!BucketSpec

\* However its calls arrive, a client gets no more than a full bucket and what it gains.
Throughput == \A c \in Clients : allowed[c] * Cost <= Full + now * Refill
=============================================================================
