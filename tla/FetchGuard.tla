----------------------------- MODULE FetchGuard -----------------------------
(***************************************************************************)
(* What stands between a goroutine and a publisher: the circuit breaker of *)
(* a host and the limiter of a site, both in the memory of one process     *)
(* (backend/internal/feed/fetcher/fetcher.go).                             *)
(*                                                                         *)
(* Every critical section of breaker.mu and domainLimiter.mu, every send   *)
(* on a semaphore and every sleep is a step of its own.  The SSRF checks   *)
(* before Allow change nothing and are left out.                           *)
(***************************************************************************)
EXTENDS Integers, FiniteSets, Sequences

CONSTANTS
  Callers,    \* goroutines in Fetch: slots of RunOnce, admin feed tests
  Hosts,      \* host names of feed URLs, the breaker's keys
  Sites,      \* values of normalizeHost, the limiter's keys
  Site,       \* [Hosts -> Sites], normalizeHost
  MaxCon,     \* DOMAIN_CONCURRENCY (2)
  PerMin,     \* RequestsPerMinute (30)
  Minute,     \* the window, in ticks
  Threshold,  \* failures that open a circuit (6)
  Cooldown,   \* time a circuit stays open (5 minutes)
  Deadline    \* of the context a caller gives to Fetch (2 minutes)

ASSUME GuardAssumption ==
  /\ IsFiniteSet(Callers) /\ Callers # {}
  /\ Site \in [Hosts -> Sites]
  /\ MaxCon \in Nat \ {0} /\ PerMin \in Nat \ {0} /\ Minute \in Nat \ {0}
  /\ Threshold \in Nat \ {0} /\ Cooldown \in Nat \ {0} /\ Deadline \in Nat \ {0}

VARIABLES
  stage,     \* of a caller, see Stage
  host,      \* the host a caller asks for
  left,      \* what is left of a caller's deadline
  pause,     \* what is left of a caller's sleep in Acquire
  tokens,    \* by site: entries in the semaphore channel
  window,    \* by site: for each request on record, the time until it expires
  failures,  \* by host: the breaker's count, which stops mattering at Threshold
  open,      \* hosts with an entry in openAt
  cooling,   \* by host: what is left of the cooldown of that entry
  late       \* history, by host: requests sent since the circuit opened

caller  == <<stage, host, left, pause>>
limiter == <<tokens, window>>
breaker == <<failures, open, cooling>>
vars    == <<caller, limiter, breaker, late>>

\* Outside Fetch; past Allow; asleep for the rate; blocked on the semaphore; holding
\* a token that the window does not show yet; in client.Do; about to release.
Stage == {"idle", "allowed", "asleep", "waiting", "holding", "sending", "leaving"}

\* Counts of the breaker stop at the threshold, timers run within their windows.
TypeOK ==
  /\ stage \in [Callers -> Stage] /\ host \in [Callers -> Hosts]
  /\ left \in [Callers -> Nat] /\ pause \in [Callers -> Nat]
  /\ tokens \in [Sites -> Nat] /\ window \in [Sites -> Seq(1..Minute)]
  /\ failures \in [Hosts -> 0..Threshold] /\ open \subseteq Hosts
  /\ cooling \in [Hosts -> 0..Cooldown]
  /\ late \in [Hosts -> Nat]

SiteOf(c) == Site[host[c]]

\* The callers that hold a token of a site.
Holders(s) == {c \in Callers :
  SiteOf(c) = s /\ stage[c] \in {"holding", "sending", "leaving"}}

Goto(c, to) == stage' = [stage EXCEPT ![c] = to]

Init ==
  /\ stage = [c \in Callers |-> "idle"]
  /\ host \in [Callers -> Hosts]
  /\ left = [c \in Callers |-> 0] /\ pause = [c \in Callers |-> 0]
  /\ tokens = [s \in Sites |-> 0] /\ window = [s \in Sites |-> << >>]
  /\ failures = [h \in Hosts |-> 0] /\ open = {}
  /\ cooling = [h \in Hosts |-> 0] /\ late = [h \in Hosts |-> 0]

(***************************************************************************)
(* The circuit breaker                                                     *)
(***************************************************************************)
\* A breaker that lets everything through.
AdmitAlways(h) == UNCHANGED <<breaker, late>>

Admit(h) ==
  \/ h \notin open /\ UNCHANGED <<breaker, late>>
  \/ /\ h \in open /\ cooling[h] = 0
     /\ open' = open \ {h}
     /\ failures' = [failures EXCEPT ![h] = 0]
     /\ late' = [late EXCEPT ![h] = 0]
     /\ UNCHANGED cooling

\* The threshold is met one failure too late.
FailureLate(h) ==
  /\ failures' = [failures EXCEPT ![h] = IF @ < Threshold THEN @ + 1 ELSE @]
  /\ IF failures[h] >= Threshold
     THEN open' = open \cup {h} /\ cooling' = [cooling EXCEPT ![h] = Cooldown]
     ELSE UNCHANGED <<open, cooling>>
  /\ UNCHANGED late

Failure(h) ==
  /\ failures' = [failures EXCEPT ![h] = IF @ < Threshold THEN @ + 1 ELSE @]
  /\ IF failures[h] + 1 >= Threshold
     THEN open' = open \cup {h} /\ cooling' = [cooling EXCEPT ![h] = Cooldown]
     ELSE UNCHANGED <<open, cooling>>
  /\ UNCHANGED late

Success(h) ==
  /\ failures' = [failures EXCEPT ![h] = 0]
  /\ open' = open \ {h}
  /\ late' = [late EXCEPT ![h] = 0]
  /\ UNCHANGED cooling

(***************************************************************************)
(* Fetch                                                                   *)
(***************************************************************************)
\* Allow lets the caller in.
Allow(c, h) ==
  /\ stage[c] = "idle"
  /\ Admit(h)
  /\ Goto(c, "allowed")
  /\ host' = [host EXCEPT ![c] = h]
  /\ left' = [left EXCEPT ![c] = Deadline]
  /\ UNCHANGED <<pause, limiter>>

\* "circuit open": Fetch returns the error and the breaker stays as it is. A version
\* that counts the refusal as one more failure:
RefuseAsFailure(c, h) ==
  /\ stage[c] = "idle"
  /\ h \in open /\ cooling[h] > 0
  /\ Failure(h)
  /\ UNCHANGED <<caller, limiter>>

Refuse(c, h) ==
  /\ stage[c] = "idle"
  /\ h \in open /\ cooling[h] > 0
  /\ UNCHANGED vars

\* The first half of Acquire: with PerMin requests on record, sleep until the oldest
\* of them expires.
Throttle(c) ==
  LET w == window[SiteOf(c)] IN
  /\ stage[c] = "allowed"
  /\ IF Len(w) >= PerMin
     THEN Goto(c, "asleep") /\ pause' = [pause EXCEPT ![c] = Head(w)]
     ELSE Goto(c, "waiting") /\ UNCHANGED pause
  /\ UNCHANGED <<host, left, limiter, breaker, late>>

\* The sleep ends; the window is not looked at again, so several callers that slept
\* for the same entry all go on.
Wake(c) ==
  /\ stage[c] = "asleep"
  /\ pause[c] = 0
  /\ Goto(c, "waiting")
  /\ UNCHANGED <<host, left, pause, limiter, breaker, late>>

\* `sem <- struct{}{}` on the channel of the site, whose capacity is MaxCon.
TakeToken(c) ==
  /\ stage[c] = "waiting"
  /\ tokens[SiteOf(c)] < MaxCon
  /\ Goto(c, "holding")
  /\ tokens' = [tokens EXCEPT ![SiteOf(c)] = @ + 1]
  /\ UNCHANGED <<host, left, pause, window, breaker, late>>

\* The second half of Acquire records the request, which is then sent.
Send(c) ==
  /\ stage[c] = "holding"
  /\ Goto(c, "sending")
  /\ window' = [window EXCEPT ![SiteOf(c)] = Append(@, Minute)]
  /\ late' = [late EXCEPT ![host[c]] = IF host[c] \in open THEN @ + 1 ELSE 0]
  /\ UNCHANGED <<host, left, pause, tokens, breaker>>

\* ctx.Done in either select of Acquire: there is no token to give back. One version
\* has registered its Release already, the other sends to the channel outside a
\* select:
GiveUpReleasing(c) ==
  /\ stage[c] \in {"asleep", "waiting"}
  /\ left[c] = 0
  /\ Goto(c, "leaving")
  /\ UNCHANGED <<host, left, pause, limiter, breaker, late>>

GiveUpAsleepOnly(c) ==
  /\ stage[c] = "asleep"
  /\ left[c] = 0
  /\ Goto(c, "idle")
  /\ pause' = [pause EXCEPT ![c] = 0]
  /\ UNCHANGED <<host, left, limiter, breaker, late>>

GiveUp(c) ==
  /\ stage[c] \in {"asleep", "waiting"}
  /\ left[c] = 0
  /\ Goto(c, "idle")
  /\ pause' = [pause EXCEPT ![c] = 0]
  /\ UNCHANGED <<host, left, limiter, breaker, late>>

\* client.Do failed, or the answer was a 429 or any other error status.
Fails(c) ==
  /\ stage[c] = "sending"
  /\ Failure(host[c])
  /\ Goto(c, "leaving")
  /\ UNCHANGED <<host, left, pause, limiter>>

\* A 304, or a body that is neither empty nor a page.
Succeeds(c) ==
  /\ stage[c] = "sending"
  /\ Success(host[c])
  /\ Goto(c, "leaving")
  /\ UNCHANGED <<host, left, pause, limiter>>

\* Too large, undecodable, empty, or HTML: an error that the breaker never hears of.
Disappoints(c) ==
  /\ stage[c] = "sending"
  /\ Goto(c, "leaving")
  /\ UNCHANGED <<host, left, pause, limiter, breaker, late>>

\* The deferred Release.
Release(c) ==
  /\ stage[c] = "leaving"
  /\ tokens' = [tokens EXCEPT ![SiteOf(c)] = IF @ > 0 THEN @ - 1 ELSE 0]
  /\ Goto(c, "idle")
  /\ left' = [left EXCEPT ![c] = 0]
  /\ UNCHANGED <<host, pause, window, breaker, late>>

(***************************************************************************)
(* Time                                                                    *)
(***************************************************************************)
LessUnbounded(n) == n - 1     \* a timer that runs past its end
Less(n) == IF n > 0 THEN n - 1 ELSE 0

\* What is on record of a site a tick later. Acquire drops expired entries before it
\* looks; here they go at once. They are at the front, for an entry is appended under the
\* mutex with the time of its request.
Expired(w) == {i \in DOMAIN w : w[i] <= 1}

Aged(w) ==
  LET gone == Cardinality(Expired(w))
  IN  [i \in 1..Len(w) - gone |-> w[i + gone] - 1]

\* client.Do does not outlive the context; elsewhere a goroutine may be late.
Tick ==
  /\ \A c \in Callers : stage[c] = "sending" => left[c] > 0
  /\ left' = [c \in Callers |-> Less(left[c])]
  /\ pause' = [c \in Callers |-> Less(pause[c])]
  /\ window' = [s \in Sites |-> Aged(window[s])]
  /\ cooling' = [h \in Hosts |-> Less(cooling[h])]
  /\ UNCHANGED <<stage, host, tokens, failures, open, late>>

(***************************************************************************)
(* Specification                                                           *)
(***************************************************************************)
Inside(c) ==
  \/ Throttle(c) \/ Wake(c) \/ TakeToken(c) \/ Send(c) \/ GiveUp(c)
  \/ Fails(c) \/ Succeeds(c) \/ Disappoints(c) \/ Release(c)

Next ==
  \/ \E c \in Callers, h \in Hosts : Allow(c, h) \/ Refuse(c, h)
  \/ \E c \in Callers : Inside(c)
  \/ Tick

Spec == Init /\ [][Next]_vars

\* A goroutine inside Fetch goes on, and time passes. Nobody has to call Fetch.
FairSpec ==
  /\ Spec
  /\ WF_vars(Tick)
  /\ \A c \in Callers : WF_vars(Inside(c))

(***************************************************************************)
(* Properties                                                              *)
(***************************************************************************)
\* Every path out of Fetch, the cancelled ones included, returns exactly the tokens
\* it took: a site has as many tokens out as it has requests, and no more than
\* DOMAIN_CONCURRENCY of them.
TokensMatch ==
  \A s \in Sites :
    /\ tokens[s] = Cardinality(Holders(s))
    /\ tokens[s] <= MaxCon

\* A circuit is open exactly when its host has used up its failures: late answers of
\* requests sent before it opened, or after it closed, leave no stale entry behind.
BreakerExact ==
  \A h \in Hosts : h \in open <=> failures[h] = Threshold

\* A host whose circuit opened gets only what was already on its way past Allow, one
\* request of each other caller, until a success or the cooldown closes it.
DeadHostCut ==
  \A h \in Hosts : late[h] < Cardinality(Callers)

\* No circuit stays closed to callers for ever: refused calls and stragglers do not
\* extend the cooldown without end.
CooldownEnds ==
  \A h \in Hosts : []<>(h \in open => cooling[h] = 0)

\* No fetch hangs on the limiter.
EveryFetchEnds ==
  \A c \in Callers : []<>(stage[c] = "idle")
=============================================================================
