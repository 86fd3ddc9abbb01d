---------------------------- MODULE Feeds_proofs ----------------------------
(***************************************************************************)
(* What the specifications about feeds guarantee beside FeedRegistry: that *)
(* of the fetcher (FetchGuard), of the delays (PollPace) and of the starts of*)
(* a process (Startup), each for every value of its constants; and, of the *)
(* composition which a run checks, that it keeps the types of all four.    *)
(***************************************************************************)
EXTENDS MCFeeds, FeedRegistry_proofs, FiniteSetTheorems, WellFoundedInduction

(***************************************************************************)
(* FetchGuard: no token of a semaphore is lost or returned twice, a circuit*)
(* is open exactly at its threshold, and a host whose circuit opened gets no*)
(* more than the requests already under way.                               *)
(***************************************************************************)
USE GuardAssumption


(***************************************************************************)
(* The inductive invariants                                                *)
(***************************************************************************)
\* The part of TypeOK the arguments below rest on.
GuardTypes ==
  /\ stage \in [Callers -> Stage] /\ host \in [Callers -> Hosts]
  /\ tokens \in [Sites -> Nat]
  /\ failures \in [Hosts -> 0..Threshold] /\ open \subseteq Hosts
  /\ late \in [Hosts -> Nat]

\* The callers past Allow that have not yet sent their request to h.
Coming(h) == {c \in Callers :
  host[c] = h /\ stage[c] \in {"allowed", "asleep", "waiting", "holding"}}

\* The requests a host got since its circuit opened and those still to come are
\* fewer than the callers: the one whose failure opened it is among neither.
LateCounted ==
  \A h \in Hosts :
    /\ h \in open => late[h] + Cardinality(Coming(h)) < Cardinality(Callers)
    /\ h \notin open => late[h] = 0

GuardInv == GuardTypes /\ TokensMatch /\ BreakerExact /\ LateCounted

(***************************************************************************)
(* Counting                                                                *)
(***************************************************************************)
\* Sets of callers have sizes, below that of all callers unless they are all.
LEMMA CallerSets ==
  /\ Cardinality(Callers) \in Nat \ {0}
  /\ \A S \in SUBSET Callers :
       /\ IsFiniteSet(S) /\ Cardinality(S) \in Nat
       /\ Cardinality(S) <= Cardinality(Callers)
       /\ S # Callers => Cardinality(S) < Cardinality(Callers)
<1>1. Cardinality(Callers) \in Nat \ {0}
  BY FS_CardinalityType, FS_EmptySet
<1>2. ASSUME NEW S \in SUBSET Callers
      PROVE  /\ IsFiniteSet(S) /\ Cardinality(S) \in Nat
             /\ Cardinality(S) <= Cardinality(Callers)
             /\ S # Callers => Cardinality(S) < Cardinality(Callers)
  <2>1. /\ IsFiniteSet(S) /\ Cardinality(S) <= Cardinality(Callers)
        /\ Cardinality(Callers) = Cardinality(S) => Callers = S
    BY FS_Subset
  <2>2. Cardinality(S) \in Nat
    BY <2>1, FS_CardinalityType
  <2> QED
    BY <1>1, <2>1, <2>2
<1> QED
  BY <1>1, <1>2

\* Where nothing that counts as a holder changes, the tokens still match.
LEMMA SameHolders ==
  ASSUME GuardTypes, TokensMatch, UNCHANGED tokens,
         \A s \in Sites : Holders(s)' = Holders(s)
  PROVE  TokensMatch'
  BY DEF TokensMatch

(***************************************************************************)
(* Each action keeps each part                                             *)
(***************************************************************************)
\* Every step keeps the types of what the counting uses.
LEMMA GuardTypesStep == GuardTypes /\ [Next]_vars => GuardTypes'
<1> SUFFICES ASSUME GuardTypes, [Next]_vars PROVE GuardTypes'
  OBVIOUS
<1> USE DEF GuardTypes, Stage, Goto, caller, limiter, breaker
<1>1. ASSUME NEW c \in Callers, NEW h \in Hosts, Allow(c, h) PROVE GuardTypes'
  BY <1>1 DEF Allow, Admit
<1>2. ASSUME NEW c \in Callers, NEW h \in Hosts, Refuse(c, h) PROVE GuardTypes'
  BY <1>2 DEF Refuse, vars
<1>3. ASSUME NEW c \in Callers, Throttle(c) \/ Wake(c) \/ GiveUp(c) \/ Disappoints(c)
      PROVE  GuardTypes'
  BY <1>3 DEF Throttle, Wake, GiveUp, Disappoints
<1>4. ASSUME NEW c \in Callers, TakeToken(c) PROVE GuardTypes'
  BY <1>4 DEF TakeToken, SiteOf
<1>5. ASSUME NEW c \in Callers, Send(c) PROVE GuardTypes'
  BY <1>5 DEF Send
<1>6. ASSUME NEW c \in Callers, Fails(c) PROVE GuardTypes'
  BY <1>6 DEF Fails, Failure
<1>7. ASSUME NEW c \in Callers, Succeeds(c) PROVE GuardTypes'
  BY <1>7 DEF Succeeds, Success
<1>8. ASSUME NEW c \in Callers, Release(c) PROVE GuardTypes'
  BY <1>8 DEF Release, SiteOf
<1>9. CASE Tick
  BY <1>9 DEF Tick
<1>10. CASE UNCHANGED vars
  BY <1>10 DEF vars
<1> QED
  BY <1>1, <1>2, <1>3, <1>4, <1>5, <1>6, <1>7, <1>8, <1>9, <1>10 DEF Next, Inside

\* Every step that takes or returns a token moves exactly one caller in or out.
LEMMA TokensStep == GuardTypes /\ TokensMatch /\ [Next]_vars => TokensMatch'
<1> SUFFICES ASSUME GuardTypes, TokensMatch, [Next]_vars PROVE TokensMatch'
  OBVIOUS
<1> USE DEF GuardTypes, Stage, Goto, caller, limiter, breaker
\* A token comes with a holder, and goes with one.
<1>1. ASSUME NEW c \in Callers, TakeToken(c) PROVE TokensMatch'
  <2> SUFFICES ASSUME NEW s \in Sites
               PROVE  tokens'[s] = Cardinality(Holders(s)') /\ tokens'[s] <= MaxCon
    BY DEF TokensMatch
  <2>1. CASE s = SiteOf(c)
    <3>1. c \notin Holders(s) /\ Holders(s)' = Holders(s) \cup {c}
      BY <1>1, <2>1 DEF TakeToken, Holders, SiteOf
    <3>2. Cardinality(Holders(s)') = Cardinality(Holders(s)) + 1
      BY <3>1, CallerSets, FS_AddElement DEF Holders
    <3>3. tokens[s] < MaxCon /\ tokens'[s] = tokens[s] + 1
      BY <1>1, <2>1 DEF TakeToken
    <3> QED
      BY <3>2, <3>3 DEF TokensMatch
  <2>2. CASE s # SiteOf(c)
    <3>1. Holders(s)' = Holders(s) /\ tokens'[s] = tokens[s]
      BY <1>1, <2>2 DEF TakeToken, Holders, SiteOf
    <3> QED
      BY <3>1 DEF TokensMatch
  <2> QED
    BY <2>1, <2>2
<1>2. ASSUME NEW c \in Callers, Release(c) PROVE TokensMatch'
  <2> SUFFICES ASSUME NEW s \in Sites
               PROVE  tokens'[s] = Cardinality(Holders(s)') /\ tokens'[s] <= MaxCon
    BY DEF TokensMatch
  <2>1. CASE s = SiteOf(c)
    <3>1. c \in Holders(s) /\ Holders(s)' = Holders(s) \ {c}
      BY <1>2, <2>1 DEF Release, Holders, SiteOf
    <3>2. IsFiniteSet(Holders(s)) /\ Holders(s)' \in SUBSET Callers
      BY <3>1, CallerSets DEF Holders
    <3>3. /\ Cardinality(Holders(s)') = Cardinality(Holders(s)) - 1
          /\ Cardinality(Holders(s)') \in Nat
      BY <3>1, <3>2, CallerSets, FS_RemoveElement
    <3>4. tokens'[s] = IF tokens[s] > 0 THEN tokens[s] - 1 ELSE 0
      BY <1>2, <2>1 DEF Release
    <3>5. tokens[s] = Cardinality(Holders(s)) /\ tokens[s] <= MaxCon /\ tokens[s] \in Nat
      BY DEF TokensMatch
    <3> QED
      BY <3>3, <3>4, <3>5
  <2>2. CASE s # SiteOf(c)
    <3>1. Holders(s)' = Holders(s) /\ tokens'[s] = tokens[s]
      BY <1>2, <2>2 DEF Release, Holders, SiteOf
    <3> QED
      BY <3>1 DEF TokensMatch
  <2> QED
    BY <2>1, <2>2
\* No other step moves a caller in or out of the stages that hold a token.
<1>3. ASSUME NEW c \in Callers, NEW h \in Hosts, Allow(c, h) PROVE TokensMatch'
  BY <1>3, SameHolders DEF Allow, Holders, SiteOf
<1>4. ASSUME NEW c \in Callers, NEW h \in Hosts, Refuse(c, h) PROVE TokensMatch'
  BY <1>4, SameHolders DEF Refuse, Holders, SiteOf, vars
<1>5. ASSUME NEW c \in Callers, Throttle(c) \/ Wake(c) \/ GiveUp(c) PROVE TokensMatch'
  BY <1>5, SameHolders DEF Throttle, Wake, GiveUp, Holders, SiteOf
<1>6. ASSUME NEW c \in Callers, Send(c) \/ Fails(c) \/ Succeeds(c) \/ Disappoints(c)
      PROVE  TokensMatch'
  BY <1>6, SameHolders DEF Send, Fails, Succeeds, Disappoints, Holders, SiteOf
<1>7. CASE Tick
  BY <1>7, SameHolders DEF Tick, Holders, SiteOf
<1>8. CASE UNCHANGED vars
  BY <1>8, SameHolders DEF vars, Holders, SiteOf
<1> QED
  BY <1>1, <1>2, <1>3, <1>4, <1>5, <1>6, <1>7, <1>8 DEF Next, Inside

\* Count and entry of a circuit change together in Failure, Success and Allow.
LEMMA BreakerStep == GuardTypes /\ BreakerExact /\ [Next]_vars => BreakerExact'
<1> SUFFICES ASSUME GuardTypes, BreakerExact, [Next]_vars PROVE BreakerExact'
  OBVIOUS
<1> USE DEF GuardTypes, BreakerExact
<1>1. ASSUME NEW c \in Callers, NEW h \in Hosts, Allow(c, h) PROVE BreakerExact'
  BY <1>1 DEF Allow, Admit, breaker
<1>2. ASSUME NEW c \in Callers, Fails(c) PROVE BreakerExact'
  BY <1>2 DEF Fails, Failure
<1>3. ASSUME NEW c \in Callers, Succeeds(c) PROVE BreakerExact'
  BY <1>3 DEF Succeeds, Success
<1>4. CASE UNCHANGED <<failures, open>>
  BY <1>4
<1> QED
  BY <1>1, <1>2, <1>3, <1>4 DEF Next, Inside, Refuse, Throttle, Wake, TakeToken, Send,
     GiveUp, Disappoints, Release, Tick, vars, breaker

\* What a shrinking set of coming callers keeps, as long as the circuit stays as it is.
LEMMA CountShrinks ==
  ASSUME GuardTypes, LateCounted, NEW h \in Hosts,
         Coming(h)' \subseteq Coming(h), late'[h] = late[h],
         h \in open' <=> h \in open
  PROVE  /\ h \in open' => late'[h] + Cardinality(Coming(h)') < Cardinality(Callers)
         /\ h \notin open' => late'[h] = 0
<1>1. IsFiniteSet(Coming(h)) /\ Coming(h)' \in SUBSET Coming(h)
  BY CallerSets DEF Coming
<1>2. Cardinality(Coming(h)') <= Cardinality(Coming(h))
  BY <1>1, FS_Subset
<1>3. /\ Cardinality(Coming(h)') \in Nat /\ Cardinality(Coming(h)) \in Nat
      /\ Cardinality(Callers) \in Nat /\ late[h] \in Nat
  BY <1>1, FS_Subset, FS_CardinalityType, CallerSets DEF GuardTypes
<1>4. /\ h \in open => late[h] + Cardinality(Coming(h)) < Cardinality(Callers)
      /\ h \notin open => late[h] = 0
  BY DEF LateCounted
<1> QED
  BY <1>2, <1>3, <1>4

\* Once a circuit is open nobody new gets past Allow, so what is coming only shrinks as
\* what has come grows.
LEMMA LateCountedStep == GuardTypes /\ LateCounted /\ [Next]_vars => LateCounted'
<1> SUFFICES ASSUME GuardTypes, LateCounted, [Next]_vars, NEW h \in Hosts
             PROVE  /\ h \in open' => late'[h] + Cardinality(Coming(h)') < Cardinality(Callers)
                    /\ h \notin open' => late'[h] = 0
  BY DEF LateCounted
<1> DEFINE Goal ==
      /\ h \in open' => late'[h] + Cardinality(Coming(h)') < Cardinality(Callers)
      /\ h \notin open' => late'[h] = 0
<1> USE DEF GuardTypes, Goto, caller, limiter, breaker
\* Allow lets nobody through an open circuit: one more comes only where it is closed.
<1>1. ASSUME NEW c \in Callers, NEW g \in Hosts, Allow(c, g) PROVE Goal
  <2>1. CASE h = g
    BY <1>1, <2>1 DEF Allow, Admit, LateCounted
  <2>2. CASE h # g
    <3>1. Coming(h)' \subseteq Coming(h)
      BY <1>1, <2>2 DEF Allow, Coming
    <3>2. late'[h] = late[h] /\ (h \in open' <=> h \in open)
      BY <1>1, <2>2 DEF Allow, Admit
    <3> QED
      BY <3>1, <3>2, CountShrinks
  <2> QED
    BY <2>1, <2>2
\* The request of a caller that was coming is sent: one fewer to come, one more late.
<1>2. ASSUME NEW c \in Callers, Send(c) PROVE Goal
  <2>1. CASE h = host[c] /\ h \in open
    <3>1. c \in Coming(h) /\ Coming(h)' = Coming(h) \ {c}
      BY <1>2, <2>1 DEF Send, Coming
    <3>2. IsFiniteSet(Coming(h)) /\ Cardinality(Coming(h)) \in Nat
      BY CallerSets DEF Coming
    <3>3. Cardinality(Coming(h)') = Cardinality(Coming(h)) - 1
      BY <3>1, <3>2, FS_RemoveElement
    <3>4. late'[h] = late[h] + 1 /\ open' = open
      BY <1>2, <2>1 DEF Send
    <3>5. late[h] + Cardinality(Coming(h)) < Cardinality(Callers)
          /\ late[h] \in Nat /\ Cardinality(Callers) \in Nat
      BY <2>1, CallerSets DEF LateCounted
    <3> QED
      BY <2>1, <3>2, <3>3, <3>4, <3>5
  <2>2. CASE h = host[c] /\ h \notin open
    BY <1>2, <2>2 DEF Send
  <2>3. CASE h # host[c]
    <3>1. Coming(h)' \subseteq Coming(h)
      BY <1>2, <2>3 DEF Send, Coming
    <3>2. late'[h] = late[h] /\ open' = open
      BY <1>2, <2>3 DEF Send
    <3> QED
      BY <3>1, <3>2, CountShrinks
  <2> QED
    BY <2>1, <2>2, <2>3
\* The failure that opens a circuit is that of a caller which is not coming.
<1>3. ASSUME NEW c \in Callers, Fails(c) PROVE Goal
  <2>1. Coming(h)' = Coming(h) /\ late' = late
    BY <1>3 DEF Fails, Failure, Coming
  <2>2. CASE h \in open \/ h \notin open'
    <3>1. h \in open' <=> h \in open
      BY <1>3, <2>2 DEF Fails, Failure
    <3> QED
      BY <2>1, <3>1, CountShrinks
  <2>3. CASE h \notin open /\ h \in open'
    <3>1. h = host[c] /\ c \notin Coming(h)
      BY <1>3, <2>3 DEF Fails, Failure, Coming
    <3>2. Cardinality(Coming(h)) < Cardinality(Callers) /\ Cardinality(Coming(h)) \in Nat
      BY <3>1, CallerSets DEF Coming
    <3>3. late[h] = 0
      BY <2>3 DEF LateCounted
    <3> QED
      BY <2>1, <2>3, <3>2, <3>3
  <2> QED
    BY <2>2, <2>3
<1>4. ASSUME NEW c \in Callers, Succeeds(c) PROVE Goal
  <2>1. CASE h = host[c]
    BY <1>4, <2>1 DEF Succeeds, Success
  <2>2. CASE h # host[c]
    <3>1. Coming(h)' \subseteq Coming(h)
      BY <1>4 DEF Succeeds, Coming
    <3>2. late'[h] = late[h] /\ (h \in open' <=> h \in open)
      BY <1>4, <2>2 DEF Succeeds, Success
    <3> QED
      BY <3>1, <3>2, CountShrinks
  <2> QED
    BY <2>1, <2>2
\* Every other step brings nobody closer to the host.
<1>5. ASSUME NEW c \in Callers,
             \/ Throttle(c) \/ Wake(c) \/ TakeToken(c) \/ GiveUp(c)
             \/ Disappoints(c) \/ Release(c)
      PROVE  Goal
  <2>1. Coming(h)' \subseteq Coming(h)
    BY <1>5 DEF Throttle, Wake, TakeToken, GiveUp, Disappoints, Release, Coming
  <2>2. UNCHANGED <<open, late>>
    BY <1>5 DEF Throttle, Wake, TakeToken, GiveUp, Disappoints, Release
  <2> QED
    BY <2>1, <2>2, CountShrinks
<1>6. CASE Tick \/ UNCHANGED vars \/ \E c \in Callers, g \in Hosts : Refuse(c, g)
  <2>1. UNCHANGED <<stage, host, open, late>>
    BY <1>6 DEF Tick, Refuse, vars
  <2> QED
    BY <2>1, CountShrinks DEF Coming
<1> QED
  BY <1>1, <1>2, <1>3, <1>4, <1>5, <1>6 DEF Next, Inside

(***************************************************************************)
(* The window of the rate limit                                            *)
(***************************************************************************)
\* Requests are on record in their order, so that the first entry is the oldest: the one
\* whose expiry Acquire sleeps for.
Ordered(w) == \A i, k \in 1..Len(w) : i <= k => w[i] <= w[k]

\* The timers and the window, which the counting does not look at.
GuardTimers ==
  /\ left \in [Callers -> Nat] /\ pause \in [Callers -> Nat]
  /\ cooling \in [Hosts -> 0..Cooldown]
  /\ window \in [Sites -> Seq(1..Minute)] /\ \A s \in Sites : Ordered(window[s])

\* A request recorded last keeps the order: nothing expires later.
LEMMA RecordedLast ==
  ASSUME NEW w \in Seq(1..Minute), Ordered(w)
  PROVE  Append(w, Minute) \in Seq(1..Minute) /\ Ordered(Append(w, Minute))
<1>1. Append(w, Minute) \in Seq(1..Minute) /\ Len(Append(w, Minute)) = Len(w) + 1
  OBVIOUS
<1>2. /\ \A i \in 1..Len(w) : Append(w, Minute)[i] = w[i] /\ w[i] <= Minute
      /\ Append(w, Minute)[Len(w) + 1] = Minute
  OBVIOUS
<1> QED
  BY <1>1, <1>2 DEF Ordered

\* The expired entries are the first ones, and those that stay are in order.
LEMMA AgedKeepsOrder ==
  ASSUME NEW w \in Seq(1..Minute), Ordered(w)
  PROVE  Aged(w) \in Seq(1..Minute) /\ Ordered(Aged(w))
<1> DEFINE gone == Cardinality(Expired(w))
<1>1. Expired(w) \subseteq 1..Len(w) /\ Len(w) \in Nat
  BY DEF Expired
<1>2. \A n \in Nat : IsFiniteSet(1..n) /\ Cardinality(1..n) = n
  <2> TAKE n \in Nat
  <2>1. IsFiniteSet(1..n) /\ Cardinality(1..n) = IF 1 > n THEN 0 ELSE n - 1 + 1
    BY FS_Interval
  <2> QED
    BY <2>1
<1>3. IsFiniteSet(Expired(w)) /\ gone \in Nat /\ gone <= Len(w)
  BY <1>1, <1>2, FS_Subset, FS_CardinalityType
<1>4. ASSUME NEW n \in 1..Len(w), w[n] <= 1 PROVE n <= gone
  <2>1. 1..n \subseteq Expired(w)
    BY <1>1, <1>4 DEF Expired, Ordered
  <2>2. Cardinality(1..n) = n
    BY <1>1, <1>2
  <2>3. Cardinality(1..n) <= Cardinality(Expired(w))
    BY <1>3, <2>1, FS_Subset
  <2> QED
    BY <2>2, <2>3
<1> HIDE DEF gone
<1>5. Aged(w) = [i \in 1..Len(w) - gone |-> w[i + gone] - 1]
  BY DEF Aged, gone
<1>6. \A i \in 1..Len(w) - gone : i + gone \in 1..Len(w) /\ ~(i + gone <= gone)
  BY <1>1, <1>3
<1>7. \A i \in 1..Len(w) - gone : w[i + gone] - 1 \in 1..Minute
  <2>1. \A i \in 1..Len(w) - gone : ~(w[i + gone] <= 1) /\ w[i + gone] \in 1..Minute
    BY <1>4, <1>6
  <2> QED
    BY <2>1
<1>8. Len(w) - gone \in Nat
  BY <1>1, <1>3
<1>9. Aged(w) \in Seq(1..Minute) /\ Len(Aged(w)) = Len(w) - gone
  BY <1>5, <1>7, <1>8
<1>10. ASSUME NEW i \in 1..Len(Aged(w)), NEW k \in 1..Len(Aged(w)), i <= k
       PROVE  Aged(w)[i] <= Aged(w)[k]
  <2>1. i + gone <= k + gone /\ i + gone \in 1..Len(w) /\ k + gone \in 1..Len(w)
    BY <1>3, <1>6, <1>9, <1>10
  <2>2. w[i + gone] <= w[k + gone] /\ w[i + gone] \in 1..Minute /\ w[k + gone] \in 1..Minute
    BY <2>1 DEF Ordered
  <2>3. Aged(w)[i] = w[i + gone] - 1 /\ Aged(w)[k] = w[k + gone] - 1
    BY <1>5, <1>9
  <2> QED
    BY <2>2, <2>3
<1> QED
  BY <1>9, <1>10 DEF Ordered

\* Every step keeps the timers in range and the window in order.
LEMMA GuardTimersStep == GuardTypes /\ GuardTimers /\ [Next]_vars => GuardTimers'
<1> SUFFICES ASSUME GuardTypes, GuardTimers, [Next]_vars PROVE GuardTimers'
  OBVIOUS
<1>0. \A c \in Callers : host[c] \in Hosts /\ SiteOf(c) \in Sites
  BY DEF GuardTypes, SiteOf
<1>1. ASSUME NEW c \in Callers, NEW h \in Hosts, Allow(c, h) PROVE GuardTimers'
  BY <1>1 DEF Allow, Admit, GuardTimers, limiter, breaker
<1>2. ASSUME NEW c \in Callers, Throttle(c) PROVE GuardTimers'
  <2>1. window[SiteOf(c)] \in Seq(1..Minute)
    BY <1>0 DEF GuardTimers
  <2>2. Len(window[SiteOf(c)]) >= PerMin => Head(window[SiteOf(c)]) \in Nat
    BY <2>1
  <2>3. pause' \in [Callers -> Nat]
    BY <1>2, <2>2 DEF Throttle, GuardTimers
  <2> QED
    BY <1>2, <2>3 DEF Throttle, GuardTimers, limiter, breaker
<1>3. ASSUME NEW c \in Callers, GiveUp(c) PROVE GuardTimers'
  BY <1>3 DEF GiveUp, GuardTimers, limiter, breaker
<1>4. ASSUME NEW c \in Callers, Send(c) PROVE GuardTimers'
  <2>1. \A s \in Sites : /\ window'[s] \in Seq(1..Minute)
                         /\ Ordered(window'[s])
    BY <1>0, <1>4, RecordedLast DEF Send, GuardTimers
  <2>2. window' \in [Sites -> Seq(1..Minute)]
    BY <1>4, <2>1 DEF Send, GuardTimers
  <2> QED
    BY <1>4, <2>1, <2>2 DEF Send, GuardTimers, breaker
<1>5. ASSUME NEW c \in Callers, Fails(c) PROVE GuardTimers'
  <2>1. Cooldown \in 0..Cooldown
    BY DEF GuardAssumption
  <2>2. cooling' \in [Hosts -> 0..Cooldown]
    BY <1>5, <2>1 DEF Fails, Failure, GuardTimers
  <2>3. UNCHANGED <<left, pause, window>>
    BY <1>5 DEF Fails, limiter
  <2> QED
    BY <2>2, <2>3 DEF GuardTimers
<1>6. ASSUME NEW c \in Callers, Release(c) PROVE GuardTimers'
  BY <1>6 DEF Release, GuardTimers, breaker
<1>7. CASE Tick
  <2>1. \A s \in Sites : window'[s] \in Seq(1..Minute) /\ Ordered(window'[s])
    BY <1>7, AgedKeepsOrder DEF Tick, GuardTimers
  <2>2. window' \in [Sites -> Seq(1..Minute)]
    BY <1>7, <2>1 DEF Tick
  <2>3. \A n \in Nat : Less(n) \in Nat /\ Less(n) <= n
    BY DEF Less
  <2>4. left' \in [Callers -> Nat] /\ pause' \in [Callers -> Nat]
    BY <1>7, <2>3 DEF Tick, GuardTimers
  <2>5. \A n \in 0..Cooldown : Less(n) \in 0..Cooldown
    BY DEF Less
  <2>6. cooling' \in [Hosts -> 0..Cooldown]
    BY <1>7, <2>5 DEF Tick, GuardTimers
  <2> QED
    BY <2>1, <2>2, <2>4, <2>6 DEF GuardTimers
<1>8. CASE UNCHANGED <<left, pause, window, cooling>>
  BY <1>8 DEF GuardTimers
<1> QED
  BY <1>1, <1>2, <1>3, <1>4, <1>5, <1>6, <1>7, <1>8
     DEF Next, Inside, Refuse, Wake, TakeToken, Succeeds, Success, Disappoints, vars, caller,
         limiter, breaker

(***************************************************************************)
(* The theorems                                                            *)
(***************************************************************************)
\* Initially no token is out and every circuit is closed.
LEMMA GuardInvInit == Init => GuardInv
<1> SUFFICES ASSUME Init PROVE GuardInv
  OBVIOUS
<1>1. \A s \in Sites : Holders(s) = {}
  BY DEF Init, Holders
<1>2. \A s \in Sites : Cardinality(Holders(s)) = 0
  BY <1>1, FS_EmptySet
<1>3. \A s \in Sites : tokens[s] = 0
  BY DEF Init
<1>4. TokensMatch
  BY <1>2, <1>3 DEF TokensMatch
<1> QED
  BY <1>4 DEF Init, GuardInv, GuardTypes, Stage, BreakerExact, LateCounted

\* At first no timer runs and no request is on record.
LEMMA GuardBegins == Init => GuardTypes /\ GuardTimers
<1> SUFFICES ASSUME Init PROVE GuardTypes /\ GuardTimers
  OBVIOUS
<1>1. window \in [Sites -> Seq(1..Minute)] /\ \A s \in Sites : Ordered(window[s])
  BY DEF Init, Ordered
<1> QED
  BY <1>1 DEF Init, GuardTypes, GuardTimers, Stage

\* Every timer runs within its range, and the window of a site holds its requests, the
\* oldest first, each with a time to its expiry.
THEOREM FetchTypeCorrect == Spec => [](TypeOK /\ \A s \in Sites : Ordered(window[s]))
<1>1. GuardTypes /\ GuardTimers => TypeOK /\ \A s \in Sites : Ordered(window[s])
  BY DEF GuardTypes, GuardTimers, TypeOK
<1> QED
  BY <1>1, GuardBegins, GuardTypesStep, GuardTimersStep, PTL DEF Spec

\* The invariant above holds in every state the callers of Fetch reach.
THEOREM GuardInductive == Spec => []GuardInv
<1>1. GuardInv /\ [Next]_vars => GuardInv'
  BY GuardTypesStep, TokensStep, BreakerStep, LateCountedStep DEF GuardInv
<1> QED
  BY GuardInvInit, <1>1, PTL DEF Spec

\* No path out of Fetch loses a token or gives back one it did not take, so no site
\* ever has more than DOMAIN_CONCURRENCY requests, nor ends up with fewer slots.
THEOREM TokensKept == Spec => []TokensMatch
<1>1. GuardInv => TokensMatch
  BY DEF GuardInv
<1> QED
  BY GuardInductive, <1>1, PTL

\* Who is blocked on a full semaphore waits for another caller that is past its own waiting
\* and will release: Acquire has no cycle and no slot that nobody holds.
THEOREM NobodyWaitsInVain ==
  Spec => [](\A c \in Callers : (stage[c] = "waiting" /\ tokens[SiteOf(c)] >= MaxCon) =>
               \E d \in Callers \ {c} : /\ SiteOf(d) = SiteOf(c)
                                        /\ stage[d] \in {"holding", "sending", "leaving"})
<1>1. GuardInv =>
        \A c \in Callers : (stage[c] = "waiting" /\ tokens[SiteOf(c)] >= MaxCon) =>
          \E d \in Callers \ {c} : /\ SiteOf(d) = SiteOf(c)
                                   /\ stage[d] \in {"holding", "sending", "leaving"}
  <2> SUFFICES ASSUME GuardInv, NEW c \in Callers, stage[c] = "waiting",
                      tokens[SiteOf(c)] >= MaxCon
               PROVE  \E d \in Callers \ {c} : /\ SiteOf(d) = SiteOf(c)
                                               /\ stage[d] \in {"holding", "sending", "leaving"}
    OBVIOUS
  <2>1. SiteOf(c) \in Sites
    BY DEF GuardInv, GuardTypes, SiteOf
  <2>2. tokens[SiteOf(c)] = Cardinality(Holders(SiteOf(c)))
    BY <2>1 DEF GuardInv, TokensMatch
  <2>3. Holders(SiteOf(c)) # {}
    <3>1. MaxCon \in Nat \ {0} /\ Cardinality({}) = 0
      BY FS_EmptySet
    <3> QED
      BY <2>2, <3>1
  <2> QED
    BY <2>3 DEF Holders
<1> QED
  BY GuardInductive, <1>1, PTL

\* openAt has an entry for exactly the hosts whose count has reached the threshold.
THEOREM BreakerKept == Spec => []BreakerExact
<1>1. GuardInv => BreakerExact
  BY DEF GuardInv
<1> QED
  BY GuardInductive, <1>1, PTL

\* A dead host costs each other caller at most one more request per cooldown.
THEOREM DeadHostIsCut == Spec => []DeadHostCut
<1>1. GuardInv => DeadHostCut
  <2> SUFFICES ASSUME GuardInv, NEW h \in Hosts PROVE late[h] < Cardinality(Callers)
    BY DEF DeadHostCut
  <2>1. Cardinality(Coming(h)) \in Nat /\ Cardinality(Callers) \in Nat \ {0}
    BY CallerSets DEF Coming
  <2> QED
    BY <2>1 DEF GuardInv, GuardTypes, LateCounted
<1> QED
  BY GuardInductive, <1>1, PTL

HIDE GuardAssumption

(***************************************************************************)
(* PollPace: the delays stay between their bounds, grow with the failures  *)
(* and come back to the tier's pace after two answers.                     *)
(***************************************************************************)
(***************************************************************************)
(* The inductive invariant                                                 *)
(***************************************************************************)
\* Nobody but the poll under way counts failures: until it is answered the row has as many
\* as the claim found, and none once a success is stored.  A poll begins within the bound.
ClaimCurrent ==
  poll # NoPoll =>
    /\ poll.failures < MaxFailures
    /\ poll.step = "fetching" => poll.failures = feed.failures
    /\ poll.step = "stored" => feed.failures = 0

\* Once a success was stored and scheduled and neither a failure nor a change of the tier
\* followed, the claim of the next poll shows no failure and the tier of the row.
SteadyClaim ==
  steady >= 1 =>
    feed.failures = 0 /\ (poll # NoPoll => poll.failures = 0 /\ poll.tier = feed.tier)

\* After a failure that had no delay of its own the row waits the backoff of the
\* failures it counts, until a success is stored.
Backed ==
  ended = "failed" /\ (poll # NoPoll => poll.step # "stored") =>
    /\ feed.failures >= 1
    /\ \E draw \in Draws : feed.delay = NextPollDelay(paced, feed.failures, 0, draw)

\* The row has its columns, which PaceTypeOK speaks of.
FeedRow ==
  feed \in [kind : Kinds, priority : 1..5, tier : Tiers, failures : 0..MaxFailures,
           health : Healths, score : 0..100, delay : Nat]

\* The score fits the failures and the health.
Scored ==
  /\ feed.failures = 0 <=> feed.score \in {80, 100}
  /\ feed.health = "STALE" <=> feed.score = 80

\* The claim and the histories.
Claimed ==
  poll \in Polls \cup {NoPoll} /\ (poll # NoPoll => poll.failures \in 0..MaxFailures)

Histories ==
  /\ ended \in {"never", "answered", "failed", "refused", "lost"}
  /\ paced \in Tiers /\ steady \in 0..2
  /\ changes \in 0..MaxChanges /\ losses \in 0..MaxLosses

PaceInv ==
  /\ FeedRow /\ Scored /\ Claimed /\ Histories
  /\ WithinBounds /\ BackToItsPace /\ ClaimCurrent /\ SteadyClaim /\ Backed

(***************************************************************************)
(* The rules                                                               *)
(***************************************************************************)
\* mapPriority and PollTierFor give every outline a grade and a known tier.
LEMMA Tiered ==
  ASSUME NEW kind, NEW mark
  PROVE  /\ PriorityOf(kind, mark) \in 1..5
         /\ PollTierFor(SourceTypeOf(kind), PriorityOf(kind, mark)) \in Tiers
<1>1. PriorityOf(kind, mark) \in 1..5
  BY DEF PriorityOf
<1>2. \A type, n : PollTierFor(type, n) \in Tiers
  BY DEF PollTierFor, Tiers
<1> QED
  BY <1>1, <1>2

\* PollTier.Interval has six values.
LEMMA Intervals ==
  ASSUME NEW tier
  PROVE  Interval(tier) \in {180, 300, 720, 1800, 3600, 900}
BY DEF Interval, OneMinute

\* What UnixNano() % 1000 can be.
Drawn == 0..999

\* The draws of the model are such.
LEMMA AllDrawn == Draws \subseteq Drawn
BY PaceAssumption DEF PaceAssumption, Drawn

\* What the jitter can make of d seconds: it takes a fifth at most, and adds less.
Spread(d) == {j \in Nat : 1000 * j <= 1199 * d /\ 1000 * j > 800 * d - 1000}

\* The jitter stays in that spread.
LEMMA JitterBounds ==
  ASSUME NEW d \in Nat, NEW draw \in Drawn
  PROVE  Jittered(d, draw) \in Nat /\ Jittered(d, draw) \in Spread(d)
<1> DEFINE m == 800 + (4 * draw) \div 10
<1>1. m \in 800..1199
  BY DEF Drawn
<1>2. \A n \in 800..1199 : d * n \in Nat /\ 800 * d <= d * n /\ d * n <= 1199 * d
  OBVIOUS
<1>3. d * m \in Nat /\ 800 * d <= d * m /\ d * m <= 1199 * d
  BY <1>1, <1>2
<1>4. \A k \in Nat : k \div 1000 \in Nat /\ 1000 * (k \div 1000) <= k
                     /\ 1000 * (k \div 1000) > k - 1000
  OBVIOUS
<1>5. Jittered(d, draw) = (d * m) \div 1000
  BY DEF Jittered
<1> HIDE DEF m
<1> QED
  BY <1>3, <1>4, <1>5 DEF Spread

\* A longer duration with a higher draw is no shorter after the jitter.
LEMMA JitterMonotone ==
  ASSUME NEW d \in Nat, NEW e \in Nat, d <= e,
         NEW low \in Drawn, NEW high \in Drawn, low <= high
  PROVE  Jittered(d, low) <= Jittered(e, high)
<1> DEFINE M(draw) == 800 + (4 * draw) \div 10
<1>1. M(low) \in Nat /\ M(high) \in Nat /\ M(low) <= M(high)
  BY DEF Drawn
<1> HIDE DEF M
<1>2. d * M(low) \in Nat /\ e * M(high) \in Nat /\ d * M(low) <= e * M(high)
  <2>1. \A i, j, k \in Nat : i <= j => k * i <= k * j /\ i * k <= j * k /\ i * k \in Nat
    OBVIOUS
  <2> QED
    BY <1>1, <2>1
<1>3. \A k, l \in Nat : k <= l => k \div 1000 <= l \div 1000
  OBVIOUS
<1>4. Jittered(d, low) = (d * M(low)) \div 1000 /\ Jittered(e, high) = (e * M(high)) \div 1000
  BY DEF Jittered, M
<1> QED
  BY <1>2, <1>3, <1>4

\* The base of the backoff is a natural number of seconds and at most two intervals.
LEMMA BaseBounds ==
  ASSUME NEW tier, NEW fails \in Nat, NEW count \in Nat
  PROVE  /\ Base(tier, fails, count) \in Nat
         /\ Base(tier, fails, count) <= 2 * Interval(tier)
BY Intervals DEF Base, AtLeast, MinPoll, OneMinute

\* The multiplier is a natural number.
LEMMA Multiplier ==
  ASSUME NEW fails \in Nat, fails > 0
  PROVE  Doublings[AtMost(fails, 6)] \in Nat \ {0}
<1>1. AtMost(fails, 6) \in 1..6
  BY DEF AtMost
<1>2. \A i \in 1..6 : Doublings[i] \in Nat \ {0}
  BY DEF Doublings
<1> QED
  BY <1>1, <1>2

\* NextPollDelay stays between minPollDelay and maxPollDelay.
LEMMA DelayWithinBounds ==
  ASSUME NEW tier, NEW fails \in Nat, NEW count \in Nat, NEW draw \in Drawn
  PROVE  NextPollDelay(tier, fails, count, draw) \in MinPoll..MaxPoll
<1>1. Backoff(tier, fails, count) \in Nat
  <2>1. \A a, b \in Nat : a * b \in Nat
    OBVIOUS
  <2> QED
    BY <2>1, BaseBounds, Multiplier DEF Backoff
<1>2. Jittered(Backoff(tier, fails, count), draw) \in Nat
  BY <1>1, JitterBounds, Zenon
<1>3. \A j \in Nat : AtLeast(AtMost(j, MaxPoll), MinPoll) \in MinPoll..MaxPoll
  BY DEF AtMost, AtLeast, MinPoll, MaxPoll, OneMinute, OneHour
<1> QED
  BY <1>2, <1>3, Zenon DEF NextPollDelay

\* Delays within the bounds are natural numbers, as other own delays are.
LEMMA BoundsAreNatural == \A delay \in MinPoll..MaxPoll : delay \in Nat
BY DEF MinPoll, MaxPoll, OneMinute, OneHour

\* No failure is within the bound on failures.
LEMMA NoFailure == 0 \in 0..MaxFailures
BY PaceAssumption DEF PaceAssumption

\* Without failures the delay is at most that of a quiet feed of the tier.
LEMMA DelayAtPace ==
  ASSUME NEW tier, NEW count \in Nat, NEW draw \in Drawn
  PROVE  NextPollDelay(tier, 0, count, draw) <= LongestPace(tier)
<1> DEFINE last == 999
           quiet == 2 * Interval(tier)
<1>1. last \in Drawn /\ draw <= last /\ quiet \in Nat
  BY Intervals DEF Drawn
<1>2. LongestPace(tier) = AtLeast(Jittered(quiet, last), MinPoll)
  BY DEF LongestPace
<1>3. 0 \in Nat /\ ~ 0 > 0 /\ \A b \in Nat : b * 1 = b
  OBVIOUS
<1>4. Base(tier, 0, count) \in Nat /\ Base(tier, 0, count) <= quiet
  BY <1>3, BaseBounds, Zenon
<1>5. Backoff(tier, 0, count) = Base(tier, 0, count)
  BY <1>3, <1>4, Zenon DEF Backoff
<1> HIDE DEF last, quiet
<1>6. Jittered(Backoff(tier, 0, count), draw) <= Jittered(quiet, last)
  BY <1>1, <1>4, <1>5, JitterMonotone, Zenon
<1>7. Jittered(Backoff(tier, 0, count), draw) \in Nat /\ Jittered(quiet, last) \in Nat
  BY <1>1, <1>4, <1>5, JitterBounds, Zenon
<1>8. \A j, k \in Nat :
        j <= k => AtLeast(AtMost(j, MaxPoll), MinPoll) <= AtLeast(k, MinPoll)
  BY DEF AtMost, AtLeast, MinPoll, MaxPoll, OneMinute, OneHour
<1> QED
  BY <1>2, <1>6, <1>7, <1>8, Zenon DEF NextPollDelay

\* One more failure up to the sixth lengthens the delay, whatever the two draws are,
\* unless it is the ceiling.
LEMMA DelayGrows ==
  ASSUME NEW tier, NEW n \in 1..5, NEW first \in Drawn, NEW second \in Drawn
  PROVE  \/ NextPollDelay(tier, n + 1, 0, second) > NextPollDelay(tier, n, 0, first)
         \/ NextPollDelay(tier, n + 1, 0, second) = MaxPoll
<1> DEFINE b == Interval(tier) * Doublings[n]
<1>1. Base(tier, n, 0) = Interval(tier) /\ Base(tier, n + 1, 0) = Interval(tier)
  BY DEF Base
<1>2. Doublings[n] \in 2..32 /\ Doublings[n + 1] = 2 * Doublings[n]
  BY DEF Doublings
<1>3. b \in Nat /\ b >= 360 /\ 2 * b \in Nat
  BY <1>2, Intervals
<1>4. Backoff(tier, n, 0) = b
  BY <1>1 DEF Backoff, AtMost
<1>5. Backoff(tier, n + 1, 0) = 2 * b
  <2>1. Backoff(tier, n + 1, 0) = Interval(tier) * Doublings[n + 1]
    BY <1>1 DEF Backoff, AtMost
  <2>2. \A i, k \in Nat : i * (2 * k) = 2 * (i * k)
    OBVIOUS
  <2> QED
    BY <2>1, <2>2, <1>2, Intervals
<1> HIDE DEF b
<1>6. Jittered(b, first) \in Spread(b) /\ Jittered(2 * b, second) \in Spread(2 * b)
  BY <1>3, JitterBounds, Zenon
<1>7. \A j \in Spread(b), k \in Spread(2 * b) :
        \/ AtLeast(AtMost(k, MaxPoll), MinPoll) > AtLeast(AtMost(j, MaxPoll), MinPoll)
        \/ AtLeast(AtMost(k, MaxPoll), MinPoll) = MaxPoll
  BY <1>3 DEF Spread, AtMost, AtLeast, MinPoll, MaxPoll, OneMinute, OneHour
<1> QED
  BY <1>4, <1>5, <1>6, <1>7, Zenon DEF NextPollDelay

\* HealthScore of a success is 100 or 80, by the age of the news alone.
LEMMA ScoreOfSuccess ==
  ASSUME NEW stale \in BOOLEAN
  PROVE  /\ HealthScore(0, TRUE, stale) \in 0..100
         /\ HealthScore(0, TRUE, stale) \in {80, 100}
         /\ HealthScore(0, TRUE, stale) = 80 <=> stale
BY DEF HealthScore, AtLeast

\* HealthScore of a failure is neither.
LEMMA ScoreOfFailure ==
  ASSUME NEW fails \in Nat \ {0}, NEW parsed \in BOOLEAN
  PROVE  HealthScore(fails, parsed, FALSE) \in 0..100 \ {80, 100}
BY DEF HealthScore, AtLeast

(***************************************************************************)
(* The steps                                                               *)
(***************************************************************************)
\* The invariant holds of a feed that was just imported.
LEMMA PaceInvInit == PaceInit => PaceInv
<1> SUFFICES ASSUME PaceInit PROVE PaceInv
  OBVIOUS
<1>1. PICK kind \in Kinds, mark \in Marks : feed = Fresh(kind, mark)
  BY DEF PaceInit
<1>2. 0 \in 0..MaxFailures /\ 0 \in 0..MaxChanges /\ 0 \in 0..MaxLosses
  BY PaceAssumption DEF PaceAssumption
<1>3. FeedRow
  BY <1>1, <1>2, Tiered DEF Fresh, FeedRow, Healths
<1>4. feed.failures = 0 /\ feed.score = 100 /\ feed.health = "UNKNOWN" /\ feed.tier \in Tiers
  BY <1>1, Tiered DEF Fresh
<1>5. Scored /\ Claimed /\ Histories
  BY <1>2, <1>4 DEF PaceInit, Scored, Claimed, Histories
<1> QED
  BY <1>3, <1>5 DEF PaceInit, PaceInv, WithinBounds, BackToItsPace, ClaimCurrent,
     SteadyClaim, Backed

\* A success that is stored: the failures are cleared, the delay is still the old one.
LEMMA StoredStep ==
  ASSUME PaceInv, InFetch,
         NEW health \in Healths, NEW stale \in BOOLEAN, health = "STALE" <=> stale,
         NEW fails \in {0, poll.failures}, NEW count \in Nat,
         MarkStored(health, stale, fails, count)
  PROVE  PaceInv'
<1> USE DEF PaceInv, MarkStored, InFetch
<1>1. fails \in 0..MaxFailures /\ fails < MaxFailures /\ 0 \in 0..MaxFailures
  BY PaceAssumption DEF PaceAssumption, Claimed, ClaimCurrent, Polls
<1>2. /\ HealthScore(0, TRUE, stale) \in {80, 100}
      /\ HealthScore(0, TRUE, stale) = 80 <=> stale
  BY ScoreOfSuccess, Zenon
<1>3. HealthScore(0, TRUE, stale) \in 0..100
  BY ScoreOfSuccess, Zenon
<1>4. FeedRow'
  BY <1>1, <1>3 DEF FeedRow
<1>5. /\ feed'.failures = 0 /\ feed'.health = health /\ feed'.delay = feed.delay
      /\ feed'.score = HealthScore(0, TRUE, stale) /\ feed'.tier = feed.tier
  BY DEF FeedRow
<1>6. Scored'
  BY <1>2, <1>5, Zenon DEF Scored
<1>7. poll' \in Polls
      /\ poll'.tier = poll.tier /\ poll'.failures = fails /\ poll'.step = "stored"
  <2>1. poll \in Polls
    BY DEF Claimed
  <2>2. fails \in Nat
    BY <1>1
  <2> QED
    BY <2>1, <2>2 DEF Polls
<1>8. Claimed' /\ Histories'
  BY <1>1, <1>7 DEF Claimed, Histories
<1>9. ClaimCurrent' /\ SteadyClaim'
  BY <1>1, <1>5, <1>7 DEF ClaimCurrent, SteadyClaim
<1>10. Backed'
  BY <1>7, NoPollAssumption DEF Backed
<1>11. WithinBounds' /\ BackToItsPace'
  BY <1>5 DEF WithinBounds, BackToItsPace, LongestPace
<1> QED
  BY <1>4, <1>6, <1>8, <1>9, <1>10, <1>11

\* A success that is not stored: only the poll goes on.
LEMMA UnstoredStep ==
  ASSUME PaceInv, InFetch,
         NEW fails \in {0, poll.failures}, NEW count \in Nat, MarkLost(fails, count)
  PROVE  PaceInv'
<1> USE DEF PaceInv, MarkLost, InFetch
<1>1. fails \in 0..MaxFailures /\ fails < MaxFailures
  BY PaceAssumption DEF PaceAssumption, Claimed, ClaimCurrent, Polls
<1>2. poll' \in Polls
      /\ poll'.tier = poll.tier /\ poll'.failures = fails /\ poll'.step = "unstored"
  <2>1. poll \in Polls
    BY DEF Claimed
  <2>2. fails \in Nat
    BY <1>1
  <2> QED
    BY <2>1, <2>2 DEF Polls
<1>3. losses' \in 0..MaxLosses
  BY PaceAssumption DEF PaceAssumption, Histories
<1>4. Claimed' /\ Histories'
  BY <1>1, <1>2, <1>3 DEF Claimed, Histories
<1>5. ClaimCurrent' /\ SteadyClaim'
  BY <1>1, <1>2 DEF ClaimCurrent, SteadyClaim
<1>6. Backed'
  BY DEF Backed
<1>7. FeedRow' /\ Scored' /\ WithinBounds' /\ BackToItsPace'
  BY DEF FeedRow, Scored, WithinBounds, BackToItsPace, LongestPace
<1> QED
  BY <1>4, <1>5, <1>6, <1>7

\* The next poll after an answer: its delay is within the bounds and, when scheduleNext is
\* given no failure, at most the longest at the claim's tier.
LEMMA ScheduleStep == PaceInv /\ ScheduleNext => PaceInv'
<1> SUFFICES ASSUME PaceInv, ScheduleNext PROVE PaceInv'
  OBVIOUS
<1> USE DEF PaceInv
<1>1. PICK draw \in Draws :
        feed' = [feed EXCEPT
                   !.delay = NextPollDelay(poll.tier, poll.failures, poll.count, draw)]
  BY DEF ScheduleNext
<1> DEFINE delay == NextPollDelay(poll.tier, poll.failures, poll.count, draw)
<1>2. poll # NoPoll /\ poll.tier \in Tiers /\ poll.failures \in Nat /\ poll.count \in Nat
      /\ poll.step # "fetching" /\ poll.step \in {"fetching", "stored", "unstored"}
  BY DEF ScheduleNext, Claimed, Polls
<1>3. delay \in MinPoll..MaxPoll
  BY <1>2, AllDrawn, DelayWithinBounds, Zenon
<1>4. poll.failures = 0 => delay <= LongestPace(poll.tier)
  BY <1>2, AllDrawn, DelayAtPace, Zenon
<1> HIDE DEF delay
<1>5. delay \in Nat
  BY <1>3, BoundsAreNatural, Zenon
<1>6. feed' = [feed EXCEPT !.delay = delay]
  BY <1>1 DEF delay
<1>7. FeedRow'
  BY <1>5, <1>6 DEF FeedRow
<1>8. /\ feed'.failures = feed.failures /\ feed'.health = feed.health
      /\ feed'.score = feed.score /\ feed'.tier = feed.tier /\ feed'.delay = delay
  BY <1>6 DEF FeedRow
<1>9. Scored'
  BY <1>8 DEF Scored
<1>10. /\ ended' = "answered" /\ paced' = poll.tier /\ poll' = NoPoll
       /\ changes' = changes /\ losses' = losses
       /\ steady' = IF poll.step = "stored" THEN AtMost(steady + 1, 2) ELSE steady
  BY DEF ScheduleNext
<1>11. /\ steady' \in 0..2 /\ (steady' = 2 => steady >= 1)
       /\ steady' >= 1 => steady >= 1 \/ poll.step = "stored"
  BY <1>10 DEF Histories, AtMost
<1>12. Claimed' /\ Histories'
  BY <1>2, <1>10, <1>11 DEF Claimed, Histories
<1>13. BackToItsPace'
  BY <1>2, <1>4, <1>8, <1>11 DEF BackToItsPace, SteadyClaim, LongestPace
<1>14. ClaimCurrent' /\ SteadyClaim' /\ Backed'
  BY <1>2, <1>8, <1>10, <1>11 DEF ClaimCurrent, SteadyClaim, Backed
<1>15. WithinBounds'
  BY <1>3, <1>8 DEF WithinBounds
<1> QED
  BY <1>7, <1>9, <1>12, <1>13, <1>14, <1>15

\* A poll that ends without writing leaves the row.
LEMMA LostStep == PaceInv /\ LosePoll => PaceInv'
<1> SUFFICES ASSUME PaceInv, LosePoll PROVE PaceInv'
  OBVIOUS
<1> USE DEF PaceInv, LosePoll
<1>1. losses' \in 0..MaxLosses
  BY PaceAssumption DEF PaceAssumption, Histories
<1>2. Claimed' /\ Histories'
  BY <1>1 DEF Claimed, Histories
<1>3. ClaimCurrent' /\ SteadyClaim' /\ Backed'
  BY DEF ClaimCurrent, SteadyClaim, Backed
<1>4. FeedRow' /\ Scored' /\ WithinBounds' /\ BackToItsPace'
  BY DEF FeedRow, Scored, WithinBounds, BackToItsPace, LongestPace
<1> QED
  BY <1>2, <1>3, <1>4

\* A failure: one more than the claim shows, and a delay that is its own or that of
\* the failures there are now.
LEMMA FailStep ==
  ASSUME PaceInv, InFetch,
         NEW health \in Healths, health # "STALE", NEW parsed \in BOOLEAN,
         NEW own \in Nat, NEW draw, own > 0 \/ draw \in Draws,
         Fail(health, parsed, own, draw)
  PROVE  PaceInv'
<1> USE DEF PaceInv, Fail, InFetch
<1>1. poll.failures \in Nat /\ poll.failures + 1 \in 0..MaxFailures /\ poll.tier \in Tiers
  BY PaceAssumption DEF PaceAssumption, Claimed, ClaimCurrent, Polls
<1> DEFINE n == poll.failures + 1
<1>2. n \in Nat \ {0} /\ n \in 0..MaxFailures
  BY <1>1
<1>3. HealthScore(n, parsed, FALSE) \in 0..100 \ {80, 100}
  BY <1>2, ScoreOfFailure
<1>4. own = 0 => NextPollDelay(poll.tier, n, 0, draw) \in MinPoll..MaxPoll
  <2>1. 0 \in Nat /\ n \in Nat /\ (own = 0 => ~ own > 0)
    BY <1>2
  <2> QED
    BY <2>1, AllDrawn, DelayWithinBounds, Zenon
<1> DEFINE delay == IF own > 0 THEN own ELSE NextPollDelay(poll.tier, n, 0, draw)
<1>5. delay \in Nat
  BY <1>4, BoundsAreNatural
<1>6. feed' = [feed EXCEPT !.failures = n, !.health = health,
                !.score = HealthScore(n, parsed, FALSE), !.delay = delay]
  OBVIOUS
<1>7. ended' = (IF own > 0 THEN "refused" ELSE "failed") /\ paced' = poll.tier
      /\ steady' = 0 /\ poll' = NoPoll /\ changes' = changes /\ losses' = losses
  OBVIOUS
<1> HIDE DEF n, Fail, InFetch
<1>8. FeedRow'
  BY <1>2, <1>3, <1>5, <1>6 DEF FeedRow
<1>9. /\ feed'.failures = n /\ feed'.health = health /\ feed'.delay = delay
      /\ feed'.score = HealthScore(n, parsed, FALSE)
  BY <1>6 DEF FeedRow
<1>10. Scored'
  BY <1>2, <1>3, <1>9 DEF Scored
<1>11. Claimed' /\ Histories'
  BY <1>1, <1>7 DEF Claimed, Histories
<1>12. WithinBounds'
  BY <1>4, <1>7, <1>9 DEF WithinBounds
<1>13. BackToItsPace' /\ ClaimCurrent' /\ SteadyClaim'
  BY <1>7 DEF BackToItsPace, ClaimCurrent, SteadyClaim
<1>14. Backed'
  BY <1>2, <1>7, <1>9 DEF Backed
<1> QED
  BY <1>8, <1>10, <1>11, <1>12, <1>13, <1>14

\* A change of grade and tier leaves the failures and the delay, and what was steady
\* at another tier is so no more.
LEMMA RatedStep ==
  ASSUME PaceInv, NEW priority \in 1..5, NEW tier \in Tiers, Rated(priority, tier)
  PROVE  PaceInv'
<1> USE DEF PaceInv, Rated
<1>1. FeedRow'
  BY DEF FeedRow
<1>2. /\ feed'.failures = feed.failures /\ feed'.health = feed.health
      /\ feed'.score = feed.score /\ feed'.delay = feed.delay /\ feed'.tier = tier
  BY DEF FeedRow
<1>3. Scored'
  BY <1>2 DEF Scored
<1>4. changes' \in 0..MaxChanges
  BY PaceAssumption DEF PaceAssumption, Histories
<1>5. steady' \in 0..2 /\ (steady' # 0 => steady' = steady /\ tier = feed.tier)
  BY DEF Histories
<1>6. Claimed' /\ Histories'
  BY <1>4, <1>5 DEF Claimed, Histories
<1>7. SteadyClaim'
  BY <1>2, <1>5 DEF SteadyClaim
<1>8. BackToItsPace'
  BY <1>2, <1>5 DEF BackToItsPace, LongestPace
<1>9. WithinBounds' /\ ClaimCurrent' /\ Backed'
  BY <1>2 DEF WithinBounds, ClaimCurrent, Backed
<1> QED
  BY <1>1, <1>3, <1>6, <1>7, <1>8, <1>9

\* A 304 leaves scheduleNext the failures the claim shows.
LEMMA NotModifiedStep == PaceInv /\ NotModified => PaceInv'
<1> SUFFICES ASSUME PaceInv, NotModified PROVE PaceInv'
  OBVIOUS
<1>1. InFetch /\ 0 \in Nat /\ poll.failures \in {0, poll.failures} /\ FALSE \in BOOLEAN
  BY DEF NotModified
<1>2. "HEALTHY" \in Healths /\ "HEALTHY" # "STALE"
  BY DEF Healths
<1>3. MarkStored("HEALTHY", FALSE, poll.failures, 0) \/ MarkLost(poll.failures, 0)
  BY DEF NotModified
<1> QED
  BY <1>1, <1>2, <1>3, StoredStep, UnstoredStep, Zenon

\* A body that parsed leaves it the candidates and no failure.
LEMMA ParsedStep == PaceInv /\ Parsed => PaceInv'
<1> SUFFICES ASSUME PaceInv, Parsed PROVE PaceInv'
  OBVIOUS
<1>1. InFetch /\ 0 \in {0, poll.failures} /\ Counts \subseteq Nat
  BY PaceAssumption DEF Parsed, PaceAssumption
<1>2. ASSUME NEW count \in Counts, MarkLost(0, count) PROVE PaceInv'
  BY <1>1, <1>2, UnstoredStep, Zenon
<1>3. ASSUME NEW count \in Counts, NEW dated \in BOOLEAN, NEW age \in Ages,
             LET stale == count > 0 /\ dated /\ age > StaleWindow(poll.tier)
             IN MarkStored(IF count = 0 THEN "EMPTY" ELSE IF stale THEN "STALE" ELSE "HEALTHY",
                           stale, 0, count)
      PROVE  PaceInv'
  <2> DEFINE stale == count > 0 /\ dated /\ age > StaleWindow(poll.tier)
             health == IF count = 0 THEN "EMPTY" ELSE IF stale THEN "STALE" ELSE "HEALTHY"
  <2>1. stale \in BOOLEAN
    BY Zenon
  <2>2. count = 0 => ~stale
    BY <1>1
  <2>3. MarkStored(health, stale, 0, count)
    BY <1>3
  <2> HIDE DEF stale
  <2>4. health \in Healths /\ (health = "STALE" <=> stale)
    BY <2>2 DEF Healths
  <2> HIDE DEF health
  <2> QED
    BY <1>1, <2>1, <2>3, <2>4, StoredStep, Zenon
<1> QED
  BY <1>2, <1>3, Zenon DEF Parsed

\* The three ways to fail.
LEMMA FailureSteps == PaceInv /\ (ParseFails \/ FetchErrs \/ Refused) => PaceInv'
<1> SUFFICES ASSUME PaceInv, ParseFails \/ FetchErrs \/ Refused PROVE PaceInv'
  OBVIOUS
<1> DEFINE Sick == Healths \ {"STALE"}
<1>1. {"PARSER_ERROR", "DEGRADED", "UNSTABLE", "QUARANTINED", "HTTP_ERROR", "DISABLED",
       "RATE_LIMITED"} \subseteq Sick
  BY DEF Healths
<1>2. \A health \in Sick : Unstable(health) \in Sick
  BY <1>1 DEF Unstable
<1>3. 0 \in Nat /\ TRUE \in BOOLEAN /\ FALSE \in BOOLEAN
  OBVIOUS
<1>4. \A n \in {OneHour, 12 * OneHour, 24 * OneHour} : n \in Nat /\ n > 0
  BY DEF OneHour, OneMinute
<1>5. InFetch
  BY DEF ParseFails, FetchErrs, Refused
<1>6. ASSUME NEW health \in Sick, NEW parsed \in BOOLEAN, NEW own \in Nat, NEW draw,
             own > 0 \/ draw \in Draws, Fail(health, parsed, own, draw)
      PROVE  PaceInv'
  BY <1>5, <1>6, FailStep, Zenon
<1>7. ASSUME ParseFails PROVE PaceInv'
  BY <1>1, <1>3, <1>6, <1>7, Zenon DEF ParseFails
<1>8. ASSUME FetchErrs PROVE PaceInv'
  BY <1>1, <1>2, <1>3, <1>6, <1>8, Zenon DEF FetchErrs
<1>9. ASSUME Refused PROVE PaceInv'
  <2>1. ASSUME NEW after \in RetryAfters,
               Fail(Unstable("RATE_LIMITED"), TRUE, IF after > 0 THEN after ELSE OneHour, 0)
        PROVE  PaceInv'
    <3> DEFINE own == IF after > 0 THEN after ELSE OneHour
    <3>1. own \in Nat /\ own > 0
      BY <1>4, PaceAssumption DEF PaceAssumption
    <3>2. Fail(Unstable("RATE_LIMITED"), TRUE, own, 0)
      BY <2>1
    <3> HIDE DEF own
    <3> QED
      BY <1>1, <1>2, <1>3, <1>6, <3>1, <3>2, Zenon
  <2> DEFINE day == 24 * OneHour
             half == 12 * OneHour
  <2>2. day \in Nat /\ day > 0 /\ half \in Nat /\ half > 0
    BY <1>4
  <2>3. \/ Fail("QUARANTINED", TRUE, day, 0) \/ Fail(Unstable("HTTP_ERROR"), TRUE, day, 0)
        \/ Fail(Unstable("DISABLED"), TRUE, half, 0)
        \/ \E after \in RetryAfters :
             Fail(Unstable("RATE_LIMITED"), TRUE, IF after > 0 THEN after ELSE OneHour, 0)
    BY <1>9 DEF Refused
  <2> HIDE DEF day, half
  <2> QED
    BY <1>1, <1>2, <1>3, <1>6, <2>1, <2>2, <2>3, Zenon
<1> QED
  BY <1>7, <1>8, <1>9

\* Every step keeps the invariant.
LEMMA PaceInvStep == PaceInv /\ [PaceNext]_paceVars => PaceInv'
<1> SUFFICES ASSUME PaceInv, [PaceNext]_paceVars PROVE PaceInv'
  OBVIOUS
<1>1. ASSUME BeginPoll PROVE PaceInv'
  <2>1. poll' = [tier |-> feed.tier, failures |-> feed.failures, count |-> 0,
                 step |-> "fetching"]
        /\ UNCHANGED <<feed, ended, paced, steady, changes, losses>>
        /\ feed.failures < MaxFailures /\ poll = NoPoll
    BY <1>1 DEF BeginPoll
  <2>2. Claimed' /\ ClaimCurrent' /\ SteadyClaim'
    BY <2>1 DEF PaceInv, FeedRow, Claimed, ClaimCurrent, SteadyClaim, Polls
  <2>3. FeedRow' /\ Scored' /\ Histories'
    BY <2>1 DEF PaceInv, FeedRow, Scored, Histories
  <2> QED
    BY <2>1, <2>2, <2>3 DEF PaceInv, WithinBounds, BackToItsPace, Backed
<1>2. ASSUME Patch PROVE PaceInv'
  BY <1>2, RatedStep, PaceAssumption DEF Patch, PaceAssumption, PaceInv, FeedRow
<1>3. ASSUME Import PROVE PaceInv'
  BY <1>3, RatedStep, Tiered, Zenon DEF Import
<1>4. CASE UNCHANGED paceVars
  BY <1>4 DEF paceVars, PaceInv, FeedRow, Scored, Claimed, Histories, WithinBounds,
              BackToItsPace, ClaimCurrent, SteadyClaim, Backed, LongestPace
<1> QED
  BY <1>1, <1>2, <1>3, <1>4, NotModifiedStep, ParsedStep, ScheduleStep, FailureSteps, LostStep
     DEF PaceNext

(***************************************************************************)
(* The theorems                                                            *)
(***************************************************************************)
\* PaceInv is an invariant of the pace.
THEOREM PaceInductive == PaceSpec => []PaceInv
BY PaceInvInit, PaceInvStep, PTL DEF PaceSpec

\* The row, its score and its health fit each other after every poll and edit
\* (MarkFeedSuccess, MarkFeedFailure, HealthScore).
THEOREM RowFits == PaceSpec => []PaceTypeOK
<1>1. PaceInv => PaceTypeOK
  BY DEF PaceInv, PaceTypeOK, FeedRow, Scored, Claimed, Histories
<1> QED
  BY <1>1, PaceInductive, PTL

\* Whatever the tier, the failures, the candidates and the draw, the next poll is no
\* nearer than minPollDelay and no later than maxPollDelay (NextPollDelay).
THEOREM DelaysBounded == PaceSpec => []WithinBounds
<1>1. PaceInv => WithinBounds
  BY DEF PaceInv
<1> QED
  BY <1>1, PaceInductive, PTL

\* Once two successes are stored and scheduled the feed is polled at its tier's pace, however
\* many failures went before and whatever other writes were lost (ProcessFeed, scheduleNext).
THEOREM OutagesForgotten == PaceSpec => []BackToItsPace
<1>1. PaceInv => BackToItsPace
  BY DEF PaceInv
<1> QED
  BY <1>1, PaceInductive, PTL

\* While failures follow each other at one tier, each delay exceeds the one before it
\* until the ceiling or the sixth doubling (handleFetchError, NextPollDelay).
THEOREM FailuresBackOff == PaceSpec => BacksOff
<1> DEFINE Step ==
      /\ ended = "failed" /\ ended' = "failed" /\ poll # NoPoll /\ poll' = NoPoll
      /\ poll.tier = paced /\ poll.failures < 6
      => feed'.delay > feed.delay \/ feed'.delay = MaxPoll
<1>1. PaceInv /\ PaceInv' /\ [PaceNext]_paceVars => [Step]_paceVars
  <2> SUFFICES ASSUME PaceInv, PaceInv', PaceNext,
                      ended = "failed", ended' = "failed", poll # NoPoll, poll' = NoPoll,
                      poll.tier = paced, poll.failures < 6
               PROVE  feed'.delay > feed.delay \/ feed'.delay = MaxPoll
    OBVIOUS
  <2>0. (ParseFails \/ FetchErrs \/ Refused) /\ poll.step = "fetching"
    <3>1. ~BeginPoll /\ ~Patch /\ ~Import /\ ~ScheduleNext /\ ~LosePoll
      BY DEF BeginPoll, Patch, Import, Rated, ScheduleNext, LosePoll
    <3>2. ASSUME NEW fails \in {0, poll.failures}, NEW count \in Nat,
                 NEW how \in {"stored", "unstored"},
                 poll' = [poll EXCEPT !.step = how, !.failures = fails, !.count = count]
          PROVE  FALSE
      <4>1. poll' \in Polls
        <5>1. poll \in Polls /\ fails \in Nat
          BY DEF PaceInv, Claimed, Polls
        <5> QED
          BY <3>2, <5>1 DEF Polls
      <4> QED
        BY <4>1, NoPollAssumption
    <3>3. ~NotModified
      <4>1. NotModified => \E how \in {"stored", "unstored"} :
              poll' = [poll EXCEPT !.step = how, !.failures = poll.failures, !.count = 0]
        BY DEF NotModified, MarkStored, MarkLost
      <4> QED
        BY <3>2, <4>1
    <3>4. ~Parsed
      <4>1. Parsed => \E count \in Counts : \E how \in {"stored", "unstored"} :
              poll' = [poll EXCEPT !.step = how, !.failures = 0, !.count = count]
        BY DEF Parsed, MarkStored, MarkLost
      <4> QED
        BY <3>2, <4>1, PaceAssumption DEF PaceAssumption
    <3> QED
      BY <3>1, <3>3, <3>4 DEF PaceNext, ParseFails, FetchErrs, Refused, InFetch
  <2>1. PICK first \in Draws : feed.delay = NextPollDelay(paced, feed.failures, 0, first)
    BY <2>0 DEF PaceInv, Backed
  <2>2. PICK second \in Draws :
          feed'.delay = NextPollDelay(paced', feed'.failures, 0, second)
    BY DEF PaceInv, Backed
  <2>3. feed.failures = poll.failures /\ feed.failures \in 1..5
    BY <2>0 DEF PaceInv, Backed, ClaimCurrent, FeedRow
  <2>4. paced' = paced /\ feed'.failures = feed.failures + 1
    <3>2. \A health, parsed, own, draw :
            Fail(health, parsed, own, draw) =>
              paced' = poll.tier /\ feed'.failures = poll.failures + 1
      BY DEF Fail, PaceInv, FeedRow
    <3>6. \E health, parsed, own, draw : Fail(health, parsed, own, draw)
      BY <2>0, Zenon DEF ParseFails, FetchErrs, Refused
    <3> QED
      BY <3>2, <3>6, <2>3
  <2> QED
    BY <2>1, <2>2, <2>3, <2>4, AllDrawn, DelayGrows, Zenon
<1> QED
  BY <1>1, PaceInductive, PTL DEF PaceSpec, BacksOff

(***************************************************************************)
(* Startup: a migration is committed once and one operator is founded, however*)
(* the starts interleave, and an insert collides only where it is said to. *)
(***************************************************************************)
USE StartupAssumption DEF StartupAssumption


(***************************************************************************)
(* The inductive invariant                                                 *)
(***************************************************************************)
\* Only one process has the statements of a migration in an open transaction, and
\* no process looks at a migration that is not there.
Migrating ==
  /\ \A p \in Processes : place[p] \in {"missing", "applying"} => version[p] \in 1..Migrations
  /\ \A p \in Processes : place[p] = "applying" => version[p] \notin applied
  /\ \A p, q \in Processes : place[p] = "applying" /\ place[q] = "applying" => p = q

\* An insert has an id, and a repair nothing met has read the maximum there still is,
\* with no insert open.
Repairing ==
  \A p \in Processes :
    /\ place[p] = "inserting" => held[p] # 0
    /\ place[p] = "setting" /\ ~met[p] =>
         /\ \A q \in Processes : place[q] # "inserting"
         /\ \A r \in rows : r <= held[p]

\* While no load and no crossed repair is on record, the sequence is past every row,
\* and each open insert has an id of its own that it passed too.
SequencePast ==
  ~suspect =>
    /\ \A r \in rows : r < next
    /\ \A p \in Processes : place[p] = "inserting" => held[p] \notin rows /\ held[p] < next
    /\ \A p, q \in Processes :
         place[p] = "inserting" /\ place[q] = "inserting" /\ held[p] = held[q] => p = q

\* StartupTypeOK in two halves, the columns and the marks.
Columns ==
  /\ place \in [Processes -> Stages] /\ version \in [Processes -> 1..Migrations + 1]
  /\ held \in [Processes -> 0..MaxId]
  /\ applied \subseteq 1..Migrations
  /\ effects = [v \in 1..Migrations |-> IF v \in applied THEN 1 ELSE 0]
  /\ operators \in 0..1
  /\ rows \subseteq 1..MaxId /\ next \in 1..MaxId + 1
  /\ faults \in 0..MaxFaults /\ loads \in 0..MaxLoads

Marked == met \in [Processes -> BOOLEAN] /\ suspect \in BOOLEAN

StartupInv == Columns /\ Marked /\ Migrating /\ Repairing /\ SequencePast

(***************************************************************************)
(* The maximum of a table                                                  *)
(***************************************************************************)
\* A set of naturals that is not empty has a least element.
LEMMA LeastNatural ==
  ASSUME NEW T \in SUBSET Nat, T # {}
  PROVE  \E x \in T : \A y \in T : x <= y
<1>1. PICK x \in T : \A y \in T : ~ (<<y, x>> \in OpToRel(<, Nat))
  BY NatLessThanWellFounded, WFMin
<1>2. \A y \in T : ~ (y < x)
  BY <1>1 DEF OpToRel
<1> QED
  BY <1>2

\* MAX(id), 0 for an empty table, is no less than any id of the table.
LEMMA LargestIsLargest ==
  ASSUME rows \subseteq 1..MaxId
  PROVE  Largest \in 0..MaxId /\ \A r \in rows : r <= Largest
<1>1. CASE rows = {}
  BY <1>1 DEF Largest
<1>2. CASE rows # {}
  <2> DEFINE U == {MaxId - r : r \in rows}
  <2>1. U \in SUBSET Nat
    OBVIOUS
  <2>2. PICK o \in rows : TRUE
    BY <1>2
  <2>3. MaxId - o \in U
    BY <2>2
  <2>4. PICK u \in U : \A v \in U : u <= v
    BY <2>1, <2>3, LeastNatural
  <2>5. PICK x \in rows : u = MaxId - x
    OBVIOUS
  <2>6. \A y \in rows : MaxId - y \in U
    OBVIOUS
  <2>7. \A y \in rows : x >= y
    BY <2>4, <2>5, <2>6
  <2> HIDE DEF U
  <2>8. \E z \in rows : \A y \in rows : z >= y
    BY <2>7
  <2>9. Max(rows) \in rows /\ \A y \in rows : Max(rows) >= y
    BY <2>8, Zenon DEF Max
  <2>10. Largest = Max(rows)
    BY <1>2 DEF Largest
  <2>11. Largest \in rows /\ \A y \in rows : Largest >= y
    BY <2>9, <2>10, Zenon
  <2> HIDE DEF Largest
  <2>12. \A m \in rows : m \in 0..MaxId /\ \A y \in rows : m >= y => y <= m
    OBVIOUS
  <2> QED
    BY <2>11, <2>12
<1> QED
  BY <1>1, <1>2

(***************************************************************************)
(* Inductiveness                                                           *)
(***************************************************************************)
\* The invariant holds of an empty database.
LEMMA StartupInvInit == StartupInit => StartupInv
<1> SUFFICES ASSUME StartupInit PROVE StartupInv
  OBVIOUS
<1>1. effects = [v \in 1..Migrations |-> IF v \in applied THEN 1 ELSE 0]
  BY DEF StartupInit
<1>2. /\ place \in [Processes -> Stages] /\ version \in [Processes -> 1..Migrations + 1]
      /\ held \in [Processes -> 0..MaxId]
  BY DEF StartupInit, Stages
<1>3. Columns
  BY <1>1, <1>2 DEF StartupInit, Columns
<1>4. Marked
  BY Zenon DEF StartupInit, Marked
<1>5. Migrating /\ Repairing /\ SequencePast
  BY DEF StartupInit, Migrating, Repairing, SequencePast
<1> QED
  BY <1>3, <1>4, <1>5 DEF StartupInv

\* Every step keeps the columns, and the counts of committed migrations and operators.
LEMMA ColumnsStep ==
  ASSUME StartupInv, [StartupNext]_startupVars
  PROVE  Columns'
<1> USE DEF Columns, Stages, Go, Exit, memory, schema, serial
<1>0. \A m, n \in Nat : m \in 0..n /\ m > 0 => m - 1 \in 0..n
  OBVIOUS
<1>1. ASSUME NEW p \in Processes, Start(p) PROVE Columns'
  BY <1>1 DEF Start, StartupInv
<1>2. ASSUME NEW p \in Processes, Check(p) PROVE Columns'
  <2>1. version[p] \in applied => version[p] + 1 \in 1..Migrations + 1
    BY DEF StartupInv
  <2>2. version' \in [Processes -> 1..Migrations + 1]
    BY <1>2, <2>1 DEF Check, StartupInv
  <2>3. place' \in [Processes -> Stages]
    BY <1>2 DEF Check, StartupInv
  <2> QED
    BY <1>2, <2>2, <2>3 DEF Check, StartupInv
<1>3. ASSUME NEW p \in Processes, Apply(p) PROVE Columns'
  BY <1>3 DEF Apply, StartupInv
<1>4. ASSUME NEW p \in Processes, CommitMigration(p) PROVE Columns'
  <2>1. version[p] \in 1..Migrations /\ version[p] \notin applied
    BY <1>4 DEF CommitMigration, StartupInv, Migrating
  <2>2. version[p] + 1 \in 1..Migrations + 1
    BY <2>1
  <2>3. version' \in [Processes -> 1..Migrations + 1]
    BY <1>4, <2>2 DEF CommitMigration, StartupInv
  <2>4. applied' \subseteq 1..Migrations
    BY <1>4, <2>1 DEF CommitMigration, StartupInv
  <2>5. effects' = [effects EXCEPT ![version[p]] = 1]
    BY <1>4, <2>1 DEF CommitMigration, StartupInv
  <2>6. effects' = [v \in 1..Migrations |-> IF v \in applied' THEN 1 ELSE 0]
    BY <1>4, <2>1, <2>5 DEF CommitMigration, StartupInv
  <2> QED
    BY <1>4, <2>3, <2>4, <2>6 DEF CommitMigration, StartupInv
<1>5. ASSUME NEW p \in Processes, ReadMax(p) PROVE Columns'
  BY <1>5, LargestIsLargest DEF ReadMax, StartupInv
<1>6. ASSUME NEW p \in Processes, SetVal(p) PROVE Columns'
  BY <1>6 DEF SetVal, StartupInv
<1>7. ASSUME NEW p \in Processes, SeedReference(p) PROVE Columns'
  BY <1>7 DEF SeedReference, StartupInv
<1>8. ASSUME NEW p \in Processes, CountOperators(p) PROVE Columns'
  BY <1>8 DEF CountOperators, StartupInv
<1>9. ASSUME NEW p \in Processes, FoundOperator(p) PROVE Columns'
  BY <1>9 DEF FoundOperator, StartupInv
<1>10. ASSUME NEW p \in Processes, SyncFails(p) PROVE Columns'
  BY <1>0, <1>10 DEF SyncFails, StartupInv
<1>11. ASSUME NEW p \in Processes, Draw(p) PROVE Columns'
  BY <1>11 DEF Draw, StartupInv
<1>12. ASSUME NEW p \in Processes, StoreRow(p) PROVE Columns'
  <2>1. held[p] \in 1..MaxId
    BY <1>12 DEF StoreRow, StartupInv, Repairing
  <2>2. rows' \subseteq 1..MaxId
    BY <1>12, <2>1 DEF StoreRow, StartupInv
  <2>3. held' \in [Processes -> 0..MaxId] /\ place' \in [Processes -> Stages]
    BY <1>12 DEF StoreRow, StartupInv
  <2> QED
    BY <1>12, <2>2, <2>3 DEF StoreRow, StartupInv
<1>13. ASSUME NEW p \in Processes, Crash(p) PROVE Columns'
  BY <1>0, <1>13 DEF Crash, StartupInv
<1>14. ASSUME Load PROVE Columns'
  BY <1>0, <1>14 DEF Load, StartupInv
<1>15. CASE UNCHANGED startupVars
  BY <1>15 DEF startupVars, StartupInv
<1> QED
  BY <1>1, <1>2, <1>3, <1>4, <1>5, <1>6, <1>7, <1>8, <1>9, <1>10, <1>11, <1>12, <1>13,
     <1>14, <1>15 DEF StartupNext, ComeUp

\* Every step leaves the marks Boolean.
LEMMA MarkedStep ==
  ASSUME StartupInv, [StartupNext]_startupVars
  PROVE  Marked'
<1> USE DEF Marked, StartupInv, memory, schema, serial
<1>1. ASSUME NEW p \in Processes, Start(p) PROVE Marked'
  BY <1>1, Zenon DEF Start
<1>2. ASSUME NEW p \in Processes, Check(p) PROVE Marked'
  BY <1>2, Zenon DEF Check
<1>3. ASSUME NEW p \in Processes, Apply(p) PROVE Marked'
  BY <1>3, Zenon DEF Apply
<1>4. ASSUME NEW p \in Processes, CommitMigration(p) PROVE Marked'
  BY <1>4, Zenon DEF CommitMigration
<1>5. ASSUME NEW p \in Processes, ReadMax(p) PROVE Marked'
  BY <1>5, Zenon DEF ReadMax
<1>6. ASSUME NEW p \in Processes, SetVal(p) PROVE Marked'
  BY <1>6, Zenon DEF SetVal
<1>7. ASSUME NEW p \in Processes, SeedReference(p) PROVE Marked'
  BY <1>7, Zenon DEF SeedReference
<1>8. ASSUME NEW p \in Processes, CountOperators(p) PROVE Marked'
  BY <1>8, Zenon DEF CountOperators
<1>9. ASSUME NEW p \in Processes, FoundOperator(p) PROVE Marked'
  BY <1>9, Zenon DEF FoundOperator
<1>10. ASSUME NEW p \in Processes, SyncFails(p) PROVE Marked'
  BY <1>10, Zenon DEF SyncFails
<1>11. ASSUME NEW p \in Processes, Draw(p) PROVE Marked'
  BY <1>11, Zenon DEF Draw
<1>12. ASSUME NEW p \in Processes, StoreRow(p) PROVE Marked'
  BY <1>12, Zenon DEF StoreRow
<1>13. ASSUME NEW p \in Processes, Crash(p) PROVE Marked'
  BY <1>13, Zenon DEF Crash
<1>14. ASSUME Load PROVE Marked'
  BY <1>14, Zenon DEF Load
<1>15. CASE UNCHANGED startupVars
  BY <1>15, Zenon DEF startupVars
<1> QED
  BY <1>1, <1>2, <1>3, <1>4, <1>5, <1>6, <1>7, <1>8, <1>9, <1>10, <1>11, <1>12, <1>13,
     <1>14, <1>15 DEF StartupNext, ComeUp

\* The processes at a migration: the transaction of one waits for that of the other,
\* and who finds the version recorded exits.
LEMMA MigratingStep ==
  ASSUME StartupInv, [StartupNext]_startupVars
  PROVE  Migrating'
<1> USE DEF Columns, Stages, Go, Exit, memory, schema, serial, StartupInv, Migrating
<1>1. ASSUME NEW p \in Processes, Start(p) PROVE Migrating'
  BY <1>1 DEF Start
<1>2. ASSUME NEW p \in Processes, Check(p) PROVE Migrating'
  BY <1>2 DEF Check
<1>3. ASSUME NEW p \in Processes, Apply(p) PROVE Migrating'
  BY <1>3 DEF Apply
<1>4. ASSUME NEW p \in Processes, CommitMigration(p) PROVE Migrating'
  BY <1>4 DEF CommitMigration
<1>5. ASSUME NEW p \in Processes, ReadMax(p) PROVE Migrating'
  BY <1>5 DEF ReadMax
<1>6. ASSUME NEW p \in Processes, SetVal(p) PROVE Migrating'
  BY <1>6 DEF SetVal
<1>7. ASSUME NEW p \in Processes, SeedReference(p) PROVE Migrating'
  BY <1>7 DEF SeedReference
<1>8. ASSUME NEW p \in Processes, CountOperators(p) PROVE Migrating'
  BY <1>8 DEF CountOperators
<1>9. ASSUME NEW p \in Processes, FoundOperator(p) PROVE Migrating'
  BY <1>9 DEF FoundOperator
<1>10. ASSUME NEW p \in Processes, SyncFails(p) PROVE Migrating'
  BY <1>10 DEF SyncFails
<1>11. ASSUME NEW p \in Processes, Draw(p) PROVE Migrating'
  BY <1>11 DEF Draw
<1>12. ASSUME NEW p \in Processes, StoreRow(p) PROVE Migrating'
  BY <1>12 DEF StoreRow
<1>13. ASSUME NEW p \in Processes, Crash(p) PROVE Migrating'
  BY <1>13 DEF Crash
<1>14. ASSUME Load PROVE Migrating'
  BY <1>14 DEF Load
<1>15. CASE UNCHANGED startupVars
  BY <1>15 DEF startupVars
<1> QED
  BY <1>1, <1>2, <1>3, <1>4, <1>5, <1>6, <1>7, <1>8, <1>9, <1>10, <1>11, <1>12, <1>13,
     <1>14, <1>15 DEF StartupNext, ComeUp

\* A repair that nothing met still knows the maximum: what could raise it, a commit,
\* needs an insert, and whoever opens one marks the repairs under way.
LEMMA RepairingStep ==
  ASSUME StartupInv, [StartupNext]_startupVars
  PROVE  Repairing'
<1> USE DEF Columns, Marked, Stages, Go, Exit, memory, schema, serial, StartupInv,
        Repairing
<1>1. ASSUME NEW p \in Processes, Start(p) PROVE Repairing'
  BY <1>1 DEF Start
<1>2. ASSUME NEW p \in Processes, Check(p) PROVE Repairing'
  BY <1>2 DEF Check
<1>3. ASSUME NEW p \in Processes, Apply(p) PROVE Repairing'
  BY <1>3 DEF Apply
<1>4. ASSUME NEW p \in Processes, CommitMigration(p) PROVE Repairing'
  BY <1>4 DEF CommitMigration
<1>5. ASSUME NEW p \in Processes, ReadMax(p) PROVE Repairing'
  BY <1>5, LargestIsLargest DEF ReadMax
<1>6. ASSUME NEW p \in Processes, SetVal(p) PROVE Repairing'
  BY <1>6 DEF SetVal
<1>7. ASSUME NEW p \in Processes, SeedReference(p) PROVE Repairing'
  BY <1>7 DEF SeedReference
<1>8. ASSUME NEW p \in Processes, CountOperators(p) PROVE Repairing'
  BY <1>8 DEF CountOperators
<1>9. ASSUME NEW p \in Processes, FoundOperator(p) PROVE Repairing'
  BY <1>9 DEF FoundOperator
<1>10. ASSUME NEW p \in Processes, SyncFails(p) PROVE Repairing'
  BY <1>10 DEF SyncFails
<1>11. ASSUME NEW p \in Processes, Draw(p) PROVE Repairing'
  <2>1. \A q \in Processes : place'[q] = "setting" => met'[q]
    BY <1>11, Zenon DEF Draw
  <2>2. \A q \in Processes : place'[q] = "inserting" => held'[q] # 0
    BY <1>11 DEF Draw
  <2> QED
    BY <2>1, <2>2
<1>12. ASSUME NEW p \in Processes, StoreRow(p) PROVE Repairing'
  BY <1>12 DEF StoreRow
<1>13. ASSUME NEW p \in Processes, Crash(p) PROVE Repairing'
  BY <1>13 DEF Crash
<1>14. ASSUME Load PROVE Repairing'
  BY <1>14 DEF Load
<1>15. CASE UNCHANGED startupVars
  BY <1>15 DEF startupVars
<1> QED
  BY <1>1, <1>2, <1>3, <1>4, <1>5, <1>6, <1>7, <1>8, <1>9, <1>10, <1>11, <1>12, <1>13,
     <1>14, <1>15 DEF StartupNext, ComeUp

\* The sequence stays past the table: a draw takes the id before it, a commit adds
\* such an id, and a repair that nothing met moves it past the maximum.
LEMMA SequencePastStep ==
  ASSUME StartupInv, [StartupNext]_startupVars
  PROVE  SequencePast'
<1> USE DEF Columns, Marked, Stages, Go, Exit, memory, schema, serial, StartupInv, SequencePast
<1>1. ASSUME NEW p \in Processes, Start(p) PROVE SequencePast'
  BY <1>1 DEF Start
<1>2. ASSUME NEW p \in Processes, Check(p) PROVE SequencePast'
  BY <1>2 DEF Check
<1>3. ASSUME NEW p \in Processes, Apply(p) PROVE SequencePast'
  BY <1>3 DEF Apply
<1>4. ASSUME NEW p \in Processes, CommitMigration(p) PROVE SequencePast'
  BY <1>4 DEF CommitMigration
<1>5. ASSUME NEW p \in Processes, ReadMax(p) PROVE SequencePast'
  BY <1>5 DEF ReadMax
<1>6. ASSUME NEW p \in Processes, SetVal(p) PROVE SequencePast'
  BY <1>6 DEF SetVal, Repairing
<1>7. ASSUME NEW p \in Processes, SeedReference(p) PROVE SequencePast'
  BY <1>7 DEF SeedReference
<1>8. ASSUME NEW p \in Processes, CountOperators(p) PROVE SequencePast'
  BY <1>8 DEF CountOperators
<1>9. ASSUME NEW p \in Processes, FoundOperator(p) PROVE SequencePast'
  BY <1>9 DEF FoundOperator
<1>10. ASSUME NEW p \in Processes, SyncFails(p) PROVE SequencePast'
  BY <1>10 DEF SyncFails
<1>11. ASSUME NEW p \in Processes, Draw(p) PROVE SequencePast'
  BY <1>11 DEF Draw
<1>12. ASSUME NEW p \in Processes, StoreRow(p) PROVE SequencePast'
  BY <1>12 DEF StoreRow
<1>13. ASSUME NEW p \in Processes, Crash(p) PROVE SequencePast'
  BY <1>13 DEF Crash
<1>14. ASSUME Load PROVE SequencePast'
  BY <1>14 DEF Load
<1>15. CASE UNCHANGED startupVars
  BY <1>15 DEF startupVars
<1> QED
  BY <1>1, <1>2, <1>3, <1>4, <1>5, <1>6, <1>7, <1>8, <1>9, <1>10, <1>11, <1>12, <1>13,
     <1>14, <1>15 DEF StartupNext, ComeUp

(***************************************************************************)
(* The theorems                                                            *)
(***************************************************************************)
\* Every step of a start keeps the invariant.
LEMMA StartupStep == StartupInv /\ [StartupNext]_startupVars => StartupInv'
  BY ColumnsStep, MarkedStep, MigratingStep, RepairingStep, SequencePastStep DEF StartupInv

\* StartupInv is an invariant of the starts.
THEOREM StartupInductive == StartupSpec => []StartupInv
  BY StartupStep, StartupInvInit, PTL DEF StartupSpec

\* However the api and worker processes race, crash and start again, the statements
\* of a migration are committed exactly once if its version is recorded and never
\* otherwise (Migrate), and at most one operator is seeded (EnsureAdminSeed).
THEOREM MigratedOnce == StartupSpec => []StartupTypeOK
<1>1. StartupInv => StartupTypeOK
  BY Zenon DEF StartupInv, Columns, Marked, StartupTypeOK
<1> QED
  BY <1>1, StartupInductive, PTL

\* An insert meets a row with its id only after rows were loaded past the sequence or
\* a repair was crossed by an insert (SyncSequences).
THEOREM SequencesAhead == StartupSpec => []CollisionsExplained
<1>1. StartupInv => CollisionsExplained
  BY DEF StartupInv, SequencePast, CollisionsExplained, Collides
<1> QED
  BY <1>1, StartupInductive, PTL

HIDE StartupAssumption DEF StartupAssumption

(***************************************************************************)
(* The composition that a run checks: its parts share no state, and every  *)
(* step of one leaves the others alone.                                    *)
(***************************************************************************)
FeedsInv == GuardTypes /\ GuardTimers /\ RegistryIInv /\ PaceInv /\ StartupInv

\* A step of the composition is a step or a stutter of each part.
LEMMA FeedsParts ==
  [Guard \/ Registry \/ Pace \/ Starting \/ Idle]_feedsVars =>
    /\ [Next]_vars /\ [RegistryNext]_registryVars
    /\ [PaceNext]_paceVars /\ [StartupNext]_startupVars
  BY DEF Guard, Registry, Pace, Starting, Idle, feedsVars

\* Whichever part a behaviour is about, the types of all four hold, and every delay
\* is between minPollDelay and maxPollDelay.
THEOREM FeedsTypeCorrect == FeedsSpec => []FeedsTypeOK
<1>1. FeedsInit => FeedsInv
  <2> SUFFICES ASSUME FeedsInit PROVE FeedsInv
    OBVIOUS
  <2>1. GuardTypes /\ GuardTimers
    BY GuardBegins DEF FeedsInit
  <2>2. RegistryIInv
    BY RegistryBegins DEF FeedsInit
  <2>3. PaceInv /\ StartupInv
    BY PaceInvInit, StartupInvInit DEF FeedsInit
  <2> QED
    BY <2>1, <2>2, <2>3 DEF FeedsInv
<1>2. FeedsInv /\ [Guard \/ Registry \/ Pace \/ Starting \/ Idle]_feedsVars => FeedsInv'
  BY FeedsParts, GuardTypesStep, GuardTimersStep, RegistryStep, PaceInvStep, StartupStep
     DEF FeedsInv
<1>3. FeedsInv => FeedsTypeOK
  <2> SUFFICES ASSUME FeedsInv PROVE FeedsTypeOK
    OBVIOUS
  <2>1. TypeOK
    BY DEF FeedsInv, GuardTypes, GuardTimers, TypeOK
  <2>2. RegistryTypeOK
    BY DEF FeedsInv, RegistryIInv
  <2>3. PaceTypeOK /\ WithinBounds
    BY DEF FeedsInv, PaceInv, PaceTypeOK, FeedRow, Scored, Claimed, Histories
  <2>4. StartupTypeOK
    BY Zenon DEF FeedsInv, StartupInv, Columns, Marked, StartupTypeOK
  <2> QED
    BY <2>1, <2>2, <2>3, <2>4 DEF FeedsTypeOK
<1> QED
  BY <1>1, <1>2, <1>3, PTL DEF FeedsSpec
=============================================================================
