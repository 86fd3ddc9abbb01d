----------------------------- MODULE Api_proofs -----------------------------
(***************************************************************************)
(* What the specifications behind the public API guarantee beside          *)
(* PushRegistration: the limit on requests (RateLimiter), the pages of a list*)
(* (Reading) and the order of a digest (Digest), each for every value of its*)
(* constants; and, of the composition which a run checks, that it keeps the*)
(* types of all four.                                                      *)
(***************************************************************************)
EXTENDS MCApi, PushRegistration_proofs, FiniteSetTheorems

(***************************************************************************)
(* RateLimiter: the limit on requests is a bucket of tokens by client, for any*)
(* rate, any clients and any number of calls at a time.                    *)
(***************************************************************************)
\* What the bucket of c held at a time, without the cap: a line that only grants lower.
Line(c, t) == tokens[c] + (t - updated[c]) * Refill

\* No line is below nothing now; a call is not late; and a bucket was thrown away only
\* after it could fill up again, later than all that its client was ever let through for.
LimiterInv ==
  /\ LimiterTypeOK
  /\ \A h \in Calls : caller[h] # NoClient => now - readAt[h] <= MaxLag
  /\ \A c \in Clients :
       /\ 0 <= Line(c, now) /\ 0 <= tokens[c] + MaxLag * Refill
       /\ allowed[c] * Cost + tokens[c] <= Full + updated[c] * Refill
       /\ c \in buckets \/ allowed[c] = 0 \/ lastGC - updated[c] > GCPeriod

LEMMA Lines ==
  ASSUME NEW a \in Int, NEW b \in Int, NEW r \in Nat
  PROVE  /\ (a - b) * r = a * r - b * r /\ (a + b) * r = a * r + b * r
         /\ a * r \in Int /\ b * r \in Int /\ (a - b) * r \in Int
         /\ a <= b => a * r <= b * r
PROOF
  <1>1. (a - b) * r = a * r - b * r /\ (a + b) * r = a * r + b * r
    BY SMT
  <1>2. a * r \in Int /\ b * r \in Int /\ (a - b) * r \in Int
    BY SMT
  <1>3. ASSUME a <= b PROVE a * r <= b * r
    <2>1. (b - a) * r >= 0
      BY <1>3, SMT
    <2>2. (b - a) * r = b * r - a * r
      BY SMT
    <2> QED BY <2>1, <2>2, <1>2, SMT
  <1> QED BY <1>1, <1>2, <1>3

LEMMA LimiterInvInit == LimiterInit => LimiterInv
PROOF
  <1> SUFFICES ASSUME LimiterInit PROVE LimiterInv
    OBVIOUS
  <1> USE LimiterAssumption
  <1>1. MaxLag * Refill \in Nat
    BY SMT
  <1> QED BY <1>1, SMT DEF LimiterInit, LimiterInv, LimiterTypeOK, Line

\* What a call finds in its bucket: no more than full, no more than what its client has
\* gained by then less what it was let through for, and no debt that time has not paid.
LEMMA Found ==
  ASSUME LimiterInv, NEW h \in Calls, caller[h] # NoClient
  PROVE  /\ caller[h] \in Clients /\ Level(h) \in Int /\ Level(h) <= Full
         /\ 0 <= Level(h) + MaxLag * Refill
         /\ 0 <= Level(h) + (now - readAt[h]) * Refill
         /\ allowed[caller[h]] * Cost + Level(h) <= Full + readAt[h] * Refill
PROOF
  <1> DEFINE c == caller[h]
             r == readAt[h]
             u == updated[c]
             paid == allowed[c] * Cost
  <1> USE LimiterAssumption
  <1>1. /\ c \in Clients /\ r \in Nat /\ r <= now /\ now \in Nat /\ now - r <= MaxLag
        /\ u \in Nat /\ tokens[c] \in Int /\ tokens[c] <= Full /\ u <= now
        /\ lastGC \in Nat /\ lastGC <= now /\ allowed[c] \in Nat
    BY DEF LimiterInv, LimiterTypeOK
  <1>2. paid \in Nat
    BY <1>1, SMT
  <1>3. /\ 0 <= tokens[c] + (now - u) * Refill /\ 0 <= tokens[c] + MaxLag * Refill
        /\ paid + tokens[c] <= Full + u * Refill
        /\ c \in buckets \/ allowed[c] = 0 \/ lastGC - u > GCPeriod
    BY <1>1 DEF LimiterInv, Line
  <1>4. /\ u * Refill \in Int /\ r * Refill \in Int /\ now * Refill \in Int
        /\ MaxLag * Refill \in Nat /\ GCPeriod * Refill \in Int
        /\ (r - u) * Refill = r * Refill - u * Refill
        /\ (now - u) * Refill = now * Refill - u * Refill
        /\ (now - r) * Refill = now * Refill - r * Refill
        /\ r * Refill <= now * Refill
    BY <1>1, Lines
  <1>5. (now - r) * Refill <= MaxLag * Refill
    BY <1>1, Lines
  <1>6. CASE c \in Left(h)
    <2>1. Level(h) = AtMostFull(tokens[c] + (r - u) * Refill)
      BY <1>6 DEF Level
    <2> QED
      BY <1>1, <1>2, <1>3, <1>4, <1>5, <2>1, SMT DEF AtMostFull
  <1>7. CASE c \notin Left(h)
    <2>1. Level(h) = Full
      BY <1>7 DEF Level
    <2>2. allowed[c] = 0 \/ (r + MaxLag) - u >= GCPeriod
      BY <1>1, <1>3, <1>7, SMT DEF Left
    <2>3. paid <= r * Refill
      <3>1. CASE allowed[c] = 0
        <4>1. 0 * Refill <= r * Refill
          BY <1>1, Lines
        <4> QED BY <3>1, <4>1, SMT
      <3>2. CASE (r + MaxLag) - u >= GCPeriod
        <4> DEFINE later == r + MaxLag
        <4>1. later \in Int /\ later * Refill = r * Refill + MaxLag * Refill
          <5> HIDE DEF r
          <5>1. r \in Int /\ MaxLag \in Int
            BY <1>1
          <5> QED BY <5>1, Lines
        <4>2. (later - u) * Refill = later * Refill - u * Refill
          BY <1>1, <4>1, Lines
        <4>3. later - u \in Int /\ GCPeriod <= later - u
          BY <1>1, <3>2, <4>1, SMT
        <4>4. GCPeriod * Refill <= (later - u) * Refill
          <5> HIDE DEF later
          <5> QED BY <1>1, <4>1, <4>3, Lines
        <4> HIDE DEF later
        <4> QED BY <1>1, <1>2, <1>3, <1>4, <4>1, <4>2, <4>4, SMT
      <3> QED BY <2>2, <3>1, <3>2
    <2> QED BY <1>1, <1>2, <1>4, <2>1, <2>3, SMT
  <1> QED BY <1>1, <1>6, <1>7

LEMMA LimiterAllow ==
  ASSUME LimiterInv, NEW h \in Calls, Allow(h)
  PROVE  LimiterInv'
PROOF
  <1> DEFINE c == caller[h]
             r == readAt[h]
  <1> USE LimiterAssumption
  <1>1. /\ c \in Clients /\ c # NoClient /\ Level(h) \in Int /\ Level(h) <= Full
        /\ 0 <= Level(h) + MaxLag * Refill
        /\ 0 <= Level(h) + (now - r) * Refill
        /\ allowed[c] * Cost + Level(h) <= Full + r * Refill
    BY Found DEF Allow
  <1>2. /\ r \in 0 .. now /\ now \in Nat /\ lastGC \in 0 .. now
    BY DEF LimiterInv, LimiterTypeOK
  <1>3. LimiterTypeOK'
    <2>1. buckets' \subseteq Clients
      BY <1>1 DEF Allow, Left, LimiterInv, LimiterTypeOK
    <2>2. tokens' \in [Clients -> Int] /\ allowed' \in [Clients -> Nat]
      BY <1>1, SMT DEF Allow, LimiterInv, LimiterTypeOK
    <2>3. updated' \in [Clients -> Nat] /\ \A d \in Clients : updated'[d] <= now'
      BY <1>1, <1>2, SMT DEF Allow, LimiterInv, LimiterTypeOK
    <2>4. \A d \in Clients : tokens'[d] <= Full
      BY <1>1, SMT DEF Allow, LimiterInv, LimiterTypeOK
    <2>5. now' = now /\ lastGC' \in 0 .. now
      BY <1>2 DEF Allow
    <2>6. caller' \in [Calls -> Clients \cup {NoClient}] /\ readAt' \in [Calls -> 0 .. now]
      BY <1>2 DEF Allow, Leave, LimiterInv, LimiterTypeOK
    <2> QED BY <1>2, <2>1, <2>2, <2>3, <2>4, <2>5, <2>6 DEF LimiterTypeOK
  <1>4. \A k \in Calls : caller'[k] # NoClient => now' - readAt'[k] <= MaxLag
    BY DEF Allow, Leave, LimiterInv, LimiterTypeOK
  <1>5. ASSUME NEW d \in Clients
        PROVE  /\ 0 <= tokens'[d] + (now' - updated'[d]) * Refill
               /\ 0 <= tokens'[d] + MaxLag * Refill
               /\ allowed'[d] * Cost + tokens'[d] <= Full + updated'[d] * Refill
               /\ d \in buckets' \/ allowed'[d] = 0 \/ lastGC' - updated'[d] > GCPeriod
    <2>1. CASE d = c
      <3>1. /\ updated'[d] = r /\ now' = now /\ d \in buckets'
            /\ \/ Level(h) >= Cost /\ tokens'[d] = Level(h) - Cost /\ allowed'[d] = allowed[d] + 1
               \/ tokens'[d] = Level(h) /\ allowed'[d] = allowed[d]
        BY <2>1 DEF Allow, LimiterInv, LimiterTypeOK
      <3>2. /\ allowed[d] \in Nat /\ allowed[d] * Cost \in Nat
            /\ (allowed[d] + 1) * Cost = allowed[d] * Cost + Cost
        BY SMT DEF LimiterInv, LimiterTypeOK
      <3>3. 0 <= (now - r) * Refill /\ MaxLag * Refill \in Nat /\ r * Refill \in Int
        BY <1>2, SMT
      <3> HIDE DEF c, r
      <3>4. (now - r) * Refill \in Int
        BY <1>2, SMT
      <3> QED
        BY <1>1, <2>1, <3>1, <3>2, <3>3, <3>4, SMT
    <2>2. CASE d # c
      <3>1. /\ updated'[d] = updated[d] /\ now' = now
            /\ tokens'[d] = tokens[d] /\ allowed'[d] = allowed[d]
        BY <2>2 DEF Allow, LimiterInv, LimiterTypeOK
      <3>2. d \in buckets' \/ allowed'[d] = 0 \/ lastGC' - updated'[d] > GCPeriod
        <4>1. CASE d \in buckets
          <5>1. d \in Left(h) => d \in buckets'
            BY DEF Allow
          <5>2. (~(r - updated[d] <= GCPeriod) /\ lastGC' = r) \/ d \in Left(h)
            BY <4>1 DEF Left, Allow
          <5>3. updated[d] \in Nat
            BY DEF LimiterInv, LimiterTypeOK
          <5> QED BY <1>2, <3>1, <5>1, <5>2, <5>3, SMT
        <4>2. CASE d \notin buckets
          <5>1. /\ allowed[d] = 0 \/ lastGC - updated[d] > GCPeriod
                /\ lastGC' = lastGC \/ (lastGC' = r /\ r - lastGC > GCPeriod)
            BY <4>2 DEF Allow, LimiterInv
          <5>2. updated[d] \in Nat /\ lastGC' - lastGC >= 0
            BY <1>2, <5>1, SMT DEF LimiterInv, LimiterTypeOK
          <5> QED BY <1>2, <3>1, <5>1, <5>2, SMT
        <4> QED BY <4>1, <4>2
      <3> QED BY <3>1, <3>2 DEF LimiterInv, Line
    <2> QED BY <2>1, <2>2
  <1> QED BY <1>3, <1>4, <1>5 DEF LimiterInv, Line

LEMMA LimiterStep == LimiterInv /\ [LimiterNext]_limiterVars => LimiterInv'
PROOF
  <1> SUFFICES ASSUME LimiterInv, [LimiterNext]_limiterVars PROVE LimiterInv'
    OBVIOUS
  <1> USE LimiterAssumption
  <1>1. ASSUME NEW h \in Calls, Allow(h) PROVE LimiterInv'
    BY <1>1, LimiterAllow
  <1>2. ASSUME NEW h \in Calls, NEW c \in Clients, Call(h, c) PROVE LimiterInv'
    <2>1. LimiterTypeOK'
      BY <1>2, SMT DEF Call, LimiterInv, LimiterTypeOK
    <2>2. \A k \in Calls : caller'[k] # NoClient => now' - readAt'[k] <= MaxLag
      BY <1>2, SMT DEF Call, LimiterInv, LimiterTypeOK
    <2> QED BY <1>2, <2>1, <2>2 DEF Call, LimiterInv, Line
  <1>3. CASE TimePasses
    <2>1. LimiterTypeOK'
      BY <1>3, SMT DEF TimePasses, LimiterInv, LimiterTypeOK
    <2>2. \A k \in Calls : caller'[k] # NoClient => now' - readAt'[k] <= MaxLag
      BY <1>3, SMT DEF TimePasses, LimiterInv, LimiterTypeOK
    <2>3. ASSUME NEW d \in Clients PROVE 0 <= Line(d, now')
      <3>1. 0 <= Line(d, now) /\ updated[d] \in Nat /\ now \in Nat /\ tokens[d] \in Int
        BY DEF LimiterInv, LimiterTypeOK
      <3>2. now' = now + 1
        BY <1>3 DEF TimePasses
      <3>3. (now + 1 - updated[d]) * Refill = (now - updated[d]) * Refill + Refill
        BY <3>1, SMT
      <3>4. (now - updated[d]) * Refill \in Int
        BY <3>1, SMT
      <3> QED BY <3>1, <3>2, <3>3, <3>4, SMT DEF Line
    <2> QED BY <1>3, <2>1, <2>2, <2>3 DEF TimePasses, LimiterInv, Line
  <1>4. CASE UNCHANGED limiterVars
    BY <1>4 DEF limiterVars, LimiterInv, LimiterTypeOK, Line
  <1> QED BY <1>1, <1>2, <1>3, <1>4 DEF LimiterNext

THEOREM LimiterInvariant == LimiterSpec => []LimiterInv
PROOF
  <1> QED BY LimiterInvInit, LimiterStep, PTL DEF LimiterSpec

\* The state of the limiter is what it should be: nothing is of another time than the
\* clock's past, and no bucket holds more than a full one.
THEOREM LimiterTypeCorrect == LimiterSpec => []LimiterTypeOK
PROOF
  <1>1. LimiterInv => LimiterTypeOK
    BY DEF LimiterInv
  <1> QED BY <1>1, LimiterInvariant, PTL

\* However the calls of a client arrive and get the lock, it is let through no more often
\* than a full bucket and what it gains allow.
THEOREM ThroughputHolds == LimiterSpec => []Throughput
PROOF
  <1>1. LimiterInv => Throughput
    <2> SUFFICES ASSUME LimiterInv, NEW c \in Clients
                 PROVE  allowed[c] * Cost <= Full + now * Refill
      BY DEF Throughput
    <2> USE LimiterAssumption
    <2>1. /\ 0 <= tokens[c] + (now - updated[c]) * Refill
          /\ allowed[c] * Cost + tokens[c] <= Full + updated[c] * Refill
          /\ now \in Nat /\ updated[c] \in Nat /\ tokens[c] \in Int /\ allowed[c] \in Nat
      BY DEF LimiterInv, LimiterTypeOK, Line
    <2>2. /\ (now - updated[c]) * Refill = now * Refill - updated[c] * Refill
          /\ now * Refill \in Int /\ updated[c] * Refill \in Int
      BY <2>1, Lines
    <2>3. allowed[c] * Cost \in Nat
      BY <2>1, SMT
    <2> QED BY <2>1, <2>2, <2>3, SMT
  <1> QED BY <1>1, LimiterInvariant, PTL

\* A client that has lost its bucket could have taken all, with it.
LEMMA ThrownAway ==
  ASSUME LimiterInv, NEW h \in Calls, Allow(h), NEW d \in buckets \ Left(h)
  PROVE  Allowance(d) = Full
PROOF
  <1> DEFINE r == readAt[h]
             u == updated[d]
  <1> USE LimiterAssumption
  <1>1. /\ r \in Nat /\ now \in Nat /\ r <= now /\ u \in Nat /\ tokens[d] \in Int
        /\ d \in Clients /\ 0 <= tokens[d] + MaxLag * Refill
    BY DEF LimiterInv, LimiterTypeOK
  <1>2. r - u > GCPeriod
    BY <1>1 DEF Left
  <1>3. GCPeriod * Refill <= (now - u) * Refill
    <2>1. now - u \in Int /\ GCPeriod <= now - u
      BY <1>1, <1>2, SMT
    <2> QED BY <2>1, Lines
  <1>4. (now - u) * Refill \in Int /\ MaxLag * Refill \in Nat /\ GCPeriod * Refill \in Nat
    BY <1>1, SMT
  <1>5. tokens[d] + (now - u) * Refill >= Full
    BY <1>1, <1>3, <1>4, SMT
  <1>6. Allowance(d) = AtMostFull(tokens[d] + (now - u) * Refill)
    BY DEF Allowance
  <1> HIDE DEF u
  <1> QED BY <1>1, <1>4, <1>5, <1>6, SMT DEF AtMostFull

\* A call that is served changes what other clients could take in nothing; and its own
\* client pays for it, or pays nothing and gets nothing.
LEMMA OthersKeep ==
  ASSUME LimiterInv, NEW h \in Calls, Allow(h), NEW d \in Clients, d # caller[h]
  PROVE  Allowance(d)' = Allowance(d)
PROOF
  <1>1. /\ tokens'[d] = tokens[d] /\ updated'[d] = updated[d] /\ now' = now
        /\ d \in buckets' <=> d \in Left(h)
    BY DEF Allow, LimiterInv, LimiterTypeOK
  <1>2. CASE d \in Left(h)
    BY <1>1, <1>2 DEF Allowance, AtMostFull, Left
  <1>3. CASE d \in buckets \ Left(h)
    BY <1>1, <1>3, ThrownAway DEF Allowance
  <1>4. CASE d \notin buckets
    BY <1>1, <1>4 DEF Allowance, Left
  <1> QED BY <1>2, <1>3, <1>4

LEMMA OwnAllowance ==
  ASSUME LimiterInv, NEW h \in Calls, Allow(h), NEW c, c = caller[h]
  PROVE  LET gained == (now - readAt[h]) * Refill
         IN  /\ gained \in 0 .. MaxLag * Refill
             /\ Allowance(c) = AtMostFull(Level(h) + gained)
             /\ Allowance(c)' = AtMostFull(tokens'[c] + gained)
PROOF
  <1> DEFINE r == readAt[h]
             u == updated[c]
             gained == (now - r) * Refill
  <1> USE LimiterAssumption
  <1>1. /\ c \in Clients /\ r \in Nat /\ r <= now /\ now \in Nat /\ now - r <= MaxLag
        /\ u \in Nat /\ tokens[c] \in Int /\ tokens[c] <= Full /\ u <= now
    BY DEF Allow, LimiterInv, LimiterTypeOK
  <1>2. /\ gained \in Int /\ 0 <= gained /\ gained <= MaxLag * Refill /\ MaxLag * Refill \in Nat
    <2>1. 0 <= now - r /\ now - r \in Int
      BY <1>1, SMT
    <2>2. gained \in Int /\ 0 <= gained /\ MaxLag * Refill \in Nat
      BY <2>1, SMT
    <2>3. gained <= MaxLag * Refill
      <3>1. now - r \in Int /\ MaxLag \in Int /\ Refill \in Nat /\ now - r <= MaxLag
        BY <1>1, <2>1
      <3> QED
        BY <3>1, Lines, Zenon
    <2> QED BY <2>2, <2>3
  <1>3. Allowance(c)' = AtMostFull(tokens'[c] + gained)
    <2>1. updated'[c] = r /\ now' = now /\ c \in buckets'
      BY <1>1 DEF Allow, LimiterInv, LimiterTypeOK
    <2> QED BY <2>1 DEF Allowance, AtMostFull
  <1>4. Allowance(c) = AtMostFull(Level(h) + gained)
    <2>1. CASE c \in Left(h)
      <3> DEFINE found == tokens[c] + (r - u) * Refill
      <3>1. Level(h) = AtMostFull(found)
        BY <2>1 DEF Level
      <3>2. /\ (r - u) * Refill \in Int /\ (now - u) * Refill \in Int
            /\ (now - u) * Refill = (r - u) * Refill + gained
        BY <1>1, SMT
      <3>3. Allowance(c) = AtMostFull(found + gained)
        <4>1. c \in buckets
          BY <2>1 DEF Left
        <4>2. tokens[c] + (now - u) * Refill = found + gained
          BY <1>1, <1>2, <3>2, SMT
        <4> QED BY <4>1, <4>2 DEF Allowance
      <3>4. found \in Int
        BY <1>1, <3>2, SMT
      <3> HIDE DEF found, gained
      <3> QED BY <1>2, <3>1, <3>3, <3>4, SMT DEF AtMostFull
    <2>2. CASE c \notin Left(h)
      <3>1. Level(h) = Full
        BY <2>2 DEF Level
      <3>2. Allowance(c) = Full
        BY <1>1, <2>2, ThrownAway DEF Allowance
      <3> QED BY <1>2, <3>1, <3>2, SMT DEF AtMostFull
    <2> QED BY <2>1, <2>2
  <1> QED BY <1>2, <1>3, <1>4, SMT

\* The limiter is the promised bucket of tokens for every client: neither the buckets it
\* throws away nor the order in which calls get the lock lets a client have more.
THEOREM LimitsAsPromised == LimiterSpec => IsTokenBucket
PROOF
  <1> USE LimiterAssumption
  <1>1. LimiterInit => Bucket!BucketInit
    BY DEF LimiterInit, Bucket!BucketInit, Allowance
  <1>2. LimiterInv /\ [LimiterNext]_limiterVars => [Bucket!BucketNext]_(Bucket!bucketVars)
    <2> SUFFICES ASSUME LimiterInv, [LimiterNext]_limiterVars
                 PROVE  [Bucket!BucketNext]_(Bucket!bucketVars)
      OBVIOUS
    <2> DEFINE levels == [d \in Clients |-> Allowance(d)]
    <2>0. levels' = [d \in Clients |-> Allowance(d)']
      OBVIOUS
    <2>1. ASSUME NEW h \in Calls, Allow(h)
          PROVE  [Bucket!BucketNext]_(Bucket!bucketVars)
      <3> PICK c : c = caller[h]
        OBVIOUS
      <3> DEFINE gained == (now - readAt[h]) * Refill
      <3>1. /\ c \in Clients /\ Level(h) \in Int /\ Level(h) <= Full
            /\ 0 <= Level(h) + gained
        BY <2>1, Found DEF Allow
      <3>2. /\ gained \in 0 .. MaxLag * Refill
            /\ Allowance(c) = AtMostFull(Level(h) + gained)
            /\ Allowance(c)' = AtMostFull(tokens'[c] + gained)
        BY <2>1, OwnAllowance
      <3>3. \A d \in Clients : d # c => Allowance(d)' = Allowance(d)
        BY <2>1, OthersKeep
      <3>4. now' = now
        BY <2>1 DEF Allow
      <3>5. MaxLag * Refill \in Nat
        BY SMT
      <3>6. CASE /\ Level(h) >= Cost /\ tokens' = [tokens EXCEPT ![c] = Level(h) - Cost]
                 /\ allowed' = [allowed EXCEPT ![c] = @ + 1]
        <4>1. tokens'[c] = Level(h) - Cost
          BY <3>1, <3>6 DEF LimiterInv, LimiterTypeOK
        <4>2. Allowance(c) >= Cost
          <5> HIDE DEF gained
          <5> QED BY <3>1, <3>2, <3>5, <3>6, SMT DEF AtMostFull
        <4>3. PICK late \in 0 .. MaxLag * Refill :
                Allowance(c)' = Bucket!Least(Full, Allowance(c) - Cost + late)
          <5> HIDE DEF gained
          <5>1. CASE Level(h) + gained <= Full
            <6>1. 0 \in 0 .. MaxLag * Refill
              BY <3>5, SMT
            <6>2. Allowance(c)' = Bucket!Least(Full, Allowance(c) - Cost + 0)
              BY <3>1, <3>2, <3>5, <4>1, <5>1, SMT DEF AtMostFull, Bucket!Least
            <6> QED BY <6>1, <6>2
          <5>2. CASE Level(h) + gained > Full
            <6> DEFINE late == Level(h) + gained - Full
            <6>1. late \in 0 .. MaxLag * Refill
              BY <3>1, <3>2, <3>5, <5>2, SMT
            <6>2. Allowance(c)' = Bucket!Least(Full, Allowance(c) - Cost + late)
              BY <3>1, <3>2, <3>5, <4>1, <5>2, SMT DEF AtMostFull, Bucket!Least
            <6> QED BY <6>1, <6>2
          <5>3. Level(h) + gained \in Int
            BY <3>1, <3>2, <3>5, SMT
          <5> QED BY <5>1, <5>2, <5>3, SMT
        <4>4. levels' = [levels EXCEPT ![c] = Bucket!Least(Full, @ - Cost + late)]
          BY <2>0, <3>1, <3>3, <4>3
        <4>5. levels[c] >= Cost
          BY <3>1, <4>2
        <4>6. Bucket!Grant(c)
          BY <3>4, <3>6, <4>4, <4>5 DEF Bucket!Grant
        <4> QED BY <3>1, <4>6 DEF Bucket!BucketNext
      <3>7. CASE /\ Level(h) < Cost /\ tokens' = [tokens EXCEPT ![c] = Level(h)]
                 /\ UNCHANGED allowed
        <4>1. tokens'[c] = Level(h)
          BY <3>1, <3>7 DEF LimiterInv, LimiterTypeOK
        <4>2. levels' = levels
          BY <2>0, <3>2, <3>3, <4>1
        <4> QED BY <3>4, <3>7, <4>2 DEF Bucket!bucketVars
      <3> QED BY <2>1, <3>6, <3>7 DEF Allow
    <2>2. ASSUME NEW h \in Calls, NEW c \in Clients, Call(h, c)
          PROVE  UNCHANGED Bucket!bucketVars
      BY <2>2 DEF Call, Bucket!bucketVars, Allowance
    <2>3. CASE TimePasses
      <3>1. now' = now + 1 /\ UNCHANGED <<buckets, tokens, updated, allowed>>
        BY <2>3 DEF TimePasses
      <3>2. ASSUME NEW c \in Clients
            PROVE  Allowance(c)' = Bucket!Least(Full, Allowance(c) + Refill)
        <4>1. updated[c] \in Nat /\ now \in Nat /\ tokens[c] \in Int
          BY DEF LimiterInv, LimiterTypeOK
        <4> DEFINE gain == (now - updated[c]) * Refill
                   more == ((now + 1) - updated[c]) * Refill
                   before == tokens[c] + gain
                   after == tokens[c] + more
        <4>2. before \in Int /\ after = before + Refill
          <5>1. gain \in Int /\ Refill \in Int /\ more = gain + Refill
            BY <4>1, SMT
          <5> HIDE DEF gain, more
          <5> QED BY <4>1, <5>1, SMT
        <4>3. /\ Allowance(c) = IF c \in buckets THEN AtMostFull(before) ELSE Full
              /\ Allowance(c)' = IF c \in buckets THEN AtMostFull(after) ELSE Full
          BY <3>1 DEF Allowance, AtMostFull
        <4> HIDE DEF before, after
        <4> QED BY <4>2, <4>3, SMT DEF AtMostFull, Bucket!Least
      <3>3. levels' = [c \in Clients |-> Bucket!Least(Full, levels[c] + Refill)]
        BY <2>0, <3>2
      <3> QED BY <3>1, <3>3 DEF Bucket!Pass, Bucket!BucketNext
    <2>4. CASE UNCHANGED limiterVars
      BY <2>4 DEF limiterVars, Bucket!bucketVars, Allowance
    <2> QED BY <2>1, <2>2, <2>3, <2>4 DEF LimiterNext
  <1> QED
    BY <1>1, <1>2, LimiterInvariant, PTL DEF LimiterSpec, IsTokenBucket, Bucket!BucketSpec

(***************************************************************************)
(* Reading: reading a list page by page repeats nothing and misses nothing,*)
(* for any articles, any times of theirs and any sizes of pages.           *)
(***************************************************************************)
\* All that was read lies before the cursor, and of what was in the list all along nothing
\* that lies there is missing.
UpTo(a, place) == a = place \/ Newer(a, place)

ReadingInv ==
  /\ ReadingTypeOK
  /\ sort = "latest" =>
       /\ NoRepeat
       /\ walk = "open" =>
            /\ \A i \in DOMAIN pages : \A a \in pages[i] : UpTo(a, cursor)
            /\ \A a \in always : UpTo(a, cursor) => a \in Listed
       /\ walk = "done" => always \subseteq Listed

LEMMA NewerIsAnOrder ==
  ASSUME NEW a \in Articles, NEW b \in Articles
  PROVE  /\ ~(Newer(a, b) /\ Newer(b, a)) /\ ~Newer(a, a)
         /\ a = b \/ Newer(a, b) \/ Newer(b, a)
PROOF
  <1> QED BY ReadingAssumption, SMT DEF Newer

LEMMA NewerIsTransitive ==
  ASSUME NEW a \in Articles, NEW b \in Articles, NEW c \in Articles,
         Newer(a, b), Newer(b, c)
  PROVE  Newer(a, c)
PROOF
  <1> QED BY ReadingAssumption, SMT DEF Newer

LEMMA PageLimits == ASSUME NEW raw \in Limits PROVE PageLimit(raw) \in 1 .. MaxLimit
PROOF
  <1> QED BY ReadingAssumption, SMT DEF PageLimit

LEMMA ReadingInvInit == ReadingInit => ReadingInv
PROOF
  <1> SUFFICES ASSUME ReadingInit PROVE ReadingInv
    OBVIOUS
  <1>1. ReadingTypeOK
    BY ReadingAssumption, SMT DEF ReadingInit, ReadingTypeOK
  <1>2. NoRepeat
    BY DEF ReadingInit, NoRepeat
  <1> QED BY <1>1, <1>2 DEF ReadingInit, ReadingInv

\* The rows of an answer are articles of the list; and without a cursor they are all of it.
LEMMA RowsShown ==
  ASSUME ReadingTypeOK, NEW point \in Articles \cup {NoCursor}, NEW s
  PROVE  /\ Rows(point, s) \subseteq shown /\ shown \subseteq Articles
         /\ point = NoCursor => Rows(point, s) = shown
PROOF
  <1> QED BY DEF Rows, ReadingTypeOK

LEMMA AnswerTyped ==
  ASSUME ReadingTypeOK, NEW point \in Articles \cup {NoCursor}, NEW s \in {"latest", "top"},
         NEW n \in 1 .. MaxLimit, NEW before \in Seq(SUBSET Articles),
         Answered(point, s, n, before), UNCHANGED <<shown, changes>>,
         always' \subseteq shown
  PROVE  ReadingTypeOK'
PROOF
  <1> DEFINE found == Rows(point, s)
  <1>1. found \subseteq Articles
    BY RowsShown
  <1>2. PICK page \in Firsts(found, n, s) :
          /\ pages' = Append(before, page)
          /\ \/ /\ page # found /\ walk' = "open"
                /\ \E last \in found : CursorOf(page, found, s, last) /\ cursor' = last
             \/ /\ page = found /\ walk' = "done" /\ cursor' = NoCursor
          /\ sort' = s /\ limit' = n
    BY DEF Answered
  <1>3. page \in SUBSET Articles
    BY <1>1 DEF Firsts
  <1>4. pages' \in Seq(SUBSET Articles)
    <2> HIDE DEF found
    <2> QED BY <1>2, <1>3
  <1>5. /\ walk' \in {"none", "open", "done"} /\ cursor' \in Articles \cup {NoCursor}
        /\ walk' = "open" => cursor' # NoCursor
    <2> HIDE DEF found
    <2> QED BY <1>1, <1>2, ReadingAssumption
  <1> QED BY <1>2, <1>4, <1>5 DEF ReadingTypeOK

\* The answer to a request for a list by time, whose client has read all up to the cursor.
LEMMA AnswerContinues ==
  ASSUME ReadingTypeOK, NEW point \in Articles \cup {NoCursor},
         NEW n \in 1 .. MaxLimit, NEW before \in Seq(SUBSET Articles),
         Answered(point, "latest", n, before), UNCHANGED shown,
         always' \subseteq shown,
         point = NoCursor => before = <<>>,
         \A i, j \in DOMAIN before : i < j => \A a \in before[i], b \in before[j] : Newer(a, b),
         point # NoCursor => \A i \in DOMAIN before : \A a \in before[i] : UpTo(a, point),
         point # NoCursor =>
           \A a \in always' : UpTo(a, point) => \E i \in DOMAIN before : a \in before[i]
  PROVE  /\ NoRepeat'
         /\ walk' = "open" =>
              /\ \A i \in DOMAIN pages' : \A a \in pages'[i] : UpTo(a, cursor')
              /\ \A a \in always' : UpTo(a, cursor') => a \in Listed'
         /\ walk' = "done" => always' \subseteq Listed'
PROOF
  <1> DEFINE found == Rows(point, "latest")
  <1>1. found \subseteq shown /\ shown \subseteq Articles /\ always' \subseteq Articles
    BY RowsShown
  <1>2. PICK page \in Firsts(found, n, "latest") :
          /\ pages' = Append(before, page)
          /\ \/ /\ page # found /\ walk' = "open"
                /\ \E last \in found : CursorOf(page, found, "latest", last) /\ cursor' = last
             \/ /\ page = found /\ walk' = "done" /\ cursor' = NoCursor
    BY DEF Answered
  <1>3. page \subseteq found /\ \A a \in page, b \in found \ page : Newer(a, b)
    BY DEF Firsts, Ahead
  <1>4. \A a \in found : point # NoCursor => Newer(point, a)
    BY DEF Rows
  <1>5. /\ DOMAIN pages' = 1 .. Len(before) + 1 /\ DOMAIN before = 1 .. Len(before)
        /\ Len(before) \in Nat
        /\ \A i \in DOMAIN before : pages'[i] = before[i]
        /\ pages'[Len(before) + 1] = page
    <2>1. page \in SUBSET Articles
      BY <1>1, <1>3
    <2> HIDE DEF found
    <2> QED BY <1>2, <2>1
  <1>6. \A i \in DOMAIN before : before[i] \subseteq Articles
    BY DEF ReadingTypeOK
  <1>7. ASSUME NEW i \in DOMAIN before, NEW a \in before[i], NEW b \in found
        PROVE  Newer(a, b)
    <2>1. a \in Articles /\ b \in Articles
      BY <1>1, <1>6
    <2>2. point # NoCursor
      BY <1>5, <1>7
    <2>3. UpTo(a, point) /\ Newer(point, b) /\ point \in Articles
      BY <1>4, <1>7, <2>2
    <2> QED BY <2>1, <2>3, NewerIsTransitive DEF UpTo
  <1>8. NoRepeat'
    <2> SUFFICES ASSUME NEW i \in DOMAIN pages', NEW j \in DOMAIN pages', i < j,
                        NEW a \in pages'[i], NEW b \in pages'[j]
                 PROVE  Newer(a, b)
      BY DEF NoRepeat, Newer
    <2>1. i \in DOMAIN before
      BY <1>5, SMT
    <2>2. CASE j \in DOMAIN before
      BY <1>5, <2>1, <2>2
    <2>3. CASE j = Len(before) + 1
      <3>1. a \in before[i] /\ b \in found
        BY <1>3, <1>5, <2>1, <2>3
      <3> QED BY <1>7, <2>1, <3>1
    <2>4. j \in DOMAIN before \/ j = Len(before) + 1
      BY <1>5, SMT
    <2> QED BY <2>2, <2>3, <2>4
  <1>9. \A a : a \in Listed' <=> a \in page \/ \E i \in DOMAIN before : a \in before[i]
    <2>1. Listed' = UNION {pages'[i] : i \in DOMAIN pages'}
      BY DEF Listed
    <2>2. DOMAIN pages' = DOMAIN before \cup {Len(before) + 1}
      BY <1>5, SMT
    <2> QED BY <1>5, <2>1, <2>2
  <1>10. ASSUME NEW a \in always' PROVE a \in Listed' \/ a \in found
    <2>1. CASE point = NoCursor
      BY <2>1, RowsShown
    <2>2. CASE point # NoCursor
      <3>1. a \in shown /\ a \in Articles /\ point \in Articles
        BY <1>1, <2>2
      <3>2. UpTo(a, point) \/ Newer(point, a)
        BY <3>1, NewerIsAnOrder DEF UpTo
      <3>3. UpTo(a, point) => a \in Listed'
        BY <1>9, <2>2
      <3>4. Newer(point, a) => a \in found
        BY <2>2, <3>1 DEF Rows
      <3> QED BY <3>2, <3>3, <3>4
    <2> QED BY <2>1, <2>2
  <1>11. CASE page = found /\ walk' = "done"
    <2>1. always' \subseteq Listed'
      BY <1>9, <1>10, <1>11
    <2> QED BY <1>8, <1>11, <2>1
  <1>12. CASE /\ page # found /\ walk' = "open"
              /\ \E last \in found : CursorOf(page, found, "latest", last) /\ cursor' = last
    <2>1. /\ cursor' \in page /\ cursor' \in Articles
          /\ \A a \in page : a # cursor' => Newer(a, cursor')
      <3>1. CursorOf(page, found, "latest", cursor')
        BY <1>12
      <3> QED BY <1>1, <1>3, <3>1 DEF CursorOf, Ahead
    <2>2. ASSUME NEW i \in DOMAIN pages', NEW a \in pages'[i] PROVE UpTo(a, cursor')
      <3>1. CASE i \in DOMAIN before
        BY <1>3, <1>5, <1>7, <2>1, <3>1 DEF UpTo
      <3>2. CASE i = Len(before) + 1
        BY <1>5, <2>1, <3>2 DEF UpTo
      <3>3. i \in DOMAIN before \/ i = Len(before) + 1
        BY <1>5, SMT
      <3> QED BY <3>1, <3>2, <3>3
    <2>3. ASSUME NEW a \in always', UpTo(a, cursor') PROVE a \in Listed'
      <3>1. a \in found => a \in page
        <4> SUFFICES ASSUME a \in found, a \notin page PROVE FALSE
          OBVIOUS
        <4>1. Newer(cursor', a)
          BY <1>3, <2>1
        <4>2. a \in Articles /\ a # cursor'
          BY <1>1, <2>1
        <4> QED BY <2>1, <2>3, <4>1, <4>2, NewerIsAnOrder DEF UpTo
      <3> QED BY <1>9, <1>10, <3>1
    <2> QED BY <1>8, <1>12, <2>2, <2>3
  <1> QED BY <1>2, <1>11, <1>12

LEMMA ReadingStep == ReadingInv /\ [ReadingNext]_readingVars => ReadingInv'
PROOF
  <1> SUFFICES ASSUME ReadingInv, [ReadingNext]_readingVars PROVE ReadingInv'
    OBVIOUS
  <1>0. ReadingTypeOK
    BY DEF ReadingInv
  <1>1. CASE Open
    <2>1. PICK s \in {"latest", "top"} : \E raw \in Limits :
            Answered(NoCursor, s, PageLimit(raw), <<>>)
      BY <1>1 DEF Open
    <2>2. PICK raw \in Limits : Answered(NoCursor, s, PageLimit(raw), <<>>)
      BY <2>1
    <2>3. /\ PageLimit(raw) \in 1 .. MaxLimit /\ <<>> \in Seq(SUBSET Articles)
          /\ UNCHANGED <<shown, changes>> /\ always' \subseteq shown /\ sort' = s
      BY <1>1, <2>2, PageLimits DEF Open, Answered
    <2>4. ReadingTypeOK'
      BY <1>0, <2>2, <2>3, AnswerTyped
    <2>5. CASE s = "latest"
      <3>1. Answered(NoCursor, "latest", PageLimit(raw), <<>>)
        BY <2>2, <2>5
      <3>2. /\ NoRepeat'
            /\ walk' = "open" =>
                 /\ \A i \in DOMAIN pages' : \A a \in pages'[i] : UpTo(a, cursor')
                 /\ \A a \in always' : UpTo(a, cursor') => a \in Listed'
            /\ walk' = "done" => always' \subseteq Listed'
        <4> PICK none \in Seq(SUBSET Articles) : none = <<>>
          BY <2>3
        <4>1. DOMAIN none = {} /\ Answered(NoCursor, "latest", PageLimit(raw), none)
          BY <3>1
        <4>2. UNCHANGED shown /\ NoCursor \in Articles \cup {NoCursor}
          BY <2>3
        <4> QED BY <1>0, <2>3, <4>1, <4>2, AnswerContinues
      <3> QED BY <2>4, <3>2 DEF ReadingInv, UpTo, Newer
    <2>6. CASE s # "latest"
      BY <2>3, <2>4, <2>6 DEF ReadingInv
    <2> QED BY <2>5, <2>6
  <1>2. CASE More
    <2>1. /\ Answered(cursor, sort, limit, pages) /\ sort' = sort /\ walk = "open"
          /\ UNCHANGED <<shown, always, changes>>
      BY <1>2 DEF More, Answered
    <2>2. /\ cursor \in Articles /\ sort \in {"latest", "top"} /\ limit \in 1 .. MaxLimit
          /\ pages \in Seq(SUBSET Articles) /\ always' \subseteq shown
      BY <1>0, <2>1 DEF ReadingTypeOK
    <2>3. ReadingTypeOK'
      BY <1>0, <2>1, <2>2, AnswerTyped
    <2>4. CASE sort = "latest"
      <3>1. /\ Answered(cursor, "latest", limit, pages)
            /\ \A i, j \in DOMAIN pages :
                 i < j => \A a \in pages[i], b \in pages[j] : Newer(a, b)
            /\ \A i \in DOMAIN pages : \A a \in pages[i] : UpTo(a, cursor)
            /\ \A a \in always' : UpTo(a, cursor) => \E i \in DOMAIN pages : a \in pages[i]
        BY <2>1, <2>4 DEF ReadingInv, NoRepeat, Listed
      <3>2. cursor # NoCursor
        BY <2>2, ReadingAssumption
      <3>3. /\ NoRepeat'
            /\ walk' = "open" =>
                 /\ \A i \in DOMAIN pages' : \A a \in pages'[i] : UpTo(a, cursor')
                 /\ \A a \in always' : UpTo(a, cursor') => a \in Listed'
            /\ walk' = "done" => always' \subseteq Listed'
        BY <1>0, <2>1, <2>2, <3>1, <3>2, AnswerContinues
      <3> QED BY <2>3, <3>3 DEF ReadingInv, UpTo, Newer
    <2>5. CASE sort # "latest"
      BY <2>1, <2>3, <2>5 DEF ReadingInv
    <2> QED BY <2>4, <2>5
  <1>3. ASSUME NEW a \in Articles, Appear(a) PROVE ReadingInv'
    <2>1. ReadingTypeOK'
      BY <1>0, <1>3, SMT DEF Appear, ReadingTypeOK
    <2> QED BY <1>3, <2>1 DEF Appear, ReadingInv, NoRepeat, Listed, UpTo, Newer
  <1>4. ASSUME NEW a \in Articles, Vanish(a) PROVE ReadingInv'
    <2>1. ReadingTypeOK'
      BY <1>0, <1>4, SMT DEF Vanish, ReadingTypeOK
    <2> QED BY <1>4, <2>1 DEF Vanish, ReadingInv, NoRepeat, Listed, UpTo, Newer
  <1>5. CASE UNCHANGED readingVars
    BY <1>5 DEF readingVars, ReadingInv, ReadingTypeOK, NoRepeat, Listed, UpTo, Newer
  <1> QED BY <1>1, <1>2, <1>3, <1>4, <1>5 DEF ReadingNext

THEOREM ReadingInvariant == ReadingSpec => []ReadingInv
PROOF
  <1> QED BY ReadingInvInit, ReadingStep, PTL DEF ReadingSpec

\* The cursor of an open list is a place in the order, and what counts as having been in
\* the list all along is in it.
THEOREM ReadingTypeCorrect == ReadingSpec => []ReadingTypeOK
PROOF
  <1>1. ReadingInv => ReadingTypeOK
    BY DEF ReadingInv
  <1> QED BY <1>1, ReadingInvariant, PTL

\* A list by time goes back in time from page to page, whatever comes and goes meanwhile.
THEOREM NothingRepeated == ReadingSpec => []NoRepeat
PROOF
  <1>1. ReadingInv => NoRepeat
    BY DEF ReadingInv, NoRepeat
  <1> QED BY <1>1, ReadingInvariant, PTL

\* Who reads a list by time to its end has seen all that was in it all along.
THEOREM NothingMissed == ReadingSpec => []NoGap
PROOF
  <1>1. ReadingInv => NoGap
    BY DEF ReadingInv, NoGap
  <1> QED BY <1>1, ReadingInvariant, PTL

(***************************************************************************)
(* Digest: for every list of candidates, section size and limit of a source's*)
(* run the rearranged list is as varied as it can be, and no card is overtaken*)
(* for any other reason.                                                   *)
(***************************************************************************)
(***************************************************************************)
(* The inductive invariant                                                 *)
(***************************************************************************)
\* The columns.
DigestTypes ==
  /\ source \in Seq(Sources) /\ size \in Sizes /\ most \in Runs /\ expired \subseteq Cards
  /\ pending \subseteq Cards /\ out \in Seq(Cards)
  /\ lastSource \in Sources \cup {NoSource} /\ run \in Nat

\* Every card waits or is out.
Complete == \A c \in Cards : c \in pending \/ \E p \in 1 .. Len(out) : out[p] = c

\* A card that waits is not out, and no card is out twice.
Once ==
  /\ \A p \in 1 .. Len(out) : out[p] \notin pending
  /\ \A p, q \in 1 .. Len(out) : out[p] = out[q] => p = q

\* The last cards out, `run` of them, are of lastSource, and the one before is not.
RunExact ==
  pending # {} =>
    /\ most > 0 /\ run <= Len(out) /\ (Len(out) > 0 => run > 0)
    /\ \A k \in Len(out) - run + 1 .. Len(out) : SourceAt(k) = lastSource
    /\ run < Len(out) => SourceAt(Len(out) - run) # lastSource

\* A card that waits was overtaken only where its source had had its run.
Patient ==
  \A p \in 1 .. Len(out) : \A d \in pending : out[p] > d =>
    most > 0 /\ p > most /\ \A k \in p - most .. p - 1 : SourceAt(k) = source[d]

\* Varied, of the whole list and not only of the section cut from it.
VariedAll ==
  most > 0 =>
    \A i \in most + 1 .. Len(out) :
      (\A k \in i - most .. i : SourceAt(k) = SourceAt(i)) =>
        \A c \in Cards : (\A k \in 1 .. i : out[k] # c) => source[c] = SourceAt(i)

\* Every candidate is in one of the two lists, once.
Tallied == IsFiniteSet(pending) /\ Len(out) + Cardinality(pending) = Len(source)

DigestInv ==
  /\ DigestTypes /\ Complete /\ Once /\ Tallied /\ RunExact /\ Patient
  /\ VariedAll /\ OvertakenForVariety

(***************************************************************************)
(* The start                                                               *)
(***************************************************************************)
\* Short lists and lists without a limit stay as they are; the others are all to do.
LEMMA DigestInvInit == DigestInit => DigestInv
<1> SUFFICES ASSUME DigestInit PROVE DigestInv
  OBVIOUS
<1>1. PICK n \in 0 .. Window(size, most) : source \in [1 .. n -> Sources]
  BY DEF DigestInit
<1>2. Window(size, most) \in Nat /\ most \in Nat
  <2>1. \A a, b \in Nat : a * b \in Nat
    OBVIOUS
  <2> QED
    BY <2>1, DigestAssumption DEF DigestAssumption, DigestInit, Window
<1>3. n \in Nat /\ source \in Seq(Sources) /\ Len(source) = n /\ Cards = 1 .. n
  BY <1>1, <1>2 DEF Cards
<1>4. /\ size \in Sizes /\ most \in Runs /\ lastSource = NoSource /\ run = 0
      /\ expired \subseteq Cards
  BY DEF DigestInit
<1>5. CASE most = 0 \/ n < 3
  <2>1. pending = {} /\ out = [i \in 1 .. n |-> i]
    BY <1>3, <1>5 DEF DigestInit, InOrder
  <2>2. out \in Seq(Cards) /\ Len(out) = n /\ DOMAIN out = 1 .. n
    BY <1>3, <2>1
  <2>3. \A i \in 1 .. n : out[i] = i
    BY <2>1
  <2>4. DigestTypes
    BY <1>3, <1>4, <2>1, <2>2 DEF DigestTypes
  <2>8. Tallied
    BY <1>3, <2>1, <2>2, FS_EmptySet DEF Tallied
  <2>5. Complete /\ Once /\ RunExact /\ Patient
    BY <1>3, <2>1, <2>2, <2>3 DEF Complete, Once, RunExact, Patient
  <2>6. VariedAll
    BY <1>2, <1>3, <1>5, <2>2, <2>3 DEF VariedAll
  <2>7. OvertakenForVariety
    BY <1>3, <2>2, <2>3 DEF OvertakenForVariety
  <2> QED
    BY <2>4, <2>5, <2>6, <2>7, <2>8 DEF DigestInv
<1>6. CASE most > 0 /\ n >= 3
  <2>1. pending = Cards /\ out = <<>>
    BY <1>3, <1>6 DEF DigestInit
  <2>2. out \in Seq(Cards) /\ Len(out) = 0 /\ DOMAIN out = {}
    BY <2>1
  <2>3. DigestTypes
    BY <1>3, <1>4, <2>1, <2>2 DEF DigestTypes
  <2>6. Tallied
    <3>1. IsFiniteSet(1 .. n) /\ Cardinality(1 .. n) = IF 1 > n THEN 0 ELSE n - 1 + 1
      BY <1>3, FS_Interval
    <3>2. IsFiniteSet(1 .. n) /\ Cardinality(1 .. n) = n
      BY <1>6, <3>1
    <3> QED
      BY <1>3, <2>1, <2>2, <3>2 DEF Tallied
  <2>4. Complete /\ Once /\ RunExact /\ Patient
    BY <1>4, <1>6, <2>1, <2>2 DEF Complete, Once, RunExact, Patient
  <2>5. VariedAll /\ OvertakenForVariety
    BY <1>2, <1>6, <2>2 DEF VariedAll, OvertakenForVariety
  <2> QED
    BY <2>3, <2>4, <2>5, <2>6 DEF DigestInv
<1> QED
  BY <1>2, <1>3, <1>5, <1>6

(***************************************************************************)
(* A turn                                                                  *)
(***************************************************************************)
\* What Put does to the list: it gets one longer, and the rest of it stays.
LEMMA Lengthened ==
  ASSUME DigestInv, NEW c \in pending, Put(c)
  PROVE  /\ UNCHANGED <<source, size, most, expired>> /\ pending' = pending \ {c}
         /\ Len(out) \in Nat /\ out' \in Seq(Cards) /\ Len(out') = Len(out) + 1
         /\ \A k \in 1 .. Len(out) : out'[k] = out[k] /\ out[k] \in Cards
         /\ out'[Len(out) + 1] = c
         /\ Cards \subseteq Nat /\ pending \subseteq Cards /\ most \in Nat /\ run \in Nat
BY DigestAssumption DEF DigestAssumption, DigestInv, DigestTypes, Put, Cards

\* A card that need not wait although another before it does, and a card that is put out
\* although it waits: either way the last cards out, as many as may be in a row, are
\* of one source.
LEMMA FullRun ==
  ASSUME DigestInv, NEW d \in pending, Waits(d)
  PROVE  /\ Len(out) >= most
         /\ \A k \in Len(out) + 1 - most .. Len(out) : SourceAt(k) = source[d]
BY DigestAssumption
   DEF DigestAssumption, DigestInv, DigestTypes, RunExact, Waits, SourceAt

\* The columns hold what they should after a turn.
LEMMA TypesAfter ==
  ASSUME DigestInv, NEW c \in pending, Put(c)
  PROVE  DigestTypes'
<1>1. /\ UNCHANGED <<source, size, most, expired>> /\ pending' = pending \ {c}
      /\ out' \in Seq(Cards) /\ pending \subseteq Cards
  BY Lengthened
<1>2. source[c] \in Sources
  BY <1>1 DEF DigestInv, DigestTypes, Cards
<1>3. lastSource' \in Sources \cup {NoSource} /\ run' \in Nat
  BY <1>2 DEF DigestInv, DigestTypes, Put
<1> QED
  BY <1>1, <1>3 DEF DigestInv, DigestTypes, Cards

\* The card moves from those that wait to those that are out.
LEMMA PlacesAfter ==
  ASSUME DigestInv, NEW c \in pending, Put(c)
  PROVE  Complete' /\ Once' /\ Tallied'
<1>1. /\ source' = source /\ pending' = pending \ {c}
      /\ Len(out) \in Nat /\ Len(out') = Len(out) + 1
      /\ \A k \in 1 .. Len(out) : out'[k] = out[k]
      /\ out'[Len(out) + 1] = c
  BY Lengthened
<1>2. Once'
  BY <1>1 DEF DigestInv, Once
<1>3. Complete'
  BY <1>1 DEF DigestInv, Complete, Cards
<1>4. Tallied'
  <2>1. IsFiniteSet(pending) /\ Len(out) + Cardinality(pending) = Len(source)
    BY DEF DigestInv, Tallied
  <2>2. /\ IsFiniteSet(pending \ {c}) /\ Cardinality(pending) \in Nat
        /\ Cardinality(pending \ {c}) = Cardinality(pending) - 1
    BY <2>1, FS_RemoveElement, FS_CardinalityType
  <2> QED
    BY <1>1, <2>1, <2>2 DEF Tallied
<1> QED
  BY <1>2, <1>3, <1>4

\* The run is counted exactly.
LEMMA RunAfter ==
  ASSUME DigestInv, NEW c \in pending, Put(c)
  PROVE  RunExact'
<1>1. /\ source' = source /\ most' = most /\ most > 0
      /\ Len(out) \in Nat /\ Len(out') = Len(out) + 1 /\ run \in Nat
      /\ \A k \in 1 .. Len(out) : out'[k] = out[k]
      /\ out'[Len(out) + 1] = c
  BY Lengthened DEF DigestInv, RunExact
<1>2. /\ run <= Len(out) /\ (Len(out) > 0 => run > 0)
      /\ \A k \in Len(out) - run + 1 .. Len(out) : source[out[k]] = lastSource
      /\ run < Len(out) => source[out[Len(out) - run]] # lastSource
  BY DEF DigestInv, RunExact, SourceAt
<1>3. CASE source[c] = lastSource
  <2>1. run' = run + 1 /\ lastSource' = lastSource
    BY <1>3 DEF Put
  <2>2. \A k \in Len(out') - run' + 1 .. Len(out') : source'[out'[k]] = lastSource'
    BY <1>1, <1>2, <1>3, <2>1
  <2>3. run' < Len(out') => source'[out'[Len(out') - run']] # lastSource'
    BY <1>1, <1>2, <2>1
  <2>4. run' <= Len(out') /\ run' > 0
    BY <1>1, <1>2, <2>1
  <2> QED
    BY <1>1, <2>2, <2>3, <2>4 DEF RunExact, SourceAt
<1>4. CASE source[c] # lastSource
  <2>1. run' = 1 /\ lastSource' = source[c]
    BY <1>4 DEF Put
  <2> QED
    BY <1>1, <1>2, <1>4, <2>1 DEF RunExact, SourceAt
<1> QED
  BY <1>3, <1>4

\* Who waits on is overtaken by the card put out only if it must wait for its source.
LEMMA PatientAfter ==
  ASSUME DigestInv, NEW c \in pending, Put(c)
  PROVE  Patient'
<1> DEFINE n == Len(out)
<1>1. /\ source' = source /\ most' = most /\ pending' = pending \ {c}
      /\ n \in Nat /\ Len(out') = n + 1 /\ most \in Nat
      /\ \A k \in 1 .. n : out'[k] = out[k]
      /\ out'[n + 1] = c /\ pending \subseteq Nat
  BY Lengthened
<1> HIDE DEF n
<1>2. ASSUME NEW p \in 1 .. n, NEW d \in pending, out'[p] > d
      PROVE  most > 0 /\ p > most /\ \A k \in p - most .. p - 1 : source[out'[k]] = source[d]
  <2>1. out[p] > d
    BY <1>1, <1>2
  <2>2. most > 0 /\ p > most /\ \A k \in p - most .. p - 1 : source[out[k]] = source[d]
    BY <2>1 DEF DigestInv, Patient, SourceAt, n
  <2> QED
    BY <1>1, <2>2
<1>3. ASSUME NEW d \in pending, d # c, c > d
      PROVE  most > 0 /\ n + 1 > most
             /\ \A k \in n + 1 - most .. n : source[out'[k]] = source[d]
  <2>1. Waits(d)
    BY <1>1, <1>3 DEF Put, Picked
  <2>2. n >= most /\ \A k \in n + 1 - most .. n : source[out[k]] = source[d]
    BY <2>1, FullRun DEF SourceAt, n
  <2>3. most > 0
    BY DEF DigestInv, RunExact
  <2> QED
    BY <1>1, <2>2, <2>3
<1>4. ASSUME NEW p \in 1 .. n + 1, NEW d \in pending, d # c, out'[p] > d
      PROVE  most > 0 /\ p > most /\ \A k \in p - most .. p - 1 : source[out'[k]] = source[d]
  BY <1>1, <1>2, <1>3, <1>4
<1> QED
  BY <1>1, <1>4 DEF Patient, SourceAt

\* The card put out may come after ones it ranks above only as Patient allows.
LEMMA OvertakenAfter ==
  ASSUME DigestInv, NEW c \in pending, Put(c)
  PROVE  OvertakenForVariety'
<1> DEFINE n == Len(out)
<1>1. /\ source' = source /\ most' = most /\ out' \in Seq(Cards)
      /\ n \in Nat /\ Len(out') = n + 1 /\ most \in Nat
      /\ \A k \in 1 .. n : out'[k] = out[k]
      /\ out'[n + 1] = c
  BY Lengthened
<1>2. DOMAIN out' = 1 .. n + 1 /\ DOMAIN out = 1 .. n
  BY <1>1 DEF DigestInv, DigestTypes
<1> HIDE DEF n
<1>3. ASSUME NEW p \in 1 .. n, NEW q \in 1 .. n, p < q, out'[p] > out'[q]
      PROVE  most > 0 /\ p > most
             /\ \A k \in p - most .. p - 1 : source[out'[k]] = source[out'[q]]
  BY <1>1, <1>2, <1>3 DEF DigestInv, OvertakenForVariety, SourceAt
<1>4. ASSUME NEW p \in 1 .. n, out'[p] > c
      PROVE  most > 0 /\ p > most
             /\ \A k \in p - most .. p - 1 : source[out'[k]] = source[c]
  BY <1>1, <1>4 DEF DigestInv, Patient, SourceAt, n
<1>5. ASSUME NEW p \in 1 .. n + 1, NEW q \in 1 .. n + 1, p < q, out'[p] > out'[q]
      PROVE  most > 0 /\ p > most
             /\ \A k \in p - most .. p - 1 : source[out'[k]] = source[out'[q]]
  <2>1. p \in 1 .. n /\ (q \in 1 .. n \/ q = n + 1)
    BY <1>1, <1>5
  <2> QED
    BY <1>1, <1>3, <1>4, <1>5, <2>1
<1> QED
  BY <1>1, <1>2, <1>5 DEF OvertakenForVariety, SourceAt

\* The card put out makes a run too long only if all that wait are of its source.
LEMMA VariedAfter ==
  ASSUME DigestInv, NEW c \in pending, Put(c)
  PROVE  VariedAll'
<1> DEFINE n == Len(out)
<1>1. /\ source' = source /\ most' = most /\ most > 0
      /\ n \in Nat /\ Len(out') = n + 1 /\ most \in Nat
      /\ \A k \in 1 .. n : out'[k] = out[k]
      /\ out'[n + 1] = c
  BY Lengthened DEF DigestInv, RunExact
<1> HIDE DEF n
<1>2. ASSUME NEW i \in most + 1 .. n, NEW d \in Cards,
             \A k \in i - most .. i : source[out'[k]] = source[out'[i]],
             \A k \in 1 .. i : out'[k] # d
      PROVE  source[d] = source[out'[i]]
  <2>1. \A k \in i - most .. i : source[out[k]] = source[out[i]]
    BY <1>1, <1>2
  <2>2. \A k \in 1 .. i : out[k] # d
    BY <1>1, <1>2
  <2>3. source[d] = source[out[i]]
    BY <1>1, <2>1, <2>2 DEF DigestInv, VariedAll, SourceAt, n
  <2> QED
    BY <1>1, <2>3
<1>3. ASSUME n + 1 > most, NEW d \in Cards,
             \A k \in n + 1 - most .. n + 1 : source[out'[k]] = source[c],
             \A k \in 1 .. n + 1 : out'[k] # d
      PROVE  source[d] = source[c]
  <2>1. d \in pending
    BY <1>1, <1>3 DEF DigestInv, Complete, n
  <2>2. \A k \in n + 1 - most .. n : source[out[k]] = source[c]
    BY <1>1, <1>3
  <2>3. /\ run <= n /\ run > 0 /\ run \in Nat
        /\ \A k \in n - run + 1 .. n : source[out[k]] = lastSource
        /\ run < n => source[out[n - run]] # lastSource
    BY <1>1, <1>3, <2>1 DEF DigestInv, DigestTypes, RunExact, SourceAt, n
  <2>4. source[c] = lastSource
    BY <1>1, <1>3, <2>2, <2>3
  <2>5. run >= most
    BY <1>1, <1>3, <2>2, <2>3, <2>4
  <2>6. Waits(c)
    BY <2>4, <2>5 DEF Waits
  <2>7. Waits(d)
    BY <2>1, <2>6 DEF Put, Picked
  <2> QED
    BY <2>4, <2>7 DEF Waits
<1>4. ASSUME NEW i \in most + 1 .. n + 1, NEW d \in Cards,
             \A k \in i - most .. i : source[out'[k]] = source[out'[i]],
             \A k \in 1 .. i : out'[k] # d
      PROVE  source[d] = source[out'[i]]
  <2>1. i \in most + 1 .. n \/ i = n + 1
    BY <1>1
  <2> QED
    BY <1>1, <1>2, <1>3, <1>4, <2>1
<1> QED
  BY <1>1, <1>4 DEF VariedAll, SourceAt, Cards

(***************************************************************************)
(* The theorems                                                            *)
(***************************************************************************)
\* Every turn keeps the invariant.
LEMMA DigestStep == DigestInv /\ [DigestNext]_digestVars => DigestInv'
<1> SUFFICES ASSUME DigestInv, [DigestNext]_digestVars PROVE DigestInv'
  OBVIOUS
<1>1. ASSUME NEW c \in pending, Put(c) PROVE DigestInv'
  BY <1>1, TypesAfter, PlacesAfter, RunAfter, PatientAfter, OvertakenAfter, VariedAfter
     DEF DigestInv
<1>2. CASE UNCHANGED digestVars
  BY <1>2 DEF digestVars, DigestInv, DigestTypes, Complete, Once, Tallied, RunExact,
     Patient, VariedAll, OvertakenForVariety, SourceAt, Cards
<1> QED
  BY <1>1, <1>2 DEF DigestNext

\* DigestInv is an invariant of the rearrangement.
THEOREM DigestInductive == DigestSpec => []DigestInv
  BY DigestStep, DigestInvInit, PTL DEF DigestSpec

\* On the home page a source fills more of a row than it may only when no other has a
\* candidate left or an expired job of another was taken out of the row, and in the list
\* nothing is overtaken but for variety (ApplySourceDiversity, HomePayload).
THEOREM MixedWell == DigestSpec => []WellMixed
<1>1. DigestInv => WellMixed
  <2> SUFFICES ASSUME DigestInv PROVE WellMixed
    OBVIOUS
  <2>1. most \in Nat /\ Len(out) \in Nat
    BY DigestAssumption DEF DigestAssumption, DigestInv, DigestTypes
  <2>2. Len(Section) \in Nat /\ Len(Section) <= Len(out)
    <3>1. size \in Nat
      BY DigestAssumption DEF DigestAssumption, DigestInv, DigestTypes
    <3> QED
      BY <2>1, <3>1 DEF Section, DigestInv, DigestTypes
  <2>3. ASSUME most > 0, NEW a \in ShownPlaces, NEW b \in ShownPlaces,
               \A p \in ShownPlaces \cap (a .. b) : SourceAt(p) = SourceAt(b),
               Cardinality(ShownPlaces \cap (a .. b)) > most,
               ~ \E p \in a .. b : out[p] \in expired /\ SourceAt(p) # SourceAt(b)
        PROVE  \A c \in Cards : (\A p \in 1 .. b : out[p] # c) => source[c] = SourceAt(b)
    <3>1. a \in Nat /\ b \in Nat /\ a >= 1 /\ b <= Len(out) /\ b <= Len(Section)
      BY <2>1, <2>2 DEF ShownPlaces
    <3>2. \A p \in a .. b : p \in 1 .. Len(Section)
      BY <2>2, <3>1
    <3>3. \A p \in a .. b : SourceAt(p) = SourceAt(b)
      BY <2>3, <3>2 DEF ShownPlaces
    <3>4. IsFiniteSet(a .. b) /\ Cardinality(a .. b) = IF a > b THEN 0 ELSE b - a + 1
      BY <3>1, FS_Interval
    <3>5. ShownPlaces \cap (a .. b) \subseteq a .. b
      OBVIOUS
    <3> DEFINE seen == Cardinality(ShownPlaces \cap (a .. b))
               all == Cardinality(a .. b)
    <3>6. seen <= all
      BY <3>4, <3>5, FS_Subset
    <3>7. seen \in Nat
      BY <3>4, <3>5, FS_Subset, FS_CardinalityType
    <3>8. seen > most /\ all = IF a > b THEN 0 ELSE b - a + 1
      BY <2>3, <3>4
    <3> HIDE DEF seen, all
    <3>9. b - most >= a
      BY <2>1, <2>3, <3>1, <3>6, <3>7, <3>8
    <3>10. b \in most + 1 .. Len(out) /\ \A k \in b - most .. b : k \in a .. b
      BY <2>1, <3>1, <3>9
    <3> QED
      BY <2>3, <3>3, <3>10 DEF DigestInv, VariedAll
  <2>4. Varied
    BY <2>3 DEF Varied
  <2> QED
    BY <2>4 DEF DigestInv, WellMixed
<1> QED
  BY <1>1, DigestInductive, PTL

(***************************************************************************)
(* The composition that a run checks: its parts share no state, and every  *)
(* step of one leaves the others alone.                                    *)
(***************************************************************************)
ApiInv == IInv /\ LimiterInv /\ ReadingInv /\ DigestInv

\* A step of the composition is a step or a stutter of each part.
LEMMA ApiParts ==
  [Registration \/ Limiter \/ Walking \/ Mixing]_apiVars =>
    /\ [Next]_vars /\ [LimiterNext]_limiterVars
    /\ [ReadingNext]_readingVars /\ [DigestNext]_digestVars
  BY DEF Registration, Limiter, Walking, Mixing, apiVars

\* Whichever part a behaviour is about, the tables of the push registrations keep their
\* keys, and the buckets, the pages and the sections their types.
THEOREM ApiTypeCorrect == ApiSpec => []ApiTypeOK
<1>1. ApiInit => ApiInv
  BY TypesInit, PresentInit, OwnInit, LimiterInvInit, ReadingInvInit, DigestInvInit
     DEF ApiInit, ApiInv, IInv
<1>2. IInv /\ [Next]_vars => IInv'
  BY TypesStep, PresentStep, OwnStep DEF IInv
<1>3. ApiInv /\ [Registration \/ Limiter \/ Walking \/ Mixing]_apiVars => ApiInv'
  BY <1>2, ApiParts, LimiterStep, ReadingStep, DigestStep DEF ApiInv
<1>4. DigestInv => DigestTypeOK
  BY DEF DigestInv, DigestTypes, Tallied, DigestTypeOK
<1>5. ApiInv => ApiTypeOK
  BY <1>4 DEF ApiInv, ApiTypeOK, IInv, LimiterInv, ReadingInv
<1> QED
  BY <1>1, <1>3, <1>5, PTL DEF ApiSpec
=============================================================================
