----------------------------- MODULE TokenBucket -----------------------------
(***************************************************************************)
(* What the limit on requests promises: every client has an allowance that *)
(* is full at first, grows with time up to its full size, and pays for     *)
(* each request that is let through.  A client whose allowance does not    *)
(* suffice is refused, and pays nothing.  A request may pay as of a moment *)
(* a little earlier, before the latest growth of its allowance.            *)
(***************************************************************************)
EXTENDS Integers

CONSTANTS
  Clients,  \* who asks
  Refill,   \* what an allowance grows by in a unit of time
  Full,     \* its full size
  Cost,     \* what a request costs
  Slack     \* what an allowance can grow by in the time a request may be late

VARIABLES
  level,    \* [Clients -> 0 .. Full]
  granted,  \* requests let through, by client
  elapsed   \* time since the beginning

bucketVars == <<level, granted, elapsed>>

Least(x, y) == IF x < y THEN x ELSE y

BucketInit ==
  /\ level = [c \in Clients |-> Full]
  /\ granted = [c \in Clients |-> 0] /\ elapsed = 0

Grant(c) ==
  /\ level[c] >= Cost
  /\ \E late \in 0 .. Slack : level' = [level EXCEPT ![c] = Least(Full, @ - Cost + late)]
  /\ granted' = [granted EXCEPT ![c] = @ + 1]
  /\ UNCHANGED elapsed

Pass ==
  /\ elapsed' = elapsed + 1
  /\ level' = [c \in Clients |-> Least(Full, level[c] + Refill)]
  /\ UNCHANGED granted

BucketNext == Pass \/ \E c \in Clients : Grant(c)

BucketSpec == BucketInit /\ [][BucketNext]_bucketVars
=============================================================================
