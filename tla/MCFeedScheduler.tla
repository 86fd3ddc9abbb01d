--------------------------- MODULE MCFeedScheduler ---------------------------
(***************************************************************************)
(* Small instances of FeedScheduler.  One tick stands for a minute where   *)
(* the lease and the fetch deadline matter; poll delays are scaled down.   *)
(***************************************************************************)
EXTENDS FeedScheduler, TLC

CONSTANTS hi, lo, p1, p2

MCPriority == (hi :> 2) @@ (lo :> 1)

\* The delays handleFetchError chooses itself, scaled: a day for a blocked or a
\* vanished feed, half a day for a refusal, whatever a 429 asks for.
MCBackoff ==
  [o \in Outcomes |->
     CASE o \in {"QUARANTINED", "HTTP_ERROR", "DISABLED"} -> {3}
       [] o = "RATE_LIMITED" -> {1, 3}
       [] OTHER -> {}]

Symmetric == Permutations({p1, p2})
=============================================================================
