------------------------------- MODULE MCWorker -------------------------------
(***************************************************************************)
(* What the worker processes do, checked by one run: `part` says whether a *)
(* behaviour is about which feeds they poll when (FeedScheduler) or about  *)
(* what a poll marks as breaking while an editor works on the articles     *)
(* (Newsroom); the other rests.  The two share no state, so this shows     *)
(* what two runs would.                                                    *)
(*   polling   two workers, two feeds of different priority; one tick      *)
(*             stands for a minute where the lease and the fetch deadline  *)
(*             matter, poll delays are scaled down                         *)
(*   newsroom  two polls, an editor, three articles about one topic from   *)
(*             two publishers; a is old, c is local news                   *)
(***************************************************************************)
EXTENDS FeedScheduler, Newsroom, TLC

CONSTANTS hi, lo, p1, p2

VARIABLE part

MCPriority == (hi :> 2) @@ (lo :> 1)

\* The delays handleFetchError chooses itself, scaled: a day for a blocked or a
\* vanished feed, half a day for a refusal, whatever a 429 asks for.
MCBackoff ==
  [o \in Outcomes |->
     CASE o \in {"QUARANTINED", "HTTP_ERROR", "DISABLED"} -> {3}
       [] o = "RATE_LIMITED" -> {1, 3}
       [] OTHER -> {}]

Signal(priority, local, recent, publisher) ==
  [official |-> TRUE, priority |-> priority, local |-> local, safety |-> FALSE,
   urgent |-> FALSE, recent |-> recent, source |-> publisher, topic |-> "t"]

MCSignals == ("a" :> Signal(5, FALSE, FALSE, "s1"))
             @@ ("b" :> Signal(5, FALSE, TRUE, "s2"))
             @@ ("c" :> Signal(4, TRUE, TRUE, "s1"))

Form(mark, status, file, may) ==
  [mark |-> mark, status |-> status, file |-> file, may |-> may]

MCForms == {Form("on", "HIDDEN", "keep", TRUE), Form("off", "other", "known", TRUE),
            Form("off", "ACTIVE", "known", TRUE), Form("on", "keep", "other", FALSE)}

Symmetric == Permutations({p1, p2})

workerVars == <<vars, newsroomVars, part>>

Polling  == part = "polling" /\ Next /\ UNCHANGED <<newsroomVars, part>>
Deciding == part = "newsroom" /\ NewsroomNext /\ UNCHANGED <<vars, part>>

\* At its bounds the newsroom may stop; polling may not.
Idle == part = "newsroom" /\ UNCHANGED workerVars

WorkerInit == part \in {"polling", "newsroom"} /\ Init /\ NewsroomInit

WorkerSpec == WorkerInit /\ [][Polling \/ Deciding \/ Idle]_workerVars

\* The type invariants of the two specifications.
WorkerTypeOK == TypeOK /\ NewsroomTypeOK
=============================================================================
