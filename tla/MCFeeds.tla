------------------------------- MODULE MCFeeds -------------------------------
(***************************************************************************)
(* The four specifications about feeds and the processes that fetch them,  *)
(* checked by one run: `part` says which of them a behaviour is about, the *)
(* others rest.  They share no state, so this shows what four runs would.  *)
(*   guard     two fetches, two hosts that share a site                    *)
(*   registry  two editors or starts, a pack whose second search outline   *)
(*             has the identity of the first but another id, and one with  *)
(*             an invalid outline and one listed twice                     *)
(*   pace      one direct feed or search, failing up to seven times, one   *)
(*             write of its polls lost                                     *)
(*   startup   one API and one worker                                      *)
(***************************************************************************)
EXTENDS FetchGuard, FeedRegistry, PollPace, Startup, TLC

CONSTANTS c1, c2, h1, h2, site

VARIABLE part

MCSite == [h \in Hosts |-> site]

MCIdentity  == [u \in Urls |-> u]
MCCanonical == [u \in Urls |-> IF u = "s2" THEN "s1" ELSE u]
MCSpelling  ==
  [u \in Urls |-> IF u = "core" THEN "/core" ELSE IF u = "s2" THEN "/s2" ELSE u]
MCKind ==
  [u \in Urls |-> CASE u \in {"s1", "s2"} -> "search" [] u = "bad" -> "unknown" [] OTHER -> u]
MCRank  == [u \in Urls |-> IF u = "s2" THEN "high" ELSE "low"]
MCPacks == ("v1" :> <<"s1", "s2", "unknown", "core">>)
           @@ ("v2" :> <<"bad", "core", "core", "topic">>)

Parts == {"guard", "registry", "pace", "startup"}

feedsVars == <<vars, registryVars, paceVars, startupVars, part>>

FeedsInit ==
  /\ part \in Parts
  /\ Init /\ (part = "guard" \/ host = [c \in Callers |-> h1])
  /\ RegistryInit /\ StartupInit
  /\ PaceInit /\ (part = "pace" \/ feed = Fresh("direct", "low"))

Guard    == part = "guard" /\ Next
            /\ UNCHANGED <<registryVars, paceVars, startupVars, part>>
Registry == part = "registry" /\ RegistryNext
            /\ UNCHANGED <<vars, paceVars, startupVars, part>>
Pace     == part = "pace" /\ PaceNext
            /\ UNCHANGED <<vars, registryVars, startupVars, part>>
Starting == part = "startup" /\ StartupNext
            /\ UNCHANGED <<vars, registryVars, paceVars, part>>

\* At their bounds the registry, the pace and the starts may stop; the guard may not.
Idle == part # "guard" /\ UNCHANGED feedsVars

\* The fairness of FetchGuard and of Startup, each for the behaviours about it.
FeedsSpec ==
  /\ FeedsInit /\ [][Guard \/ Registry \/ Pace \/ Starting \/ Idle]_feedsVars
  /\ WF_feedsVars(part = "guard" /\ Tick
                  /\ UNCHANGED <<registryVars, paceVars, startupVars, part>>)
  /\ \A c \in Callers :
       WF_feedsVars(part = "guard" /\ Inside(c)
                    /\ UNCHANGED <<registryVars, paceVars, startupVars, part>>)
  /\ \A p \in Processes :
       WF_feedsVars(part = "startup" /\ ComeUp(p)
                    /\ UNCHANGED <<vars, registryVars, paceVars, part>>)

\* The type invariants of the four specifications, and that every delay a poll is given
\* by its tier lies between minPollDelay and maxPollDelay (feeds.go:522), on which
\* FeedScheduler's PollDelays rests.
FeedsTypeOK == TypeOK /\ RegistryTypeOK /\ PaceTypeOK /\ WithinBounds /\ StartupTypeOK

\* Every process comes to serve (EveryoneServes), in the behaviours about starting.
ProcessesComeUp == part = "startup" => EveryoneServes
=============================================================================
