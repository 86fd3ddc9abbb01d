-------------------------------- MODULE MCApi --------------------------------
(***************************************************************************)
(* The four specifications behind the public API, checked by one run:      *)
(* `part` says which of them a behaviour is about, the others rest.  They  *)
(* share no state, so this shows what four runs would.                     *)
(*   registration  two installs, the first with two tokens that begin alike*)
(*   limiter       two clients, two requests at a time, a lag of one tick  *)
(*   reading       five articles, two of them published at one instant     *)
(*   digest        three sources, sections of up to four cards             *)
(***************************************************************************)
EXTENDS PushRegistration, RateLimiter, Reading, Digest, TLC

CONSTANTS install1, install2, id1, id2, rest1, rest2, dev, h1, h2, breaking, world

VARIABLE part

MCFcmTokens ==
  (install1 :> {<<id1, rest1>>, <<id1, rest2>>}) @@ (install2 :> {<<id2, rest1>>})

MCAt    == <<1, 2, 2, 3, 4>>
MCScore == <<3, 1, 2, 2, 1>>

Symmetric == Permutations({h1, h2})

Parts == {"registration", "limiter", "reading", "digest"}

apiVars == <<vars, limiterVars, readingVars, digestVars, part>>

ApiInit ==
  /\ part \in Parts
  /\ Init /\ LimiterInit
  /\ ReadingInit /\ (part = "reading" \/ shown = {})
  /\ DigestInit /\ (part = "digest" \/ (source = <<>> /\ size = 1 /\ most = 0 /\ expired = {}))

Registration == part = "registration" /\ Next
                /\ UNCHANGED <<limiterVars, readingVars, digestVars, part>>
Limiter      == part = "limiter" /\ LimiterNext
                /\ UNCHANGED <<vars, readingVars, digestVars, part>>
Walking      == part = "reading" /\ ReadingNext
                /\ UNCHANGED <<vars, limiterVars, digestVars, part>>
Mixing       == part = "digest" /\ DigestNext
                /\ UNCHANGED <<vars, limiterVars, readingVars, part>>

ApiSpec == ApiInit /\ [][Registration \/ Limiter \/ Walking \/ Mixing]_apiVars

\* The type invariants of the four specifications.
ApiTypeOK == TypeOK /\ LimiterTypeOK /\ ReadingTypeOK /\ DigestTypeOK
=============================================================================
