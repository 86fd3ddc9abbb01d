--------------------------- MODULE PushRegistration ---------------------------
(***************************************************************************)
(* Who receives announcements: the app keeps a push token and the topics   *)
(* its user chose, and a periodic job sends both to the API, which keeps   *)
(* the tables `push_registrations` and `push_subscriptions`                *)
(* (PushSyncWorker.kt, SettingsStore.kt and AfNewsMessagingService.kt of   *)
(* the Android client, backend/internal/store/push.go,                     *)
(* handlePushRegister in backend/internal/httpapi/server.go).              *)
(*                                                                         *)
(* RegisterPushDevice has no transaction: each of its statements is a      *)
(* step.  A token is a sequence of groups of four characters, which is     *)
(* what the ids made of its beginning tell apart.                          *)
(***************************************************************************)
EXTENDS Integers, FiniteSets, Sequences

CONSTANTS
  Devices,    \* installs of the app
  Groups,     \* groups of four characters that occur in tokens and ids
  Dev,        \* the group "dev_"
  IdGroups,   \* groups of a token that shortToken keeps (16 characters: 4)
  FcmTokens,  \* [Devices -> SUBSET Seq(Groups)], what FCM issues to an install
  Topics,     \* breaking, afghanistan, world
  Default,    \* those that are on at first
  Handlers,   \* requests to /v1/push/register that can be under way at a time
  None,       \* no token, no device
  MaxFaults,  \* bound: lost connections, failed statements and crashes in a behaviour
  MaxOps      \* bound: new tokens, changed settings and revocations in a behaviour

Tokens == Seq(Groups)

ASSUME RegistrationAssumption ==
  /\ Dev \in Groups /\ IdGroups \in Nat
  /\ FcmTokens \in [Devices -> SUBSET Tokens]
  /\ IsFiniteSet(Topics) /\ Default \subseteq Topics
  /\ None \notin Tokens /\ None \notin Devices
  /\ MaxFaults \in Nat /\ MaxOps \in Nat

VARIABLES
  \* the preferences of an install: PUSH_TOKEN, and the topics that are on.
  \* PUSH_REGISTRATION_ID is written with the token and never read.
  stored, wants,
  \* a request: where its handler is, the device that waits for the answer, what it
  \* asks for, the id of its row, the topics not yet inserted
  stage, from, token, asked, id, todo,
  \* push_registrations: pairs of an id and a token, and the ids that are active
  rows, active,
  \* push_subscriptions: pairs of an id and a topic
  subs,
  alone,      \* history, by handler: nobody else touched its row since it looked
  faults, ops

prefs   == <<stored, wants>>
request == <<stage, from, token, asked, id, todo>>
table   == <<rows, active, subs>>
bounds  == <<faults, ops>>
vars    == <<prefs, request, table, alone, bounds>>

\* No request; before the SELECT; before the INSERT of a row; before the UPDATE of the
\* row that was found; before the DELETE of its topics; inserting topics.
Stage == {"free", "find", "insert", "update", "clear", "subscribe"}

\* Every token has one row and every id one token; topics belong to a row.
TypeOK ==
  /\ stored \in [Devices -> Tokens \cup {None}] /\ wants \in [Devices -> SUBSET Topics]
  /\ stage \in [Handlers -> Stage] /\ from \in [Handlers -> Devices \cup {None}]
  /\ token \in [Handlers -> Tokens] /\ asked \in [Handlers -> SUBSET Topics]
  /\ id \in [Handlers -> Tokens] /\ todo \in [Handlers -> SUBSET Topics]
  /\ rows \subseteq Tokens \X Tokens /\ active \subseteq Tokens
  /\ subs \subseteq Tokens \X Topics
  /\ \A p, q \in rows : (p[1] = q[1] \/ p[2] = q[2]) => p = q
  /\ \A s \in subs : \E p \in rows : p[1] = s[1]
  /\ alone \in [Handlers -> BOOLEAN] /\ faults \in Nat /\ ops \in Nat

\* "dev_" and the beginning of the token.
IdOf(t) == <<Dev>> \o SubSeq(t, 1, IF Len(t) < IdGroups THEN Len(t) ELSE IdGroups)

\* The requests that know their row.
Working(h)  == stage[h] \in {"insert", "update", "clear", "subscribe"}
Waiting(d)  == \E h \in Handlers : from[h] = d
TopicsOf(i) == {t \in Topics : <<i, t>> \in subs}

Goto(h, to) == stage' = [stage EXCEPT ![h] = to]

\* The handler is done, or gives up: with an answer, or a 500 that the client takes for
\* a reason to try again.
Free(h) ==
  /\ Goto(h, "free")
  /\ from' = [from EXCEPT ![h] = None] /\ token' = [token EXCEPT ![h] = << >>]
  /\ asked' = [asked EXCEPT ![h] = {}] /\ id' = [id EXCEPT ![h] = << >>]
  /\ todo' = [todo EXCEPT ![h] = {}] /\ alone' = [alone EXCEPT ![h] = FALSE]

Init ==
  /\ stored = [d \in Devices |-> None] /\ wants = [d \in Devices |-> Default]
  /\ stage = [h \in Handlers |-> "free"] /\ from = [h \in Handlers |-> None]
  /\ token = [h \in Handlers |-> << >>] /\ asked = [h \in Handlers |-> {}]
  /\ id = [h \in Handlers |-> << >>] /\ todo = [h \in Handlers |-> {}]
  /\ rows = {} /\ active = {} /\ subs = {}
  /\ alone = [h \in Handlers |-> FALSE]
  /\ faults = MaxFaults /\ ops = MaxOps

(***************************************************************************)
(* The app                                                                 *)
(***************************************************************************)
\* onNewToken: FCM issues a token, at first or in place of another. The job that is
\* scheduled already is kept.
NewToken(d) ==
  /\ ops > 0 /\ ops' = ops - 1
  /\ \E t \in FcmTokens[d] : t # stored[d] /\ stored' = [stored EXCEPT ![d] = t]
  /\ UNCHANGED <<wants, request, table, alone, faults>>

\* setPushTopic.
SetPushTopic(d, t) ==
  /\ ops > 0 /\ ops' = ops - 1
  /\ wants' = [wants EXCEPT ![d] = IF t \in @ THEN @ \ {t} ELSE @ \cup {t}]
  /\ UNCHANGED <<stored, request, table, alone, faults>>

\* doWork reads the preferences and calls the API. The job is unique: it does not run
\* twice at a time.
Sync(d, h) ==
  /\ stored[d] # None /\ ~Waiting(d)
  /\ stage[h] = "free"
  /\ Goto(h, "find")
  /\ from' = [from EXCEPT ![h] = d] /\ token' = [token EXCEPT ![h] = stored[d]]
  /\ asked' = [asked EXCEPT ![h] = wants[d]]
  /\ UNCHANGED <<prefs, id, todo, table, alone, bounds>>

\* The app takes what the answer names as its token: setPushRegistration(token,
\* registrationId) is called with the two the other way round.
SetPushRegistration(d, i) == stored' = [stored EXCEPT ![d] = i]

\* Connection, app or job are gone; the handler may not notice.
GiveUp(h) ==
  /\ faults > 0 /\ from[h] # None
  /\ from' = [from EXCEPT ![h] = None]
  /\ faults' = faults - 1
  /\ UNCHANGED <<prefs, stage, token, asked, id, todo, table, alone, ops>>

(***************************************************************************)
(* RegisterPushDevice                                                      *)
(***************************************************************************)
\* Whoever starts on a row that others are at work on ends the privacy of all.
Meet(h, i) ==
  LET others == {g \in Handlers \ {h} : Working(g) /\ id[g] = i} IN
  alone' = [g \in Handlers |->
    IF g = h THEN others = {} ELSE IF g \in others THEN FALSE ELSE alone[g]]

\* SELECT id ... WHERE token.
Find(h) ==
  /\ stage[h] = "find"
  /\ \/ \E p \in rows : p[2] = token[h] /\ id' = [id EXCEPT ![h] = p[1]]
          /\ Goto(h, "update") /\ Meet(h, p[1])
     \/ /\ \A p \in rows : p[2] # token[h]
        /\ id' = [id EXCEPT ![h] = IdOf(token[h])]
        /\ Goto(h, "insert") /\ Meet(h, IdOf(token[h]))
  /\ UNCHANGED <<prefs, from, token, asked, todo, table, bounds>>

\* An INSERT that replaces nothing and fails on nothing.
InsertBlindly(h) ==
  /\ stage[h] = "insert"
  /\ rows' = rows \cup {<<id[h], token[h]>>} /\ active' = active \cup {id[h]}
  /\ todo' = [todo EXCEPT ![h] = asked[h]] /\ Goto(h, "subscribe")
  /\ UNCHANGED <<prefs, from, token, asked, id, subs, alone, bounds>>

\* INSERT INTO push_registrations: id and token are unique. Two tokens of one install
\* may begin alike, and the second then has no row.
Insert(h) ==
  /\ stage[h] = "insert"
  /\ \/ /\ \A p \in rows : p[1] # id[h] /\ p[2] # token[h]
        /\ rows' = rows \cup {<<id[h], token[h]>>} /\ active' = active \cup {id[h]}
        /\ todo' = [todo EXCEPT ![h] = asked[h]] /\ Goto(h, "subscribe")
        /\ UNCHANGED <<from, token, asked, id, alone>>
     \/ /\ \E p \in rows : p[1] = id[h] \/ p[2] = token[h]
        /\ Free(h)
        /\ UNCHANGED <<rows, active>>
  /\ UNCHANGED <<prefs, subs, bounds>>

\* An UPDATE that leaves a revoked row revoked.
UpdateKeeping(h) ==
  /\ stage[h] = "update"
  /\ Goto(h, "clear")
  /\ UNCHANGED <<prefs, from, token, asked, id, todo, table, alone, bounds>>

\* UPDATE push_registrations SET ... active.
Update(h) ==
  /\ stage[h] = "update"
  /\ active' = active \cup {id[h]}
  /\ Goto(h, "clear")
  /\ UNCHANGED <<prefs, from, token, asked, id, todo, rows, subs, alone, bounds>>

\* DELETE FROM push_subscriptions.
Clear(h) ==
  /\ stage[h] = "clear"
  /\ subs' = {s \in subs : s[1] # id[h]}
  /\ todo' = [todo EXCEPT ![h] = asked[h]] /\ Goto(h, "subscribe")
  /\ UNCHANGED <<prefs, from, token, asked, id, rows, active, alone, bounds>>

\* INSERT INTO push_subscriptions, in any order; a topic that another request has
\* inserted meanwhile violates the primary key.
Subscribe(h) ==
  /\ stage[h] = "subscribe"
  /\ \E t \in todo[h] :
       \/ /\ <<id[h], t>> \notin subs
          /\ subs' = subs \cup {<<id[h], t>>}
          /\ todo' = [todo EXCEPT ![h] = @ \ {t}]
          /\ UNCHANGED <<stage, from, token, asked, id, alone>>
       \/ <<id[h], t>> \in subs /\ Free(h) /\ UNCHANGED subs
  /\ UNCHANGED <<prefs, rows, active, bounds>>

\* 201 with the id.
Answer(h) ==
  /\ stage[h] = "subscribe" /\ todo[h] = {}
  /\ IF from[h] = None THEN UNCHANGED stored ELSE SetPushRegistration(from[h], id[h])
  /\ Free(h)
  /\ UNCHANGED <<wants, table, bounds>>

\* A statement fails, the context of the request is cancelled, or the process dies.
Abort(h) ==
  /\ faults > 0 /\ stage[h] # "free"
  /\ Free(h)
  /\ faults' = faults - 1
  /\ UNCHANGED <<prefs, table, ops>>

\* UnregisterPushDevice, for whoever knows an id; no part of the app calls it.
Unregister(i) ==
  /\ ops > 0 /\ ops' = ops - 1
  /\ active' = active \ {i}
  /\ subs' = {s \in subs : s[1] # i}
  /\ alone' = [h \in Handlers |-> alone[h] /\ id[h] # i]
  /\ UNCHANGED <<prefs, request, rows, faults>>

(***************************************************************************)
(* Specification                                                           *)
(***************************************************************************)
Serve(h) ==
  \/ Find(h) \/ Insert(h) \/ Update(h) \/ Clear(h) \/ Subscribe(h) \/ Answer(h)

Next ==
  \/ \E d \in Devices : NewToken(d) \/ \E t \in Topics : SetPushTopic(d, t)
  \/ \E d \in Devices, h \in Handlers : Sync(d, h)
  \/ \E h \in Handlers : Serve(h) \/ GiveUp(h) \/ Abort(h)
  \/ \E p \in rows : Unregister(p[1])

Spec == Init /\ [][Next]_vars

(***************************************************************************)
(* Properties                                                              *)
(***************************************************************************)
\* What the app stores as its push token was issued by FCM: "Stored FCM token, if the
\* user has enabled notifications".
StoredTokenIsFcms ==
  \A d \in Devices : stored[d] # None => stored[d] \in FcmTokens[d]

\* A request that had its row to itself is answered 201 only when the row is active and
\* has the topics it asked for and no others, whatever broken requests and revocations
\* left there before.
AnswerTrue ==
  \A h \in Handlers : (stage[h] = "subscribe" /\ todo[h] = {} /\ alone[h]) =>
    /\ <<id[h], token[h]>> \in rows
    /\ id[h] \in active
    /\ TopicsOf(id[h]) = asked[h]
=============================================================================
