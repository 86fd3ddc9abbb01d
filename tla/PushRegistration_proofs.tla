----------------------- MODULE PushRegistration_proofs -----------------------
(***************************************************************************)
(* What PushRegistration guarantees for every number of installs, handlers *)
(* and topics and whatever tokens FCM issues: the tables keep their keys,  *)
(* and an answer tells what is in them.                                    *)
(***************************************************************************)
EXTENDS PushRegistration, SequenceTheorems, TLAPS

USE RegistrationAssumption

(***************************************************************************)
(* The inductive invariant                                                 *)
(***************************************************************************)
\* Past the SELECT that found it or the INSERT, the row is there: no row is ever deleted.
Present == \A h \in Handlers :
  stage[h] \in {"update", "clear", "subscribe"} => <<id[h], token[h]>> \in rows

\* A handler that has its row to itself is at work and nobody else is on that row; past
\* the UPDATE the row is active, and it has those of the topics asked for that are not
\* left to insert.
Own(h) == alone[h] =>
  /\ Working(h)
  /\ \A g \in Handlers \ {h} : Working(g) => id[g] # id[h]
  /\ stage[h] \in {"clear", "subscribe"} => id[h] \in active
  /\ stage[h] = "subscribe" =>
       todo[h] \subseteq asked[h] /\ TopicsOf(id[h]) = asked[h] \ todo[h]

IInv == TypeOK /\ Present /\ \A h \in Handlers : Own(h)

(***************************************************************************)
(* Types                                                                   *)
(***************************************************************************)
\* An id is made of groups, as a token is.
LEMMA IdType == ASSUME NEW t \in Tokens PROVE IdOf(t) \in Tokens
<1> DEFINE n == IF Len(t) < IdGroups THEN Len(t) ELSE IdGroups
<1>1. Len(t) \in Nat /\ n \in Int /\ \A i \in 1 .. n : t[i] \in Groups
  BY DEF Tokens
<1>2. SubSeq(t, 1, n) \in Seq(Groups)
  BY <1>1, SubSeqProperties
<1>3. <<Dev>> \in Seq(Groups)
  OBVIOUS
<1> QED
  BY <1>2, <1>3, ConcatProperties DEF IdOf, Tokens

\* No token yet is a token.
LEMMA EmptyToken == << >> \in Tokens
  BY DEF Tokens

\* The initial state has its types.
LEMMA TypesInit == Init => TypeOK
  BY EmptyToken DEF Init, TypeOK, Stage

\* Every step keeps the types, the keys and the references of the tables.
LEMMA TypesStep == TypeOK /\ Present /\ [Next]_vars => TypeOK'
<1> SUFFICES ASSUME TypeOK, Present, [Next]_vars PROVE TypeOK'
  OBVIOUS
<1> USE DEF TypeOK, Stage, Goto, prefs, request, table, bounds
<1>1. ASSUME NEW d \in Devices, NewToken(d) PROVE TypeOK'
  BY <1>1 DEF NewToken
<1>2. ASSUME NEW d \in Devices, NEW t \in Topics, SetPushTopic(d, t) PROVE TypeOK'
  BY <1>2 DEF SetPushTopic
<1>3. ASSUME NEW d \in Devices, NEW h \in Handlers, Sync(d, h) PROVE TypeOK'
  BY <1>3 DEF Sync
<1>4. ASSUME NEW h \in Handlers, GiveUp(h) PROVE TypeOK'
  BY <1>4 DEF GiveUp
<1>5. ASSUME NEW h \in Handlers, Find(h) PROVE TypeOK'
  <2>1. IdOf(token[h]) \in Tokens
    BY IdType
  <2>2. \A p \in rows : p[1] \in Tokens
    OBVIOUS
  <2>3. ASSUME NEW i \in Tokens, Meet(h, i) PROVE alone' \in [Handlers -> BOOLEAN]
    BY <2>3 DEF Meet
  <2>4. id' \in [Handlers -> Tokens] /\ stage' \in [Handlers -> Stage]
    BY <1>5, <2>1, <2>2 DEF Find
  <2>5. alone' \in [Handlers -> BOOLEAN]
    BY <1>5, <2>1, <2>2, <2>3 DEF Find
  <2> QED
    BY <1>5, <2>4, <2>5 DEF Find
<1>6. ASSUME NEW h \in Handlers, Insert(h) PROVE TypeOK'
  <2>1. CASE Free(h) /\ UNCHANGED <<rows, active, subs, prefs, bounds>>
    BY <2>1, EmptyToken DEF Free
  <2>2. CASE /\ \A p \in rows : p[1] # id[h] /\ p[2] # token[h]
             /\ rows' = rows \cup {<<id[h], token[h]>>} /\ active' = active \cup {id[h]}
             /\ todo' = [todo EXCEPT ![h] = asked[h]] /\ Goto(h, "subscribe")
             /\ UNCHANGED <<from, token, asked, id, alone, subs, prefs, bounds>>
    <3>1. \A p, q \in rows' : (p[1] = q[1] \/ p[2] = q[2]) => p = q
      BY <2>2
    <3>2. \A s \in subs' : \E p \in rows' : p[1] = s[1]
      BY <2>2
    <3> QED
      BY <2>2, <3>1, <3>2
  <2> QED
    BY <1>6, <2>1, <2>2 DEF Insert
<1>7. ASSUME NEW h \in Handlers, Update(h) PROVE TypeOK'
  BY <1>7 DEF Update
<1>8. ASSUME NEW h \in Handlers, Clear(h) PROVE TypeOK'
  BY <1>8 DEF Clear
<1>9. ASSUME NEW h \in Handlers, Answer(h) PROVE TypeOK'
  BY <1>9, EmptyToken DEF Answer, SetPushRegistration, Free
<1>10. ASSUME NEW h \in Handlers, Abort(h) PROVE TypeOK'
  BY <1>10, EmptyToken DEF Abort, Free
<1>11. ASSUME NEW p \in rows, Unregister(p[1]) PROVE TypeOK'
  BY <1>11 DEF Unregister
<1>12. ASSUME NEW h \in Handlers, Subscribe(h) PROVE TypeOK'
  <2>1. PICK t \in todo[h] :
           \/ /\ subs' = subs \cup {<<id[h], t>>} /\ todo' = [todo EXCEPT ![h] = @ \ {t}]
              /\ UNCHANGED <<stage, from, token, asked, id, alone>>
           \/ Free(h) /\ UNCHANGED subs
    BY <1>12 DEF Subscribe
  <2>2. CASE Free(h) /\ UNCHANGED subs
    BY <1>12, <2>2, EmptyToken DEF Subscribe, Free
  <2>3. CASE /\ subs' = subs \cup {<<id[h], t>>} /\ todo' = [todo EXCEPT ![h] = @ \ {t}]
             /\ UNCHANGED <<stage, from, token, asked, id, alone>>
    <3>1. stage[h] = "subscribe" /\ UNCHANGED <<prefs, rows, active, bounds>>
      BY <1>12 DEF Subscribe
    <3>2. t \in Topics /\ id[h] \in Tokens /\ <<id[h], t>> \in Tokens \X Topics
      OBVIOUS
    <3>3. subs' \subseteq Tokens \X Topics /\ todo' \in [Handlers -> SUBSET Topics]
      BY <2>3, <3>2
    <3>4. \E p \in rows : p[1] = id[h]
      BY <3>1 DEF Present
    <3>5. \A s \in subs' : \E p \in rows : p[1] = s[1]
      BY <2>3, <3>4
    <3> QED
      BY <2>3, <3>1, <3>3, <3>5
  <2> QED
    BY <2>1, <2>2, <2>3
<1>13. CASE UNCHANGED vars
  BY <1>13 DEF vars
<1> QED
  BY <1>1, <1>2, <1>3, <1>4, <1>5, <1>6, <1>7, <1>8, <1>9, <1>10, <1>11, <1>12, <1>13
     DEF Next, Serve

\* Who goes on has a row.
LEMMA PresentInit == Init => Present
  BY DEF Init, Present

\* Every step that takes a handler past SELECT or INSERT has found or made its row.
LEMMA PresentStep == TypeOK /\ Present /\ [Next]_vars => Present'
<1> SUFFICES ASSUME TypeOK, Present, [Next]_vars PROVE Present'
  OBVIOUS
<1> USE DEF TypeOK, Present, Stage, Goto, prefs, request, table, bounds
<1>1. ASSUME NEW d \in Devices, NewToken(d) PROVE Present'
  BY <1>1 DEF NewToken
<1>2. ASSUME NEW d \in Devices, NEW t \in Topics, SetPushTopic(d, t) PROVE Present'
  BY <1>2 DEF SetPushTopic
<1>3. ASSUME NEW d \in Devices, NEW h \in Handlers, Sync(d, h) PROVE Present'
  BY <1>3 DEF Sync
<1>4. ASSUME NEW h \in Handlers, GiveUp(h) PROVE Present'
  BY <1>4 DEF GiveUp
<1>5. ASSUME NEW h \in Handlers, Find(h) PROVE Present'
  <2>1. CASE \E p \in rows : p[2] = token[h] /\ id' = [id EXCEPT ![h] = p[1]]
               /\ Goto(h, "update") /\ Meet(h, p[1])
    <3>1. PICK p \in rows : p[2] = token[h] /\ id' = [id EXCEPT ![h] = p[1]]
                            /\ Goto(h, "update")
      BY <2>1
    <3>2. <<p[1], token[h]>> \in rows
      BY <3>1
    <3> QED
      BY <1>5, <3>1, <3>2 DEF Find
  <2>2. CASE id' = [id EXCEPT ![h] = IdOf(token[h])] /\ Goto(h, "insert")
    BY <1>5, <2>2 DEF Find
  <2> QED
    BY <1>5, <2>1, <2>2 DEF Find
<1>6. ASSUME NEW h \in Handlers, Insert(h) PROVE Present'
  BY <1>6 DEF Insert, Free
<1>7. ASSUME NEW h \in Handlers, Update(h) PROVE Present'
  BY <1>7 DEF Update
<1>8. ASSUME NEW h \in Handlers, Clear(h) PROVE Present'
  BY <1>8 DEF Clear
<1>9. ASSUME NEW h \in Handlers, Answer(h) PROVE Present'
  BY <1>9 DEF Answer, Free
<1>10. ASSUME NEW h \in Handlers, Abort(h) PROVE Present'
  BY <1>10 DEF Abort, Free
<1>11. ASSUME NEW p \in rows, Unregister(p[1]) PROVE Present'
  BY <1>11 DEF Unregister
<1>12. ASSUME NEW h \in Handlers, Subscribe(h) PROVE Present'
  BY <1>12 DEF Subscribe, Free
<1>13. CASE UNCHANGED vars
  BY <1>13 DEF vars
<1> QED
  BY <1>1, <1>2, <1>3, <1>4, <1>5, <1>6, <1>7, <1>8, <1>9, <1>10, <1>11, <1>12, <1>13
     DEF Next, Serve

(***************************************************************************)
(* Answers                                                                 *)
(***************************************************************************)
\* At first nobody is at work.
LEMMA OwnInit == Init => \A h \in Handlers : Own(h)
  BY DEF Init, Own

\* What a step of g that only frees g leaves of the others, and of itself.
LEMMA OwnFree ==
  ASSUME TypeOK, NEW g \in Handlers, Free(g), UNCHANGED table,
         NEW h \in Handlers, Own(h)
  PROVE  Own(h)'
<1> USE DEF TypeOK, Stage, Goto, table, Own, Working, TopicsOf
<1>1. CASE h = g
  BY <1>1 DEF Free
<1>2. CASE h # g
  BY <1>2 DEF Free
<1> QED
  BY <1>1, <1>2

\* Looking for its row, g finds whether it is alone with it, and ends the privacy of
\* those that are there.
LEMMA OwnFind ==
  ASSUME IInv, NEW g \in Handlers, Find(g), NEW h \in Handlers
  PROVE  Own(h)'
<1> USE DEF IInv, TypeOK, Stage, Goto, table, Own, Working, TopicsOf
<1>1. PICK i \in Tokens : /\ id' = [id EXCEPT ![g] = i] /\ Meet(g, i)
                          /\ \/ stage' = [stage EXCEPT ![g] = "insert"]
                             \/ stage' = [stage EXCEPT ![g] = "update"]
  <2>1. IdOf(token[g]) \in Tokens
    BY IdType
  <2>2. CASE \E p \in rows : p[2] = token[g] /\ id' = [id EXCEPT ![g] = p[1]]
               /\ Goto(g, "update") /\ Meet(g, p[1])
    <3>1. PICK p \in rows : p[2] = token[g] /\ id' = [id EXCEPT ![g] = p[1]]
               /\ Goto(g, "update") /\ Meet(g, p[1])
      BY <2>2
    <3>2. p[1] \in Tokens
      OBVIOUS
    <3> QED
      BY <3>1, <3>2
  <2> QED
    BY <2>1, <2>2 DEF Find
<1>2. UNCHANGED <<token, asked, todo, rows, active, subs>>
  BY DEF Find
<1>3. CASE h = g
  <2>1. alone'[g] => \A k \in Handlers \ {g} : Working(k) => id[k] # i
    BY <1>1 DEF Meet
  <2> QED
    BY <1>1, <1>2, <1>3, <2>1
<1>4. CASE h # g
  <2>1. alone'[h] => alone[h] /\ ~(Working(h) /\ id[h] = i)
    BY <1>1, <1>4 DEF Meet
  <2> QED
    BY <1>1, <1>2, <1>4, <2>1
<1> QED
  BY <1>3, <1>4

\* Every step keeps what is known of a handler that is alone with its row: others work
\* on other rows, and whoever comes to this one ends that.
LEMMA OwnStep == IInv /\ [Next]_vars => \A h \in Handlers : Own(h)'
<1> SUFFICES ASSUME IInv, [Next]_vars, NEW h \in Handlers PROVE Own(h)'
  OBVIOUS
<1> USE DEF IInv, TypeOK, Stage, Goto, prefs, request, table, bounds, Own, Working, TopicsOf
<1>1. ASSUME NEW d \in Devices, NewToken(d) PROVE Own(h)'
  BY <1>1 DEF NewToken
<1>2. ASSUME NEW d \in Devices, NEW t \in Topics, SetPushTopic(d, t) PROVE Own(h)'
  BY <1>2 DEF SetPushTopic
<1>3. ASSUME NEW d \in Devices, NEW g \in Handlers, Sync(d, g) PROVE Own(h)'
  BY <1>3 DEF Sync
<1>4. ASSUME NEW g \in Handlers, GiveUp(g) PROVE Own(h)'
  BY <1>4 DEF GiveUp
<1>5. ASSUME NEW g \in Handlers, Find(g) PROVE Own(h)'
  BY <1>5, OwnFind
<1>6. ASSUME NEW g \in Handlers, Insert(g) PROVE Own(h)'
  <2>1. CASE Free(g) /\ UNCHANGED <<rows, active, subs>>
    BY <2>1, OwnFree
  <2>2. CASE /\ stage[g] = "insert" /\ \A p \in rows : p[1] # id[g] /\ p[2] # token[g]
             /\ rows' = rows \cup {<<id[g], token[g]>>} /\ active' = active \cup {id[g]}
             /\ todo' = [todo EXCEPT ![g] = asked[g]] /\ Goto(g, "subscribe")
             /\ UNCHANGED <<from, token, asked, id, alone, subs>>
    <3>1. CASE h = g
      <4>1. \A t \in Topics : <<id[g], t>> \notin subs
        BY <2>2
      <4> QED
        BY <2>2, <3>1, <4>1
    <3>2. CASE h # g
      BY <2>2, <3>2
    <3> QED
      BY <3>1, <3>2
  <2> QED
    BY <1>6, <2>1, <2>2 DEF Insert
<1>7. ASSUME NEW g \in Handlers, Update(g) PROVE Own(h)'
  BY <1>7 DEF Update
<1>8. ASSUME NEW g \in Handlers, Clear(g) PROVE Own(h)'
  <2>1. CASE h = g
    BY <1>8, <2>1 DEF Clear
  <2>2. CASE h # g
    BY <1>8, <2>2 DEF Clear
  <2> QED
    BY <2>1, <2>2
<1>9. ASSUME NEW g \in Handlers, Answer(g) PROVE Own(h)'
  BY <1>9, OwnFree DEF Answer
<1>10. ASSUME NEW g \in Handlers, Abort(g) PROVE Own(h)'
  BY <1>10, OwnFree DEF Abort
<1>11. ASSUME NEW p \in rows, Unregister(p[1]) PROVE Own(h)'
  BY <1>11 DEF Unregister
<1>12. ASSUME NEW g \in Handlers, Subscribe(g) PROVE Own(h)'
  <2>1. PICK t \in todo[g] :
           \/ /\ subs' = subs \cup {<<id[g], t>>} /\ todo' = [todo EXCEPT ![g] = @ \ {t}]
              /\ UNCHANGED <<stage, from, token, asked, id, alone>>
           \/ Free(g) /\ UNCHANGED subs
    BY <1>12 DEF Subscribe
  <2>2. CASE Free(g) /\ UNCHANGED subs
    BY <1>12, <2>2, OwnFree DEF Subscribe
  <2>3. CASE /\ subs' = subs \cup {<<id[g], t>>} /\ todo' = [todo EXCEPT ![g] = @ \ {t}]
             /\ UNCHANGED <<stage, from, token, asked, id, alone>>
    <3>1. CASE h = g
      BY <1>12, <2>3, <3>1 DEF Subscribe
    <3>2. CASE h # g
      BY <1>12, <2>3, <3>2 DEF Subscribe
    <3> QED
      BY <3>1, <3>2
  <2> QED
    BY <2>1, <2>2, <2>3
<1>13. CASE UNCHANGED vars
  BY <1>13 DEF vars
<1> QED
  BY <1>1, <1>2, <1>3, <1>4, <1>5, <1>6, <1>7, <1>8, <1>9, <1>10, <1>11, <1>12, <1>13
     DEF Next, Serve

\* The invariant holds in every state.
LEMMA Invariance == Spec => []IInv
<1>1. Init => IInv
  BY TypesInit, PresentInit, OwnInit DEF IInv
<1>2. IInv /\ [Next]_vars => IInv'
  BY TypesStep, PresentStep, OwnStep DEF IInv
<1> QED
  BY <1>1, <1>2, PTL DEF Spec

(***************************************************************************)
(* Theorems                                                                *)
(***************************************************************************)
\* Every token has one row, every id one token, and topics belong to a row.
THEOREM TypeCorrect == Spec => []TypeOK
<1>1. IInv => TypeOK
  BY DEF IInv
<1> QED
  BY <1>1, Invariance, PTL

\* A request that had its row to itself is answered only when the row is active and has
\* just the topics it asked for.
THEOREM AnswersTrue == Spec => []AnswerTrue
<1>1. IInv => AnswerTrue
  BY DEF IInv, Present, Own, AnswerTrue
<1> QED
  BY <1>1, Invariance, PTL
=============================================================================
