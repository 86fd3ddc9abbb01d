------------------------- MODULE PushDelivery_proofs -------------------------
(***************************************************************************)
(* What PushDelivery guarantees for every number of workers, editors and   *)
(* stories and every limit: how often a story can be repeated, and that    *)
(* the recorded history claims no delivery that did not happen.            *)
(***************************************************************************)
EXTENDS PushDelivery, FiniteSetTheorems, TLAPS

USE PushAssumption

(***************************************************************************)
(* The inductive invariant                                                 *)
(***************************************************************************)
\* The senders of k that found no row and have not sent, and those that have.
Before(k) == {s \in Announcers(k) : key[s] = k /\ stage[s] \in {"checked", "passed"}}
After(k)  == {s \in Announcers(k) : key[s] = k /\ stage[s] = "sent"}

\* A sender announces only what its kind announces.
OwnKey == \A s \in Senders : key[s] # None => key[s] \in KeysOf(s)

\* Who is about to record knows a status, and has made the delivery it tells of.
SentKnown ==
  \A s \in Senders : stage[s] = "sent" =>
    outcome[s] \in Status /\ (outcome[s] = "SENT" => delivered[key[s]] > 0)

\* Before there is a row, every message was sent by someone about to record it, or
\* a fault explains that nobody is; messages sent and still to come are bounded.
ExplainedFor(k) ==
  /\ row[k] = None => delivered[k] <= Cardinality(After(k)) + Used
  /\ delivered[k] + Cardinality(Before(k)) <= Cardinality(Announcers(k)) + Used

Explained == \A k \in Keys : ExplainedFor(k)

IInv == TypeOK /\ OwnKey /\ SentKnown /\ HonestStatus /\ Explained

(***************************************************************************)
(* Counting senders                                                        *)
(***************************************************************************)
\* Sets of senders have sizes, and a part is no larger than the whole.
LEMMA SenderSets ==
  \A S \in SUBSET Senders :
    /\ IsFiniteSet(S) /\ Cardinality(S) \in Nat
    /\ \A T \in SUBSET S : IsFiniteSet(T) /\ Cardinality(T) <= Cardinality(S)
<1>1. IsFiniteSet(Senders)
  BY FS_Union DEF Senders
<1>2. ASSUME NEW S \in SUBSET Senders PROVE IsFiniteSet(S) /\ Cardinality(S) \in Nat
  BY <1>1, FS_Subset, FS_CardinalityType
<1>3. ASSUME NEW S \in SUBSET Senders, NEW T \in SUBSET S
      PROVE  IsFiniteSet(T) /\ Cardinality(T) <= Cardinality(S)
  BY <1>2, FS_Subset
<1> QED
  BY <1>2, <1>3

\* Two disjoint sets of senders of k are together no more than these.
LEMMA TwoParts ==
  ASSUME NEW k \in Keys, NEW S \in SUBSET Announcers(k), NEW T \in SUBSET Announcers(k),
         S \cap T = {}
  PROVE  Cardinality(S) + Cardinality(T) <= Cardinality(Announcers(k))
<1>1. Announcers(k) \in SUBSET Senders
  BY DEF Announcers, Senders
<1>2. IsFiniteSet(S) /\ IsFiniteSet(T) /\ S \cup T \in SUBSET Announcers(k)
  BY <1>1, SenderSets
<1>3. Cardinality(S \cup T) = Cardinality(S) + Cardinality(T)
  <2>1. Cardinality(S \cup T) = Cardinality(S) + Cardinality(T) - Cardinality(S \cap T)
    BY <1>2, FS_Union
  <2>2. Cardinality(S \cap T) = 0
    BY FS_EmptySet
  <2>3. Cardinality(S) \in Nat /\ Cardinality(T) \in Nat
    BY <1>2, FS_CardinalityType
  <2> QED
    BY <2>1, <2>2, <2>3
<1> QED
  BY <1>1, <1>2, <1>3, SenderSets

\* The sizes of both sets of a key, and what one sender more or less makes of one.
LEMMA Parts ==
  ASSUME NEW k \in Keys
  PROVE  /\ Before(k) \in SUBSET Senders /\ After(k) \in SUBSET Senders
         /\ Announcers(k) \in SUBSET Senders
         /\ Cardinality(Before(k)) \in Nat /\ Cardinality(After(k)) \in Nat
         /\ Cardinality(Announcers(k)) \in Nat
  BY SenderSets DEF Before, After, Announcers, Senders

\* One sender more or less in a set.
LEMMA OneMore ==
  ASSUME NEW S \in SUBSET Senders, NEW s \in Senders
  PROVE  /\ s \notin S => Cardinality(S \cup {s}) = Cardinality(S) + 1
         /\ s \in S => Cardinality(S \ {s}) = Cardinality(S) - 1
         /\ Cardinality(S) <= Cardinality(S \ {s}) + 1
         /\ Cardinality(S \ {s}) \in Nat
<1>1. IsFiniteSet(S) /\ Cardinality(S) \in Nat /\ S \ {s} \in SUBSET Senders
  BY SenderSets
<1>2. Cardinality(S \ {s}) \in Nat
  BY <1>1, SenderSets
<1>3. s \notin S => Cardinality(S \cup {s}) = Cardinality(S) + 1
  BY <1>1, FS_AddElement
<1>4. s \in S => Cardinality(S \ {s}) = Cardinality(S) - 1
  BY <1>1, FS_RemoveElement
<1>5. Cardinality(S) <= Cardinality(S \ {s}) + 1
  <2>1. CASE s \in S
    BY <1>1, <1>4, <2>1
  <2>2. CASE s \notin S
    <3>1. S \ {s} = S
      BY <2>2
    <3> QED
      BY <1>1, <3>1
  <2> QED
    BY <2>1, <2>2
<1> QED
  BY <1>2, <1>3, <1>4, <1>5

(***************************************************************************)
(* Types                                                                   *)
(***************************************************************************)
\* The initial state has its types.
LEMMA TypesInit == Init => TypeOK
  BY DEF Init, TypeOK, Stage, Status

\* Leave and Goto keep the columns of a sender typed.
LEMMA TypesStep == TypeOK /\ [Next]_vars => TypeOK'
<1> SUFFICES ASSUME TypeOK, [Next]_vars PROVE TypeOK'
  OBVIOUS
<1> USE DEF TypeOK, Stage, Status, Goto, Leave, Assemble, sender, table, history
<1>1. ASSUME NEW s \in Senders, NEW k \in Keys, CheckNew(s, k) PROVE TypeOK'
  BY <1>1 DEF CheckNew
<1>2. ASSUME NEW s \in Senders, Throttle(s) PROVE TypeOK'
  BY <1>2 DEF Throttle
<1>3. ASSUME NEW s \in Senders, ThrottleBlind(s) PROVE TypeOK'
  BY <1>3 DEF ThrottleBlind
<1>4. ASSUME NEW s \in Senders, SendSucceeds(s) PROVE TypeOK'
  BY <1>4 DEF SendSucceeds, MaySend, Accepted, Finish
<1>5. ASSUME NEW s \in Senders, SendDry(s) PROVE TypeOK'
  BY <1>5 DEF SendDry, MaySend, Finish
<1>6. ASSUME NEW s \in Senders, SendFails(s) PROVE TypeOK'
  BY <1>6 DEF SendFails, MaySend, Accepted, Finish
<1>7. ASSUME NEW s \in Senders, Record(s) PROVE TypeOK'
  BY <1>7 DEF Record
<1>8. ASSUME NEW s \in Senders, Lose(s) PROVE TypeOK'
  BY <1>8 DEF Lose
<1>9. CASE Tick
  BY <1>9 DEF Tick, Less
<1>10. CASE UNCHANGED vars
  BY <1>10 DEF vars
<1> QED
  BY <1>1, <1>2, <1>3, <1>4, <1>5, <1>6, <1>7, <1>8, <1>9, <1>10 DEF Next, Step

(***************************************************************************)
(* Keys and outcomes of senders                                            *)
(***************************************************************************)
\* Nobody takes up a key of the other kind.
LEMMA OwnKeyStep == TypeOK /\ OwnKey /\ [Next]_vars => OwnKey'
<1> SUFFICES ASSUME TypeOK, OwnKey, [Next]_vars, NEW q \in Senders, key'[q] # None
             PROVE  key'[q] \in KeysOf(q)
  BY DEF OwnKey, KeysOf
<1> USE DEF TypeOK, OwnKey, Goto, Leave, sender, table, history
<1>1. ASSUME NEW s \in Senders, NEW k \in Keys, CheckNew(s, k) PROVE key'[q] \in KeysOf(q)
  BY <1>1 DEF CheckNew
<1>2. ASSUME NEW s \in Senders, Throttle(s) \/ Record(s) \/ Lose(s)
      PROVE  key'[q] \in KeysOf(q)
  BY <1>2 DEF Throttle, Record, Lose
<1>3. CASE UNCHANGED key
  BY <1>3
<1>4. ASSUME NEW s \in Senders,
             ThrottleBlind(s) \/ SendSucceeds(s) \/ SendDry(s) \/ SendFails(s)
      PROVE  UNCHANGED key
  BY <1>4 DEF ThrottleBlind, SendSucceeds, SendDry, SendFails, Finish
<1>5. Tick \/ UNCHANGED vars => UNCHANGED key
  BY DEF Tick, vars
<1> QED
  BY <1>1, <1>2, <1>3, <1>4, <1>5 DEF Next, Step

\* Nothing takes a delivery back.
LEMMA OnlyMore ==
  TypeOK /\ [Next]_vars => \A k \in Keys : delivered[k] <= delivered'[k]
<1> SUFFICES ASSUME TypeOK, [Next]_vars, NEW k \in Keys PROVE delivered[k] <= delivered'[k]
  OBVIOUS
<1> USE DEF TypeOK, sender, table, history
<1>1. ASSUME NEW s \in Senders, MaySend(s) PROVE key[s] \in Keys
  BY <1>1 DEF MaySend
<1>2. ASSUME NEW s \in Senders, SendSucceeds(s) \/ SendFails(s)
      PROVE  delivered[k] <= delivered'[k]
  BY <1>1, <1>2 DEF SendSucceeds, SendFails, Accepted
<1>3. CASE UNCHANGED delivered
  BY <1>3
<1>4. ASSUME NEW s \in Senders, NEW q \in Keys, CheckNew(s, q) PROVE UNCHANGED delivered
  BY <1>4 DEF CheckNew
<1>5. ASSUME NEW s \in Senders,
             Throttle(s) \/ ThrottleBlind(s) \/ SendDry(s) \/ Record(s) \/ Lose(s)
      PROVE  UNCHANGED delivered
  BY <1>5 DEF Throttle, ThrottleBlind, SendDry, Record, Lose
<1>6. Tick \/ UNCHANGED vars => UNCHANGED delivered
  BY DEF Tick, vars
<1> QED
  BY <1>2, <1>3, <1>4, <1>5, <1>6 DEF Next, Step

\* Who comes back from Send knows its status, and keeps it until it records it.
LEMMA SentKnownStep == TypeOK /\ SentKnown /\ [Next]_vars => SentKnown'
<1> DEFINE Known(q) ==
      outcome'[q] \in Status /\ (outcome'[q] = "SENT" => delivered'[key'[q]] > 0)
<1> SUFFICES ASSUME TypeOK, SentKnown, [Next]_vars, NEW q \in Senders, stage'[q] = "sent"
             PROVE  Known(q)
  BY DEF SentKnown
<1>1. \A k \in Keys : delivered[k] \in Nat /\ delivered'[k] \in Nat /\ delivered[k] <= delivered'[k]
  BY OnlyMore, TypesStep DEF TypeOK
\* A sender that was about to record already:
<1>2. CASE stage[q] = "sent" /\ outcome'[q] = outcome[q] /\ key'[q] = key[q]
  <2>1. key[q] \in Keys
    BY <1>2 DEF TypeOK
  <2>2. outcome[q] \in Status /\ (outcome[q] = "SENT" => delivered[key[q]] > 0)
    BY <1>2 DEF SentKnown
  <2> QED
    BY <1>1, <1>2, <2>1, <2>2
<1> USE DEF TypeOK, Goto, Leave, sender, table, history
<1>3. ASSUME NEW s \in Senders, SendSucceeds(s) PROVE Known(q)
  <2>1. CASE q = s
    <3>1. key[s] \in Keys /\ key'[q] = key[s] /\ outcome'[q] = "SENT"
      BY <1>3, <2>1 DEF SendSucceeds, MaySend, Finish
    <3>2. delivered'[key[s]] = delivered[key[s]] + 1
      BY <1>3, <3>1 DEF SendSucceeds, Accepted
    <3> QED
      BY <1>1, <3>1, <3>2 DEF Status
  <2>2. CASE q # s
    BY <1>2, <1>3, <2>2 DEF SendSucceeds, Finish
  <2> QED
    BY <2>1, <2>2
<1>4. ASSUME NEW s \in Senders, SendDry(s) \/ SendFails(s) PROVE Known(q)
  <2>1. CASE q = s
    BY <1>4, <2>1 DEF SendDry, SendFails, Finish, Status
  <2>2. CASE q # s
    BY <1>2, <1>4, <2>2 DEF SendDry, SendFails, Finish
  <2> QED
    BY <2>1, <2>2
<1>5. ASSUME NEW s \in Senders, NEW k \in Keys, CheckNew(s, k) PROVE Known(q)
  <2>1. q # s
    BY <1>5 DEF CheckNew
  <2> QED
    BY <1>2, <1>5, <2>1 DEF CheckNew
<1>6. ASSUME NEW s \in Senders, Throttle(s) \/ ThrottleBlind(s) \/ Record(s) \/ Lose(s)
      PROVE  Known(q)
  <2>1. q # s
    BY <1>6 DEF Throttle, ThrottleBlind, Record, Lose
  <2> QED
    BY <1>2, <1>6, <2>1 DEF Throttle, ThrottleBlind, Record, Lose
<1>7. CASE Tick \/ UNCHANGED vars
  BY <1>2, <1>7 DEF Tick, vars
<1> QED
  BY <1>3, <1>4, <1>5, <1>6, <1>7 DEF Next, Step

\* Only Record writes SENT, for a sender whose message was accepted.
LEMMA HonestStep ==
  TypeOK /\ SentKnown /\ HonestStatus /\ [Next]_vars => HonestStatus'
<1> SUFFICES ASSUME TypeOK, SentKnown, HonestStatus, [Next]_vars, NEW k \in Keys,
                    row'[k] = "SENT"
             PROVE  delivered'[k] > 0
  BY DEF HonestStatus
<1>1. delivered[k] \in Nat /\ delivered'[k] \in Nat /\ delivered[k] <= delivered'[k]
  BY OnlyMore, TypesStep DEF TypeOK
<1>2. CASE row[k] = "SENT"
  BY <1>1, <1>2 DEF HonestStatus
<1> USE DEF TypeOK, sender, table, history
<1>3. ASSUME NEW s \in Senders, Record(s) PROVE delivered'[k] > 0
  <2>1. key[s] \in Keys /\ UNCHANGED delivered
    BY <1>3 DEF Record
  <2>2. CASE k = key[s] /\ row[k] = None
    <3>1. outcome[s] = "SENT" /\ stage[s] = "sent"
      BY <1>3, <2>2 DEF Record
    <3> QED
      BY <2>1, <2>2, <3>1 DEF SentKnown
  <2>3. CASE ~(k = key[s] /\ row[k] = None)
    BY <1>2, <1>3, <2>1, <2>3 DEF Record
  <2> QED
    BY <2>2, <2>3
<1>4. CASE UNCHANGED row
  BY <1>2, <1>4
<1>5. ASSUME NEW s \in Senders, NEW q \in Keys, CheckNew(s, q) PROVE UNCHANGED row
  BY <1>5 DEF CheckNew
<1>6. ASSUME NEW s \in Senders, Throttle(s) \/ ThrottleBlind(s) \/ SendSucceeds(s) \/
             SendDry(s) \/ SendFails(s) \/ Lose(s)
      PROVE  UNCHANGED row
  BY <1>6 DEF Throttle, ThrottleBlind, SendSucceeds, SendDry, SendFails, Finish, Lose
<1>7. Tick \/ UNCHANGED vars => UNCHANGED row
  BY DEF Tick, vars
<1> QED
  BY <1>3, <1>4, <1>5, <1>6, <1>7 DEF Next, Step

(***************************************************************************)
(* Repetitions                                                             *)
(***************************************************************************)
\* Fewer senders still to come and no more messages, or faults that make up for it.
LEMMA NotMore ==
  ASSUME TypeOK, TypeOK', NEW k \in Keys, ExplainedFor(k),
         UNCHANGED <<row[k], delivered[k]>>,
         Before(k)' \in SUBSET Before(k),
         \/ After(k)' = After(k) /\ faults' <= faults
         \/ \E s \in Senders : After(k)' = After(k) \ {s} /\ faults' = faults - 1
  PROVE  ExplainedFor(k)'
<1>1. /\ delivered[k] \in Nat /\ faults \in Nat /\ faults' \in Nat
      /\ MaxFaults - faults \in Nat
  BY DEF TypeOK
<1>2. /\ Cardinality(Before(k)') <= Cardinality(Before(k))
      /\ Cardinality(Before(k)') \in Nat
  BY Parts, SenderSets
<1>3. Cardinality(After(k)) <= Cardinality(After(k)') + faults - faults'
  <2>1. CASE After(k)' = After(k) /\ faults' <= faults
    BY <1>1, <2>1, Parts
  <2>2. ASSUME NEW s \in Senders, After(k)' = After(k) \ {s}, faults' = faults - 1
        PROVE  Cardinality(After(k)) <= Cardinality(After(k)') + faults - faults'
    <3>1. After(k) \in SUBSET Senders /\ Cardinality(After(k)) \in Nat
      BY Parts
    <3>2. /\ Cardinality(After(k)) <= Cardinality(After(k) \ {s}) + 1
          /\ Cardinality(After(k) \ {s}) \in Nat
      BY <3>1, OneMore
    <3>3. Cardinality(After(k)') = Cardinality(After(k) \ {s})
      BY <2>2
    <3> QED
      BY <1>1, <2>2, <3>1, <3>2, <3>3
  <2> QED
    BY <2>1, <2>2
<1>4. faults' <= faults /\ Cardinality(After(k)') \in Nat
  <2>1. After(k)' \in SUBSET Senders
    BY DEF After, Announcers
  <2> QED
    BY <1>1, <2>1, SenderSets
<1> QED
  BY <1>1, <1>2, <1>3, <1>4, Parts DEF ExplainedFor, Used

\* A message: its sender leaves one set for the other.
LEMMA OneSent ==
  ASSUME TypeOK, TypeOK', NEW k \in Keys, ExplainedFor(k), NEW s \in Before(k),
         row'[k] = row[k], delivered'[k] \in {delivered[k], delivered[k] + 1},
         Before(k)' = Before(k) \ {s}, After(k)' = After(k) \cup {s},
         faults' <= faults
  PROVE  ExplainedFor(k)'
<1>1. /\ delivered[k] \in Nat /\ delivered'[k] \in Nat /\ faults \in Nat /\ faults' \in Nat
      /\ MaxFaults - faults \in Nat
  BY DEF TypeOK
<1>2. s \in Senders /\ s \notin After(k)
  BY Parts DEF Before, After
<1>3. Cardinality(Before(k)') = Cardinality(Before(k)) - 1
  BY <1>2, OneMore, Parts
<1>4. Cardinality(After(k)') = Cardinality(After(k)) + 1
  BY <1>2, OneMore, Parts
<1> QED
  BY <1>1, <1>3, <1>4, Parts DEF ExplainedFor, Used

\* Every step keeps the count of what came and may still come, for every key.
LEMMA ExplainedStep ==
  TypeOK /\ OwnKey /\ SentKnown /\ Explained /\ [Next]_vars => Explained'
<1> SUFFICES ASSUME TypeOK, OwnKey, SentKnown, Explained, [Next]_vars, NEW k \in Keys
             PROVE  ExplainedFor(k)'
  BY DEF Explained
<1>1. TypeOK' /\ ExplainedFor(k)
  BY TypesStep DEF Explained
<1> USE DEF TypeOK, Goto, Leave, sender, table, history
\* One sender more found no row: all that were sent are still about to be recorded.
<1>2. ASSUME NEW s \in Senders, NEW q \in Keys, CheckNew(s, q) PROVE ExplainedFor(k)'
  <2>1. /\ UNCHANGED <<row, delivered, faults>> /\ After(k)' = After(k)
        /\ s \notin Before(k) /\ s \notin After(k)
    BY <1>2 DEF CheckNew, Before, After
  <2>2. CASE q = k /\ s \in Announcers(k)
    <3>1. Before(k)' = Before(k) \cup {s} /\ row[k] = None
      BY <1>2, <2>2 DEF CheckNew, Before
    <3>2. Cardinality(Before(k)') + Cardinality(After(k)) <= Cardinality(Announcers(k))
      <4>1. /\ Before(k) \cup {s} \in SUBSET Announcers(k) /\ After(k) \in SUBSET Announcers(k)
            /\ (Before(k) \cup {s}) \cap After(k) = {}
        BY <2>1, <2>2 DEF Before, After
      <4> QED
        BY <3>1, <4>1, TwoParts
    <3>3. Cardinality(Before(k)') = Cardinality(Before(k)) + 1
      BY <2>1, <3>1, OneMore, Parts
    <3>4. delivered[k] <= Cardinality(After(k)) + Used /\ Used \in Nat /\ delivered[k] \in Nat
      BY <1>1, <3>1 DEF ExplainedFor, Used
    <3>5. Used' = Used /\ delivered'[k] = delivered[k] /\ row'[k] = None
      BY <2>1, <3>1 DEF Used
    <3> QED
      BY <2>1, <3>2, <3>3, <3>4, <3>5, Parts DEF ExplainedFor
  <2>3. CASE ~(q = k /\ s \in Announcers(k))
    <3>1. Before(k)' = Before(k)
      BY <1>2, <2>3 DEF CheckNew, Before
    <3> QED
      BY <1>1, <2>1, <3>1, NotMore
  <2> QED
    BY <2>2, <2>3
<1>3. ASSUME NEW s \in Senders, Throttle(s) PROVE ExplainedFor(k)'
  <2>1. UNCHANGED <<row, delivered, faults>> /\ stage[s] = "checked"
    BY <1>3 DEF Throttle
  <2>2. CASE Leave(s)
    <3>1. After(k)' = After(k) /\ Before(k)' \in SUBSET Before(k)
      BY <2>1, <2>2 DEF Before, After
    <3> QED
      BY <1>1, <2>1, <3>1, NotMore
  <2>3. CASE Goto(s, "passed") /\ UNCHANGED key
    <3>1. After(k)' = After(k) /\ Before(k)' = Before(k)
      BY <2>1, <2>3 DEF Before, After
    <3> QED
      BY <1>1, <2>1, <3>1, NotMore
  <2> QED
    BY <1>3, <2>2, <2>3 DEF Throttle
<1>4. ASSUME NEW s \in Senders, ThrottleBlind(s) PROVE ExplainedFor(k)'
  <2>1. /\ UNCHANGED <<row, delivered>> /\ faults' <= faults /\ After(k)' = After(k)
        /\ Before(k)' = Before(k)
    BY <1>4 DEF ThrottleBlind, Before, After
  <2> QED
    BY <1>1, <2>1, NotMore
<1>5. ASSUME NEW s \in Senders, SendDry(s) PROVE ExplainedFor(k)'
  <2>1. s \notin Announcers(k) /\ UNCHANGED <<row, delivered, faults>>
    BY <1>5 DEF SendDry, Finish, Announcers
  <2>2. After(k)' = After(k) /\ Before(k)' = Before(k)
    BY <1>5, <2>1 DEF SendDry, Finish, Before, After
  <2> QED
    BY <1>1, <2>1, <2>2, NotMore
<1>6. ASSUME NEW s \in Senders, SendSucceeds(s) \/ SendFails(s) PROVE ExplainedFor(k)'
  <2>1. /\ MaySend(s) /\ s \in Wet /\ (Finish(s, "SENT") \/ Finish(s, "FAILED"))
        /\ stage[s] \in {"checked", "passed"} /\ key[s] \in Keys
    BY <1>6 DEF SendSucceeds, SendFails, MaySend
  <2>2. UNCHANGED <<row, key>> /\ faults' <= faults
    BY <1>6 DEF SendSucceeds, SendFails, Finish
  <2>3. stage' = [stage EXCEPT ![s] = "sent"]
    BY <1>6 DEF SendSucceeds, SendFails, Finish
  <2>4. delivered' = [delivered EXCEPT ![key[s]] = @ + 1] \/ UNCHANGED delivered
    BY <1>6 DEF SendSucceeds, SendFails, Accepted
  <2>5. CASE key[s] = k
    <3>1. s \in Before(k)
      <4>1. s \in Announcers(k)
        BY <1>6, <2>5 DEF OwnKey, Announcers, SendSucceeds, SendFails
      <4> QED
        BY <2>1, <2>5, <4>1 DEF Before
    <3>2. Before(k)' = Before(k) \ {s} /\ After(k)' = After(k) \cup {s}
      BY <2>2, <2>3, <2>5, <3>1 DEF Before, After
    <3>3. delivered'[k] \in {delivered[k], delivered[k] + 1} /\ row'[k] = row[k]
      BY <2>2, <2>4, <2>5
    <3> QED
      BY <1>1, <2>2, <3>1, <3>2, <3>3, OneSent
  <2>6. CASE key[s] # k
    <3>1. Before(k)' = Before(k) /\ After(k)' = After(k)
      BY <2>2, <2>3, <2>6 DEF Before, After
    <3>2. delivered'[k] = delivered[k] /\ row'[k] = row[k]
      BY <2>2, <2>4, <2>6
    <3> QED
      BY <1>1, <2>2, <3>1, <3>2, NotMore
  <2> QED
    BY <2>5, <2>6
<1>7. ASSUME NEW s \in Senders, Record(s) PROVE ExplainedFor(k)'
  <2>1. /\ UNCHANGED <<delivered, faults>> /\ Before(k)' = Before(k) /\ key[s] \in Keys
    BY <1>7 DEF Record, Before
  <2>2. CASE key[s] = k
    <3>1. row'[k] # None
      <4>1. CASE row[k] = None
        <5>1. outcome[s] # None
          BY <1>7 DEF Record, SentKnown, Status
        <5>2. row'[k] = outcome[s]
          BY <1>7, <2>2, <4>1 DEF Record
        <5> QED
          BY <5>1, <5>2
      <4>2. CASE row[k] # None
        BY <1>7, <2>2, <4>2 DEF Record
      <4> QED
        BY <4>1, <4>2
    <3> QED
      BY <1>1, <2>1, <3>1 DEF ExplainedFor, Used
  <2>3. CASE key[s] # k
    <3>1. After(k)' = After(k) /\ row'[k] = row[k]
      BY <1>7, <2>1, <2>3 DEF Record, After
    <3> QED
      BY <1>1, <2>1, <3>1, NotMore
  <2> QED
    BY <2>2, <2>3
<1>8. ASSUME NEW s \in Senders, Lose(s) PROVE ExplainedFor(k)'
  <2>1. /\ UNCHANGED <<row, delivered>> /\ faults' = faults - 1
        /\ After(k)' = After(k) \ {s} /\ Before(k)' \in SUBSET Before(k)
    BY <1>8 DEF Lose, Before, After
  <2> QED
    BY <1>1, <2>1, NotMore
<1>9. CASE Tick \/ UNCHANGED vars
  <2>1. /\ UNCHANGED <<row, delivered, faults>> /\ After(k)' = After(k)
        /\ Before(k)' = Before(k)
    BY <1>9 DEF Tick, vars, Before, After
  <2> QED
    BY <1>1, <2>1, NotMore
<1> QED
  BY <1>2, <1>3, <1>4, <1>5, <1>6, <1>7, <1>8, <1>9 DEF Next, Step

(***************************************************************************)
(* The theorems                                                            *)
(***************************************************************************)
\* Initially nothing is announced.
LEMMA InitInv == Init => IInv
<1> SUFFICES ASSUME Init PROVE IInv
  OBVIOUS
<1>1. TypeOK
  BY TypesInit
<1>2. OwnKey /\ SentKnown /\ HonestStatus
  BY DEF Init, OwnKey, SentKnown, HonestStatus, Status
<1>3. ASSUME NEW k \in Keys PROVE ExplainedFor(k)
  <2>1. Before(k) = {} /\ After(k) = {} /\ delivered[k] = 0 /\ Used = 0
    BY DEF Init, Before, After, Announcers, Senders, Used
  <2>2. Cardinality(Before(k)) = 0 /\ Cardinality(After(k)) = 0
    BY <2>1, FS_EmptySet
  <2> QED
    BY <2>1, <2>2, Parts DEF ExplainedFor
<1> QED
  BY <1>1, <1>2, <1>3 DEF IInv, Explained

\* The five parts together are inductive.
LEMMA InvStep == IInv /\ [Next]_vars => IInv'
  BY TypesStep, OwnKeyStep, SentKnownStep, HonestStep, ExplainedStep DEF IInv

\* The invariant above holds in every state enqueuePush and handleAdminPushSend reach.
THEOREM Inductive == Spec => []IInv
  BY InitInv, InvStep, PTL DEF Spec

\* Whoever is at work has a key, and the columns hold what their types allow.
THEOREM TypeCorrect == Spec => []TypeOK
<1>1. IInv => TypeOK
  BY DEF IInv
<1> QED
  BY <1>1, Inductive, PTL

\* A story is repeated no more often than there were senders on their way when its row
\* was written, plus once for every fault.
THEOREM RepeatsKept == Spec => []RepeatsBounded
<1>1. IInv => RepeatsBounded
  <2> SUFFICES ASSUME IInv, NEW k \in Keys
               PROVE  delivered[k] <= Cardinality(Announcers(k)) + Used
    BY DEF RepeatsBounded
  <2>1. delivered[k] + Cardinality(Before(k)) <= Cardinality(Announcers(k)) + Used
    BY DEF IInv, Explained, ExplainedFor
  <2>2. delivered[k] \in Nat /\ Used \in Nat
    BY DEF IInv, TypeOK, Used
  <2> QED
    BY <2>1, <2>2, Parts
<1> QED
  BY <1>1, Inductive, PTL

\* "Pushes are deduplicated" holds in full where no two senders can announce one story
\* and no step fails: the claim is lost to rivals and faults only.
THEOREM AloneOnce ==
  ASSUME MaxFaults = 0, \A k \in Keys : Cardinality(Announcers(k)) <= 1
  PROVE  Spec => []DeliveredOnce
<1>1. IInv /\ RepeatsBounded => DeliveredOnce
  <2> SUFFICES ASSUME IInv, RepeatsBounded, NEW k \in Keys PROVE delivered[k] <= 1
    BY DEF DeliveredOnce
  <2>1. delivered[k] <= Cardinality(Announcers(k)) + Used
    BY DEF RepeatsBounded
  <2>2. delivered[k] \in Nat /\ faults \in Nat /\ Used = 0 - faults
    BY DEF IInv, TypeOK, Used
  <2>3. Cardinality(Announcers(k)) \in Nat /\ Cardinality(Announcers(k)) <= 1
    BY Parts
  <2> QED
    BY <2>1, <2>2, <2>3
<1> QED
  BY <1>1, Inductive, RepeatsKept, PTL

\* A row that says SENT tells of a message that FCM accepted, whichever of several
\* rivals wrote it.
THEOREM HistoryIsHonest == Spec => []HonestStatus
<1>1. IInv => HonestStatus
  BY DEF IInv
<1> QED
  BY <1>1, Inductive, PTL

(***************************************************************************)
(* The limits per hour and per day                                         *)
(***************************************************************************)
\* A worker whose message FCM accepted, about to record that.
Reported(s) == stage[s] = "sent" /\ outcome[s] = "SENT"

\* The workers that are past the throttle and whose story no row may count yet.
Ahead == {s \in Ingest : stage[s] = "passed" \/ Reported(s)}

\* The workers' stories that no row counts, and none will: FCM had the message, or the
\* send failed. A fault explains each of them.
Untold ==
  {k \in IngestKeys :
     /\ row[k] # "SENT"
     /\ \/ row[k] # None
        \/ \E s \in Ingest : stage[s] = "sent" /\ outcome[s] # "SENT" /\ key[s] = k
        \/ delivered[k] > 0 /\ \A s \in Ingest : ~(Reported(s) /\ key[s] = k)}

\* The rows of stories that a count since that time includes; all rows.
IngestRows(since) == {k \in IngestKeys : row[k] = "SENT" /\ rowLeft[k] > since}
Rows == {k \in Keys : row[k] # None}

\* A row or a report is not older than the first event of its story.
NotOlder ==
  /\ \A k \in IngestKeys :
       /\ delivered[k] = 0 => newsLeft[k] = 0
       /\ row[k] = "SENT" => newsLeft[k] <= rowLeft[k]
  /\ \A s \in Ingest : Reported(s) => newsLeft[key[s]] <= born[s]

\* What rows count, what they will count and what they miss.
WithinLimit(since, limit) ==
  Cardinality(IngestRows(since)) + Cardinality(Ahead) + Cardinality(Untold)
    <= limit + (Cardinality(Ingest) - 1) + Used

Counted ==
  /\ IsFiniteSet(Rows) /\ IsFiniteSet(Untold) /\ Cardinality(Untold) <= Used
  /\ WithinLimit(Day - Hour, PerHour) /\ WithinLimit(0, PerDay)

ThrottleInv == Ingest \subseteq Wet => NotOlder /\ Counted

\* Who is at work announces what its kind announces; an editor does not touch the
\* workers' stories.
LEMMA OwnStories ==
  ASSUME TypeOK, OwnKey, NEW s \in Senders, stage[s] # "idle"
  PROVE  /\ key[s] \in Keys
         /\ s \in Ingest => key[s] \in IngestKeys
         /\ s \in Editors => key[s] \notin IngestKeys
<1>1. key[s] # None
  BY DEF TypeOK
<1> QED
  BY <1>1 DEF TypeOK, OwnKey, KeysOf, Senders, Keys

\* The earliest event of a delivered story is never replaced by a later one.
LEMMA EarliestStays ==
  ASSUME TypeOK, OwnKey, NEW s \in Senders, MaySend(s), Accepted(s, key[s])
  PROVE  /\ \A k \in Keys : delivered[k] > 0 => newsLeft'[k] <= newsLeft[k]
         /\ s \in Ingest => newsLeft'[key[s]] <= born[s]
         /\ \A k \in Keys : delivered'[k] = 0 => delivered[k] = 0 /\ newsLeft'[k] = newsLeft[k]
<1>1. key[s] \in Keys
  BY OwnStories DEF MaySend
<1> QED
  BY <1>1 DEF TypeOK, Accepted

\* Nothing makes a row or a report older than the first event of its story.
LEMMA NotOlderStep ==
  ASSUME TypeOK, TypeOK', OwnKey, SentKnown, HonestStatus, NotOlder, [Next]_vars
  PROVE  NotOlder'
<1>1. \A k \in IngestKeys : row[k] = "SENT" => delivered[k] > 0
  BY DEF HonestStatus, Keys
<1>2. \A s \in Ingest : Reported(s) => delivered[key[s]] > 0 /\ key[s] \in IngestKeys
  BY OwnStories DEF SentKnown, Reported, Senders
<1>3. ASSUME NEW s \in Senders, NEW k \in Keys, CheckNew(s, k) PROVE NotOlder'
  BY <1>3 DEF CheckNew, Assemble, Goto, NotOlder, Reported, TypeOK, table, history, Senders
<1>4. ASSUME NEW s \in Senders, Throttle(s) \/ ThrottleBlind(s) PROVE NotOlder'
  BY <1>4 DEF Throttle, ThrottleBlind, Assemble, Leave, Goto, NotOlder, Reported, TypeOK,
              table, history, Senders
<1>5. ASSUME NEW s \in Senders, SendDry(s) PROVE NotOlder'
  BY <1>5 DEF SendDry, Finish, Goto, NotOlder, Reported, TypeOK, table, history, Senders
<1>6. ASSUME NEW s \in Senders, SendSucceeds(s) \/ SendFails(s), Accepted(s, key[s])
      PROVE  NotOlder'
  <2>1. /\ MaySend(s) /\ UNCHANGED <<key, born, table>>
        /\ \A t \in Senders \ {s} : stage'[t] = stage[t] /\ outcome'[t] = outcome[t]
    BY <1>6 DEF SendSucceeds, SendFails, Finish, Goto, TypeOK
  <2>2. /\ \A k \in Keys : delivered[k] > 0 => newsLeft'[k] <= newsLeft[k]
        /\ s \in Ingest => newsLeft'[key[s]] <= born[s]
        /\ \A k \in Keys : delivered'[k] = 0 => delivered[k] = 0 /\ newsLeft'[k] = newsLeft[k]
    BY <1>6, <2>1, EarliestStays
  <2>3. ASSUME NEW k \in IngestKeys
        PROVE  /\ delivered'[k] = 0 => newsLeft'[k] = 0
               /\ row'[k] = "SENT" => newsLeft'[k] <= rowLeft'[k]
    <3>1. /\ k \in Keys /\ row'[k] = row[k] /\ rowLeft'[k] = rowLeft[k]
          /\ newsLeft[k] \in Int /\ newsLeft'[k] \in Int /\ rowLeft[k] \in Int
      BY <2>1 DEF Keys, table, TypeOK
    <3> QED
      BY <1>1, <2>2, <3>1 DEF NotOlder
  <2>4. ASSUME NEW t \in Ingest, Reported(t)' PROVE newsLeft'[key'[t]] <= born'[t]
    <3>1. CASE t = s
      BY <2>1, <2>2, <3>1
    <3>2. CASE t # s
      <4>1. Reported(t)
        BY <2>1, <2>4, <3>2 DEF Reported, Senders
      <4>2. key[t] \in Keys /\ delivered[key[t]] > 0 /\ newsLeft[key[t]] <= born[t]
        BY <1>2, <4>1 DEF NotOlder, Keys
      <4>3. newsLeft[key[t]] \in Int /\ newsLeft'[key[t]] \in Int /\ born[t] \in Int
        BY <4>2 DEF TypeOK, Senders
      <4> QED
        BY <2>1, <2>2, <4>2, <4>3
    <3> QED
      BY <3>1, <3>2
  <2> QED
    BY <2>3, <2>4 DEF NotOlder
<1>7. ASSUME NEW s \in Senders, SendFails(s), UNCHANGED history PROVE NotOlder'
  BY <1>7 DEF SendFails, Finish, Goto, NotOlder, Reported, TypeOK, table, history, Senders
<1>8. ASSUME NEW s \in Senders, Record(s) PROVE NotOlder'
  <2>1. UNCHANGED history /\ key[s] \in Keys /\ stage[s] = "sent"
    BY <1>8, OwnStories DEF Record
  <2>2. ASSUME NEW k \in IngestKeys, row'[k] = "SENT" PROVE newsLeft[k] <= rowLeft'[k]
    <3>1. CASE row'[k] = row[k] /\ rowLeft'[k] = rowLeft[k]
      BY <2>2, <3>1 DEF NotOlder
    <3>2. CASE key[s] = k /\ row'[k] = outcome[s] /\ rowLeft'[k] = born[s]
      <4>1. s \in Ingest /\ Reported(s)
        BY <2>1, <2>2, <3>2, OwnStories DEF Reported, Senders
      <4> QED
        BY <3>2, <4>1 DEF NotOlder
    <3> QED
      BY <1>8, <2>1, <3>1, <3>2 DEF Record, table, TypeOK, Keys
  <2>3. \A t \in Senders : Reported(t)' => Reported(t) /\ key'[t] = key[t] /\ born'[t] = born[t]
    BY <1>8 DEF Record, Leave, Goto, Reported, TypeOK
  <2> QED
    BY <2>1, <2>2, <2>3 DEF NotOlder, history, Senders
<1>9. ASSUME NEW s \in Senders, Lose(s) PROVE NotOlder'
  BY <1>9 DEF Lose, Leave, Goto, NotOlder, Reported, TypeOK, table, history, Senders
<1>10. CASE Tick
  <2>1. \A m, n \in Nat : m <= n => Less(m) <= Less(n)
    BY DEF Less
  <2>2. UNCHANGED <<stage, key, outcome, row, delivered>> /\ Less(0) = 0
    BY <1>10 DEF Tick, Less
  <2>3. ASSUME NEW k \in IngestKeys
        PROVE  /\ delivered'[k] = 0 => newsLeft'[k] = 0
               /\ row'[k] = "SENT" => newsLeft'[k] <= rowLeft'[k]
    <3>1. /\ newsLeft'[k] = Less(newsLeft[k]) /\ rowLeft'[k] = Less(rowLeft[k])
          /\ newsLeft[k] \in Nat /\ rowLeft[k] \in Nat
      BY <1>10 DEF Tick, TypeOK, Keys
    <3> QED
      BY <2>1, <2>2, <3>1 DEF NotOlder
  <2>4. ASSUME NEW t \in Ingest, Reported(t)' PROVE newsLeft'[key'[t]] <= born'[t]
    <3>1. Reported(t) /\ key'[t] = key[t]
      BY <2>2, <2>4 DEF Reported
    <3>2. newsLeft[key[t]] <= born[t] /\ key[t] \in Keys
      BY <1>2, <3>1 DEF NotOlder, Keys
    <3>3. /\ newsLeft'[key[t]] = Less(newsLeft[key[t]]) /\ born'[t] = Less(born[t])
          /\ newsLeft[key[t]] \in Nat /\ born[t] \in Nat
      BY <1>10, <3>2 DEF Tick, TypeOK, Senders
    <3> QED
      BY <2>1, <3>1, <3>2, <3>3
  <2> QED
    BY <2>3, <2>4 DEF NotOlder
<1>11. CASE UNCHANGED vars
  BY <1>11 DEF vars, sender, table, history, NotOlder, Reported
<1> QED
  BY <1>3, <1>4, <1>5, <1>6, <1>7, <1>8, <1>9, <1>10, <1>11
     DEF Next, Step, SendSucceeds, SendFails

(***************************************************************************)
(* What a step does to the counts                                          *)
(***************************************************************************)
\* Less is counted, ahead and untold.
Fewer ==
  /\ \A since \in Nat : IngestRows(since)' \subseteq IngestRows(since)
  /\ Ahead' \subseteq Ahead /\ Untold' \subseteq Untold /\ faults' <= faults

\* A worker comes past the throttle, which counted less than the limits.
Passes ==
  /\ \A since \in Nat : IngestRows(since)' \subseteq IngestRows(since)
  /\ Untold' \subseteq Untold /\ faults' = faults
  /\ SentThisHour < PerHour /\ SentThisDay < PerDay

\* A fault puts one worker more ahead, or leaves one story more untold.
Falters ==
  /\ \A since \in Nat : IngestRows(since)' \subseteq IngestRows(since)
  /\ faults' = faults - 1
  /\ \/ Untold' \subseteq Untold /\ \E s \in Ingest : Ahead' \subseteq Ahead \cup {s}
     \/ Ahead' \subseteq Ahead /\ \E k \in IngestKeys : Untold' \subseteq Untold \cup {k}

\* A worker that was ahead writes the row of its story.
Tells ==
  \E s \in Ahead, k \in IngestKeys :
    /\ \A since \in Nat : IngestRows(since)' \subseteq IngestRows(since) \cup {k}
    /\ Ahead' = Ahead \ {s} /\ Untold' \subseteq Untold /\ faults' = faults

\* What workers and their stories are left alone by changes nothing.
LEMMA Aside ==
  ASSUME \A k \in IngestKeys : UNCHANGED <<row[k], rowLeft[k], delivered[k]>>,
         \A s \in Ingest : UNCHANGED <<stage[s], outcome[s], key[s]>>, faults' <= faults
  PROVE  Fewer
  BY DEF Fewer, IngestRows, Ahead, Untold, Reported

\* Finitely many rows: the counts of the throttle are numbers, and count at least the
\* workers' rows.
LEMMA CountsAreNumbers ==
  ASSUME IsFiniteSet(Rows)
  PROVE  /\ SentThisHour \in Nat /\ SentThisDay \in Nat
         /\ \A since \in Nat :
              IsFiniteSet(IngestRows(since)) /\ Cardinality(IngestRows(since)) \in Nat
         /\ Cardinality(IngestRows(Day - Hour)) <= SentThisHour
         /\ Cardinality(IngestRows(0)) <= SentThisDay
<1> DEFINE Counting(since) == {k \in Keys : row[k] = "SENT" /\ rowLeft[k] > since}
<1>1. \A since \in Nat : Counting(since) \in SUBSET Rows
  BY DEF Rows, Status
<1>2. \A since \in Nat : IngestRows(since) \in SUBSET Counting(since)
  BY DEF IngestRows, Keys
<1> HIDE DEF Counting
<1>3. \A since \in Nat :
        IsFiniteSet(Counting(since)) /\ Cardinality(Counting(since)) \in Nat
  BY <1>1, FS_Subset, FS_CardinalityType
<1>4. \A since \in Nat :
        /\ IsFiniteSet(IngestRows(since)) /\ Cardinality(IngestRows(since)) \in Nat
        /\ Cardinality(IngestRows(since)) <= Cardinality(Counting(since))
  BY <1>2, <1>3, FS_Subset, FS_CardinalityType
<1>5. /\ SentThisHour = Cardinality(Counting(Day - Hour))
      /\ SentThisDay = Cardinality(Counting(0))
  BY DEF SentThisHour, SentThisDay, Counting
<1>6. Day - Hour \in Nat /\ 0 \in Nat
  OBVIOUS
<1> QED
  BY <1>3, <1>4, <1>5, <1>6

\* What each step of a worker or an editor does to the counts.
LEMMA Effects ==
  ASSUME Ingest \subseteq Wet, TypeOK, TypeOK', OwnKey, SentKnown, IsFiniteSet(Rows),
         [Next]_vars
  PROVE  Fewer \/ Passes \/ Falters \/ Tells
<1> USE DEF TypeOK, Goto, table, history
<1>1. ASSUME NEW s \in Senders, NEW k \in Keys, CheckNew(s, k) PROVE Fewer
  <2>1. /\ UNCHANGED <<table, history, outcome, faults>> /\ stage[s] = "idle"
        /\ stage' = [stage EXCEPT ![s] = "checked"] /\ key' = [key EXCEPT ![s] = k]
    BY <1>1 DEF CheckNew
  <2>2. \A t \in Senders \ {s} : stage'[t] = stage[t] /\ key'[t] = key[t]
    BY <2>1
  <2>3. Ahead' \subseteq Ahead
    BY <2>1, <2>2 DEF Ahead, Reported, Senders
  <2>4. Untold' \subseteq Untold
    BY <2>1, <2>2 DEF Untold, Reported, Senders
  <2> QED
    BY <2>1, <2>3, <2>4 DEF Fewer, IngestRows
<1>2. ASSUME NEW s \in Senders, Throttle(s) PROVE Fewer \/ Passes
  <2>1. /\ UNCHANGED <<table, history, faults>> /\ stage[s] = "checked"
        /\ \A t \in Senders \ {s} : UNCHANGED <<stage[t], outcome[t], key[t]>>
        /\ stage'[s] \in {"idle", "passed"}
    BY <1>2 DEF Throttle, Leave
  <2>2. Untold' \subseteq Untold
    BY <2>1 DEF Untold, Reported, Senders
  <2>3. CASE Leave(s)
    <3>1. stage'[s] = "idle"
      BY <2>3 DEF Leave
    <3>2. Ahead' \subseteq Ahead
      BY <2>1, <3>1 DEF Ahead, Reported, Senders
    <3> QED
      BY <2>1, <2>2, <3>2 DEF Fewer, IngestRows
  <2>4. CASE ~(SentThisHour >= PerHour \/ SentThisDay >= PerDay)
    <3>1. SentThisHour \in Nat /\ SentThisDay \in Nat
      BY CountsAreNumbers
    <3>2. SentThisHour < PerHour /\ SentThisDay < PerDay
      BY <2>4, <3>1
    <3> QED
      BY <2>1, <2>2, <3>2 DEF Passes, IngestRows
  <2> QED
    BY <1>2, <2>3, <2>4 DEF Throttle
<1>3. ASSUME NEW s \in Senders, ThrottleBlind(s) PROVE Falters
  <2>1. /\ UNCHANGED <<table, history, outcome, key>> /\ faults' = faults - 1
        /\ stage[s] = "checked" /\ stage' = [stage EXCEPT ![s] = "passed"] /\ s \in Ingest
    BY <1>3 DEF ThrottleBlind
  <2>2. Ahead' \subseteq Ahead \cup {s}
    BY <2>1 DEF Ahead, Reported, Senders
  <2>3. Untold' \subseteq Untold
    BY <2>1 DEF Untold, Reported, Senders
  <2> QED
    BY <2>1, <2>2, <2>3 DEF Falters, IngestRows
<1>4. ASSUME NEW s \in Senders, SendSucceeds(s) \/ SendFails(s) \/ SendDry(s), s \in Editors
      PROVE  Fewer
  <2>1. /\ UNCHANGED <<table, key>> /\ faults' <= faults /\ MaySend(s)
        /\ \A t \in Senders \ {s} : UNCHANGED <<stage[t], outcome[t]>>
        /\ Accepted(s, key[s]) \/ UNCHANGED history
    BY <1>4 DEF SendSucceeds, SendFails, SendDry, Finish
  <2>2. key[s] \notin IngestKeys /\ s \notin Ingest
    BY <1>4, <2>1, OwnStories DEF MaySend
  <2>3. \A k \in IngestKeys : delivered'[k] = delivered[k]
    BY <2>1, <2>2 DEF Accepted, Keys
  <2> QED
    BY <2>1, <2>2, <2>3, Aside DEF Senders
<1>5. ASSUME NEW s \in Senders, SendSucceeds(s), s \in Ingest PROVE Fewer
  <2>1. /\ UNCHANGED <<table, key, faults>> /\ stage[s] = "passed" /\ key[s] \in IngestKeys
        /\ stage' = [stage EXCEPT ![s] = "sent"]
        /\ outcome' = [outcome EXCEPT ![s] = "SENT"]
        /\ delivered' = [delivered EXCEPT ![key[s]] = @ + 1]
    BY <1>5, OwnStories DEF SendSucceeds, Finish, Accepted, MaySend
  <2>2. Ahead' \subseteq Ahead
    BY <2>1 DEF Ahead, Reported, Senders
  <2>3. Untold' \subseteq Untold
    <3>1. Reported(s)'
      BY <2>1 DEF Reported
    <3>2. \A k \in Keys \ {key[s]} : delivered'[k] = delivered[k]
      BY <2>1
    <3>3. \A t \in Ingest : Reported(t) => Reported(t)'
      BY <2>1 DEF Reported, Senders
    <3>4. \A t \in Ingest : stage'[t] = "sent" /\ outcome'[t] # "SENT"
                           => stage[t] = "sent" /\ outcome[t] # "SENT"
      BY <2>1 DEF Senders
    <3> QED
      BY <1>5, <2>1, <3>1, <3>2, <3>3, <3>4 DEF Untold, Keys
  <2> QED
    BY <2>1, <2>2, <2>3 DEF Fewer, IngestRows
<1>6. ASSUME NEW s \in Senders, SendFails(s), s \in Ingest PROVE Falters
  <2>1. /\ UNCHANGED <<table, key>> /\ stage[s] = "passed" /\ key[s] \in IngestKeys
        /\ stage' = [stage EXCEPT ![s] = "sent"] /\ faults' = faults - 1
        /\ outcome' = [outcome EXCEPT ![s] = "FAILED"]
        /\ \A k \in IngestKeys \ {key[s]} : delivered'[k] = delivered[k]
    BY <1>6, OwnStories DEF SendFails, Finish, Accepted, MaySend, Keys
  <2>2. Ahead' \subseteq Ahead
    BY <2>1 DEF Ahead, Reported, Senders
  <2>3. Untold' \subseteq Untold \cup {key[s]}
    <3>1. \A t \in Ingest \ {s} : UNCHANGED <<stage[t], outcome[t], key[t]>>
      BY <2>1 DEF Senders
    <3> QED
      BY <2>1, <3>1 DEF Untold, Reported
  <2> QED
    BY <2>1, <2>2, <2>3 DEF Falters, IngestRows
<1>7. ASSUME NEW s \in Senders, SendDry(s), s \in Ingest PROVE FALSE
  BY <1>7 DEF SendDry
<1>8. ASSUME NEW s \in Senders, Record(s), s \in Editors PROVE Fewer
  <2>1. key[s] \in Keys \ IngestKeys /\ s \notin Ingest /\ UNCHANGED <<history, faults>>
    BY <1>8, OwnStories DEF Record
  <2>2. \A k \in IngestKeys : row'[k] = row[k] /\ rowLeft'[k] = rowLeft[k]
    BY <1>8, <2>1 DEF Record, Keys
  <2>3. \A t \in Ingest : UNCHANGED <<stage[t], outcome[t], key[t]>>
    BY <1>8, <2>1 DEF Record, Leave, Senders
  <2> QED
    BY <2>1, <2>2, <2>3, Aside
<1>9. ASSUME NEW s \in Senders, Record(s), s \in Ingest PROVE Fewer \/ Tells
  <2> DEFINE k == key[s]
  <2>1. /\ k \in Keys /\ k \in IngestKeys /\ UNCHANGED <<history, faults>>
        /\ stage[s] = "sent" /\ outcome[s] \in Status
        /\ stage' = [stage EXCEPT ![s] = "idle"]
        /\ \A t \in Ingest \ {s} : UNCHANGED <<stage[t], outcome[t], key[t]>>
    BY <1>9, OwnStories DEF Record, Leave, SentKnown, Senders
  <2> HIDE DEF k
  <2>2. \A q \in Keys \ {k} : row'[q] = row[q] /\ rowLeft'[q] = rowLeft[q]
    BY <1>9, <2>1 DEF Record, k
  <2>3. row[k] # None => UNCHANGED table
    BY <1>9 DEF Record, k
  <2>4. row[k] = None => row'[k] = outcome[s]
    BY <1>9, <2>1 DEF Record, k
  <2>5. Untold' \subseteq Untold
    <3>1. \A q \in IngestKeys \ {k} : q \in Untold' => q \in Untold
      BY <2>1, <2>2 DEF Untold, Reported, Keys, k
    <3>2. k \in Untold' => k \in Untold
      <4>1. CASE row[k] # None
        BY <2>1, <2>3, <4>1 DEF Untold, k
      <4>2. CASE row[k] = None /\ outcome[s] = "SENT"
        BY <2>4, <4>2 DEF Untold
      <4>3. CASE row[k] = None /\ outcome[s] # "SENT"
        <5>1. row[k] # "SENT"
          BY <4>3 DEF Status
        <5> QED
          BY <1>9, <2>1, <4>3, <5>1 DEF Untold, k
      <4> QED
        BY <4>1, <4>2, <4>3
    <3> QED
      BY <3>1, <3>2 DEF Untold
  <2>6. CASE outcome[s] = "SENT"
    <3>1. s \in Ahead /\ Ahead' = Ahead \ {s}
      BY <1>9, <2>1, <2>6 DEF Ahead, Reported, Senders
    <3>2. \A since \in Nat : IngestRows(since)' \subseteq IngestRows(since) \cup {k}
      BY <2>2 DEF IngestRows, Keys
    <3> QED
      BY <2>1, <2>5, <3>1, <3>2 DEF Tells
  <2>7. CASE outcome[s] # "SENT"
    <3>1. Ahead' \subseteq Ahead
      BY <2>1 DEF Ahead, Reported, Senders
    <3>2. row'[k] = "SENT" => row[k] = "SENT" /\ rowLeft'[k] = rowLeft[k]
      BY <2>3, <2>4, <2>7
    <3>3. \A since \in Nat : IngestRows(since)' \subseteq IngestRows(since)
      BY <2>2, <3>2 DEF IngestRows, Keys
    <3> QED
      BY <2>1, <2>5, <3>1, <3>3 DEF Fewer
  <2> QED
    BY <2>6, <2>7
<1>10. ASSUME NEW s \in Senders, Lose(s) PROVE Fewer \/ Falters
  <2>1. /\ UNCHANGED <<table, history>> /\ faults' = faults - 1 /\ stage[s] # "idle"
        /\ stage' = [stage EXCEPT ![s] = "idle"]
        /\ \A t \in Senders \ {s} : UNCHANGED <<stage[t], outcome[t], key[t]>>
    BY <1>10 DEF Lose, Leave
  <2>2. Ahead' \subseteq Ahead
    BY <2>1 DEF Ahead, Reported, Senders
  <2>3. CASE s \in Ingest
    <3>1. key[s] \in IngestKeys
      BY <2>1, <2>3, OwnStories
    <3>2. Untold' \subseteq Untold \cup {key[s]}
      BY <2>1 DEF Untold, Reported, Senders
    <3> QED
      BY <2>1, <2>2, <3>1, <3>2 DEF Falters, IngestRows
  <2>4. CASE s \in Editors
    <3>1. s \notin Ingest /\ faults' <= faults
      BY <2>1, <2>4
    <3> QED
      BY <2>1, <3>1, Aside DEF Senders
  <2> QED
    BY <2>3, <2>4 DEF Senders
<1>11. CASE Tick
  <2>1. UNCHANGED <<stage, key, outcome, row, delivered, faults>>
    BY <1>11 DEF Tick
  <2>2. \A k \in IngestKeys : rowLeft'[k] \in Nat /\ rowLeft[k] \in Nat /\ rowLeft'[k] <= rowLeft[k]
    BY <1>11 DEF Tick, Less, Keys
  <2>3. \A since \in Nat : IngestRows(since)' \subseteq IngestRows(since)
    BY <2>1, <2>2 DEF IngestRows
  <2>4. Ahead' = Ahead /\ Untold' = Untold
    BY <2>1 DEF Ahead, Untold, Reported
  <2> QED
    BY <2>1, <2>3, <2>4 DEF Fewer
<1>12. CASE UNCHANGED vars
  BY <1>12, Aside DEF vars, sender
<1> QED
  BY <1>1, <1>2, <1>3, <1>4, <1>5, <1>6, <1>7, <1>8, <1>9, <1>10, <1>11, <1>12
     DEF Next, Step, Senders

\* A row more at most.
LEMMA FewRows ==
  ASSUME TypeOK, IsFiniteSet(Rows), [Next]_vars
  PROVE  IsFiniteSet(Rows')
<1> USE DEF TypeOK, sender, table, history
<1>1. ASSUME NEW s \in Senders, Record(s) PROVE IsFiniteSet(Rows')
  <2>1. Rows' \in SUBSET (Rows \cup {key[s]})
    BY <1>1 DEF Record, Rows
  <2> QED
    BY <2>1, FS_AddElement, FS_Subset
<1>2. CASE UNCHANGED row
  BY <1>2 DEF Rows
<1>3. ASSUME NEW s \in Senders, NEW q \in Keys, CheckNew(s, q) PROVE UNCHANGED row
  BY <1>3 DEF CheckNew
<1>4. ASSUME NEW s \in Senders, Throttle(s) \/ ThrottleBlind(s) \/ SendSucceeds(s) \/
             SendDry(s) \/ SendFails(s) \/ Lose(s)
      PROVE  UNCHANGED row
  BY <1>4 DEF Throttle, ThrottleBlind, SendSucceeds, SendDry, SendFails, Finish, Lose
<1>5. Tick \/ UNCHANGED vars => UNCHANGED row
  BY DEF Tick, vars
<1> QED
  BY <1>1, <1>2, <1>3, <1>4, <1>5 DEF Next, Step

\* A set with at most one element more than a finite one.
LEMMA AtMostOneMore ==
  ASSUME NEW S, NEW T, NEW x, IsFiniteSet(S), T \subseteq S \cup {x}
  PROVE  /\ IsFiniteSet(T) /\ Cardinality(T) \in Nat /\ Cardinality(S) \in Nat
         /\ Cardinality(T) <= Cardinality(S) + 1
         /\ T \subseteq S => Cardinality(T) <= Cardinality(S)
<1>1. IsFiniteSet(S \cup {x}) /\ T \in SUBSET (S \cup {x})
  BY FS_AddElement
<1>2. IsFiniteSet(T) /\ Cardinality(T) <= Cardinality(S \cup {x})
  BY <1>1, FS_Subset
<1>3. Cardinality(T) \in Nat /\ Cardinality(S) \in Nat
  BY <1>2, FS_CardinalityType
<1>4. Cardinality(S \cup {x}) = IF x \in S THEN Cardinality(S) ELSE Cardinality(S) + 1
  BY FS_AddElement
<1>5. T \subseteq S => Cardinality(T) <= Cardinality(S)
  BY FS_Subset
<1> QED
  BY <1>2, <1>3, <1>4, <1>5

\* Used counts the faults up as the allowance goes down.
LEMMA UsedUp ==
  ASSUME TypeOK, TypeOK'
  PROVE  /\ Used \in Nat /\ Used' \in Nat
         /\ faults' = faults => Used' = Used
         /\ faults' = faults - 1 => Used' = Used + 1
         /\ faults' <= faults => Used <= Used'
<1>1. faults \in 0..MaxFaults /\ faults' \in 0..MaxFaults
  BY DEF TypeOK
<1>2. \A m, n \in 0..MaxFaults :
        /\ MaxFaults - m \in Nat
        /\ m <= n => MaxFaults - n <= MaxFaults - m
        /\ m = n - 1 => MaxFaults - m = MaxFaults - n + 1
  OBVIOUS
<1> QED
  BY <1>1, <1>2, Zenon DEF Used

\* One limit: a fault pays for what it puts ahead or leaves untold; a row takes the place
\* of the worker that writes it; and who comes past the throttle makes the others no more
\* than all other workers, and the rows less than the limit.
LEMMA LimitStep ==
  ASSUME TypeOK, TypeOK', NEW since \in Nat, NEW limit \in Nat \ {0},
         IsFiniteSet(Rows), IsFiniteSet(Rows'), IsFiniteSet(Untold),
         Cardinality(Untold) <= Used, WithinLimit(since, limit),
         SentThisHour < PerHour /\ SentThisDay < PerDay
           => Cardinality(IngestRows(since)) < limit,
         Fewer \/ Passes \/ Falters \/ Tells
  PROVE  IsFiniteSet(Untold') /\ Cardinality(Untold') <= Used' /\ WithinLimit(since, limit)'
<1> DEFINE R == IngestRows(since)
<1>1. /\ Used \in Nat /\ Used' \in Nat
      /\ faults' = faults => Used' = Used
      /\ faults' = faults - 1 => Used' = Used + 1
      /\ faults' <= faults => Used <= Used'
  BY UsedUp
<1>2. /\ IsFiniteSet(R) /\ IsFiniteSet(R') /\ IsFiniteSet(Ingest)
      /\ IsFiniteSet(Ahead) /\ IsFiniteSet(Ahead')
  <2>1. R \in SUBSET Rows /\ R' \in SUBSET Rows'
    BY DEF IngestRows, Rows, Keys, Status
  <2>2. Ahead \in SUBSET Ingest /\ Ahead' \in SUBSET Ingest
    BY DEF Ahead
  <2> HIDE DEF R
  <2> QED
    BY <2>1, <2>2, FS_Subset
<1>3. /\ Cardinality(R) \in Nat /\ Cardinality(R') \in Nat /\ Cardinality(Ingest) \in Nat
      /\ Cardinality(Ahead) \in Nat /\ Cardinality(Ahead') \in Nat
      /\ Cardinality(Untold) \in Nat
  BY <1>2, FS_CardinalityType
<1>4. Cardinality(Ahead') <= Cardinality(Ingest)
  <2>1. Ahead' \in SUBSET Ingest
    BY DEF Ahead
  <2> QED
    BY <1>2, <2>1, FS_Subset
<1>5. /\ Cardinality(R) + Cardinality(Ahead) + Cardinality(Untold)
           <= limit + (Cardinality(Ingest) - 1) + Used
      /\ WithinLimit(since, limit)'
         <=> Cardinality(R') + Cardinality(Ahead') + Cardinality(Untold')
               <= limit + (Cardinality(Ingest) - 1) + Used'
  BY DEF WithinLimit
\* The three sizes after the step, from what it adds to each.
<1>6. /\ R' \subseteq R => Cardinality(R') <= Cardinality(R)
      /\ \A x : R' \subseteq R \cup {x} => Cardinality(R') <= Cardinality(R) + 1
      /\ Ahead' \subseteq Ahead => Cardinality(Ahead') <= Cardinality(Ahead)
      /\ \A x : Ahead' \subseteq Ahead \cup {x} => Cardinality(Ahead') <= Cardinality(Ahead) + 1
      /\ \A x \in Ahead : Ahead' = Ahead \ {x} => Cardinality(Ahead') = Cardinality(Ahead) - 1
  <2> HIDE DEF R
  <2>1. /\ R' \subseteq R => Cardinality(R') <= Cardinality(R)
        /\ Ahead' \subseteq Ahead => Cardinality(Ahead') <= Cardinality(Ahead)
    BY <1>2, FS_Subset
  <2>2. /\ \A x : R' \subseteq R \cup {x} => Cardinality(R') <= Cardinality(R) + 1
        /\ \A x : Ahead' \subseteq Ahead \cup {x} => Cardinality(Ahead') <= Cardinality(Ahead) + 1
    BY <1>2, AtMostOneMore
  <2>3. \A x \in Ahead : Cardinality(Ahead \ {x}) = Cardinality(Ahead) - 1
    BY <1>2, FS_RemoveElement
  <2> QED
    BY <2>1, <2>2, <2>3
<1>7. /\ Untold' \subseteq Untold =>
           /\ IsFiniteSet(Untold') /\ Cardinality(Untold') \in Nat
           /\ Cardinality(Untold') <= Cardinality(Untold)
      /\ \A x : Untold' \subseteq Untold \cup {x} =>
           /\ IsFiniteSet(Untold') /\ Cardinality(Untold') \in Nat
           /\ Cardinality(Untold') <= Cardinality(Untold) + 1
  BY AtMostOneMore, FS_Subset, FS_CardinalityType
<1>8. CASE Fewer
  <2>1. R' \subseteq R /\ Ahead' \subseteq Ahead /\ Untold' \subseteq Untold /\ Used <= Used'
    BY <1>1, <1>8 DEF Fewer
  <2> HIDE DEF R
  <2> QED
    BY <1>1, <1>3, <1>5, <1>6, <1>7, <2>1
<1>9. CASE Passes
  <2>1. /\ R' \subseteq R /\ Untold' \subseteq Untold /\ Used' = Used
        /\ Cardinality(R) < limit
    BY <1>1, <1>9 DEF Passes
  <2> HIDE DEF R
  <2> QED
    BY <1>1, <1>3, <1>4, <1>5, <1>6, <1>7, <2>1
<1>10. CASE Falters
  <2>1. R' \subseteq R /\ Used' = Used + 1
    BY <1>1, <1>10 DEF Falters
  <2>2. \/ Untold' \subseteq Untold /\ Cardinality(Ahead') <= Cardinality(Ahead) + 1
        \/ /\ Cardinality(Ahead') <= Cardinality(Ahead)
           /\ \E k : Untold' \subseteq Untold \cup {k}
    BY <1>6, <1>10 DEF Falters
  <2> HIDE DEF R
  <2> QED
    BY <1>1, <1>3, <1>5, <1>6, <1>7, <2>1, <2>2
<1>11. CASE Tells
  <2>1. PICK s \in Ahead, k \in IngestKeys :
          /\ R' \subseteq R \cup {k} /\ Ahead' = Ahead \ {s}
          /\ Untold' \subseteq Untold /\ faults' = faults
    BY <1>11 DEF Tells
  <2> HIDE DEF R
  <2> QED
    BY <1>1, <1>3, <1>5, <1>6, <1>7, <2>1
<1> QED
  BY <1>5, <1>8, <1>9, <1>10, <1>11

\* Both limits together, from step to step.
LEMMA ThrottleStep ==
  IInv /\ ThrottleInv /\ [Next]_vars => ThrottleInv'
<1> SUFFICES ASSUME IInv, NotOlder, Counted, [Next]_vars, Ingest \subseteq Wet
             PROVE  NotOlder' /\ Counted'
  BY DEF ThrottleInv
<1>1. TypeOK /\ OwnKey /\ SentKnown /\ HonestStatus /\ TypeOK'
  BY TypesStep DEF IInv
<1>2. NotOlder'
  BY <1>1, NotOlderStep
<1>3. IsFiniteSet(Rows')
  BY <1>1, FewRows DEF Counted
<1>4. Fewer \/ Passes \/ Falters \/ Tells
  BY <1>1, Effects DEF Counted
<1>5. /\ SentThisHour \in Nat /\ SentThisDay \in Nat
      /\ Cardinality(IngestRows(Day - Hour)) <= SentThisHour
      /\ Cardinality(IngestRows(0)) <= SentThisDay
      /\ Cardinality(IngestRows(Day - Hour)) \in Nat /\ Cardinality(IngestRows(0)) \in Nat
      /\ Day - Hour \in Nat
  BY CountsAreNumbers DEF Counted
<1>6. SentThisHour < PerHour /\ SentThisDay < PerDay =>
        /\ Cardinality(IngestRows(Day - Hour)) < PerHour
        /\ Cardinality(IngestRows(0)) < PerDay
  BY <1>5
<1>7. /\ IsFiniteSet(Untold') /\ Cardinality(Untold') <= Used'
      /\ WithinLimit(Day - Hour, PerHour)'
  BY <1>1, <1>3, <1>4, <1>5, <1>6, LimitStep DEF Counted
<1>8. WithinLimit(0, PerDay)'
  BY <1>1, <1>3, <1>4, <1>5, <1>6, LimitStep DEF Counted
<1> QED
  BY <1>2, <1>3, <1>7, <1>8 DEF Counted

\* At first nothing is counted.
LEMMA ThrottleInit == Init => ThrottleInv
<1> SUFFICES ASSUME Init PROVE NotOlder /\ Counted
  BY DEF ThrottleInv
<1>1. NotOlder
  BY DEF Init, NotOlder, Reported, Keys, Senders
<1>2. /\ Rows = {} /\ Ahead = {} /\ Untold = {} /\ Used = 0
      /\ \A since \in Nat : IngestRows(since) = {}
  BY DEF Init, Rows, Ahead, Untold, Reported, IngestRows, Keys, Senders, Used, Status
<1>3. Cardinality(Ingest) \in Nat /\ IsFiniteSet({}) /\ Cardinality({}) = 0 /\ Day - Hour \in Nat
  BY FS_CardinalityType, FS_EmptySet
<1>4. ASSUME NEW since \in Nat, NEW limit \in Nat \ {0} PROVE WithinLimit(since, limit)
  <2>1. /\ Cardinality(IngestRows(since)) = 0 /\ Cardinality(Ahead) = 0
        /\ Cardinality(Untold) = 0
    BY <1>2, <1>3
  <2> QED
    BY <1>2, <1>3, <2>1 DEF WithinLimit
<1> QED
  BY <1>1, <1>2, <1>3, <1>4 DEF Counted

\* A union is no larger than its parts together.
LEMMA UnionSize ==
  ASSUME NEW S, NEW T, IsFiniteSet(S), IsFiniteSet(T)
  PROVE  IsFiniteSet(S \cup T) /\ Cardinality(S \cup T) <= Cardinality(S) + Cardinality(T)
<1>1. /\ IsFiniteSet(S \cup T)
      /\ Cardinality(S \cup T) = Cardinality(S) + Cardinality(T) - Cardinality(S \cap T)
  BY FS_Union
<1>2. IsFiniteSet(S \cap T)
  BY FS_Subset
<1>3. Cardinality(S) \in Nat /\ Cardinality(T) \in Nat /\ Cardinality(S \cap T) \in Nat
  BY <1>2, FS_CardinalityType
<1> QED
  BY <1>1, <1>3

\* Each story that was announced late is counted by a row, about to be, or untold.
LEMMA AnnouncedCounted ==
  ASSUME TypeOK, OwnKey, NotOlder, Counted, NEW since \in Nat, NEW limit \in Nat \ {0},
         WithinLimit(since, limit)
  PROVE  Cardinality({k \in IngestKeys : newsLeft[k] > since})
           <= limit + (Cardinality(Ingest) - 1 + Used)
<1> DEFINE Late == {k \in IngestKeys : newsLeft[k] > since}
           Telling == {s \in Ingest : Reported(s)}
           Told == {key[s] : s \in Telling}
           R == IngestRows(since)
<1>1. Late \subseteq (R \cup Told) \cup Untold
  <2> SUFFICES ASSUME NEW k \in IngestKeys, newsLeft[k] > since, k \notin R, k \notin Told
               PROVE  k \in Untold
    OBVIOUS
  <2>1. /\ delivered[k] \in Nat /\ newsLeft[k] \in Nat /\ rowLeft[k] \in Nat
    BY DEF TypeOK, Keys
  <2>2. delivered[k] > 0 /\ row[k] # "SENT"
    BY <2>1 DEF NotOlder, IngestRows
  <2> QED
    BY <2>2 DEF Untold
<1>2. /\ IsFiniteSet(R) /\ IsFiniteSet(Ingest) /\ IsFiniteSet(Ahead) /\ IsFiniteSet(Telling)
      /\ Cardinality(Telling) <= Cardinality(Ahead)
  <2>1. Telling \in SUBSET Ahead /\ Ahead \in SUBSET Ingest
    BY DEF Ahead
  <2> QED
    BY <2>1, CountsAreNumbers, FS_Subset DEF Counted
<1>3. IsFiniteSet(Told) /\ Cardinality(Told) <= Cardinality(Telling)
  <2>1. [s \in Telling |-> key[s]] \in Surjection(Telling, Told)
    BY DEF Surjection
  <2> QED
    BY <1>2, <2>1, FS_Surjection
<1> HIDE DEF Late, Telling, Told, R
<1>4. IsFiniteSet(Untold)
  BY DEF Counted
<1>5. /\ IsFiniteSet(R \cup Told)
      /\ Cardinality(R \cup Told) <= Cardinality(R) + Cardinality(Told)
  BY <1>2, <1>3, UnionSize
<1>6. /\ IsFiniteSet((R \cup Told) \cup Untold)
      /\ Cardinality((R \cup Told) \cup Untold) <= Cardinality(R \cup Told) + Cardinality(Untold)
  BY <1>4, <1>5, UnionSize
<1>7. IsFiniteSet(Late) /\ Cardinality(Late) <= Cardinality((R \cup Told) \cup Untold)
  BY <1>1, <1>6, FS_Subset
<1>8. /\ Cardinality(R) \in Nat /\ Cardinality(Told) \in Nat /\ Cardinality(Untold) \in Nat
      /\ Cardinality(R \cup Told) \in Nat /\ Cardinality((R \cup Told) \cup Untold) \in Nat
      /\ Cardinality(Late) \in Nat /\ Cardinality(Telling) \in Nat
      /\ Cardinality(Ahead) \in Nat /\ Cardinality(Ingest) \in Nat
  BY <1>2, <1>3, <1>4, <1>5, <1>6, <1>7, FS_CardinalityType
<1>9. Used \in Nat
  BY DEF TypeOK, Used
<1>10. Cardinality(R) + Cardinality(Ahead) + Cardinality(Untold)
         <= limit + (Cardinality(Ingest) - 1) + Used
  BY DEF WithinLimit, R
<1>11. Cardinality(Late) <= limit + (Cardinality(Ingest) - 1 + Used)
  BY <1>2, <1>3, <1>5, <1>6, <1>7, <1>8, <1>9, <1>10
<1> QED
  BY <1>11 DEF Late

\* PUSH_MAX_PER_HOUR and PUSH_MAX_PER_DAY bound what the workers announce, however their
\* counts, messages and rows fall between each other, up to one story for every other
\* worker and every fault.
THEOREM LimitsKept == Spec => []Throttled
<1>1. IInv /\ ThrottleInv => Throttled
  <2> SUFFICES ASSUME IInv, NotOlder, Counted
               PROVE  LET Excess == Cardinality(Ingest) - 1 + Used IN
                      /\ Cardinality({k \in IngestKeys : newsLeft[k] > Day - Hour})
                           <= PerHour + Excess
                      /\ Cardinality({k \in IngestKeys : newsLeft[k] > 0}) <= PerDay + Excess
    BY DEF ThrottleInv, Throttled
  <2>1. TypeOK /\ OwnKey /\ Day - Hour \in Nat
    BY DEF IInv
  <2>2. Cardinality({k \in IngestKeys : newsLeft[k] > Day - Hour})
          <= PerHour + (Cardinality(Ingest) - 1 + Used)
    BY <2>1, AnnouncedCounted DEF Counted
  <2>3. Cardinality({k \in IngestKeys : newsLeft[k] > 0})
          <= PerDay + (Cardinality(Ingest) - 1 + Used)
    BY <2>1, AnnouncedCounted DEF Counted
  <2> QED
    BY <2>2, <2>3
<1>2. Init => IInv /\ ThrottleInv
  BY InitInv, ThrottleInit
<1>3. (IInv /\ ThrottleInv) /\ [Next]_vars => (IInv /\ ThrottleInv)'
  BY InvStep, ThrottleStep
<1> QED
  BY <1>1, <1>2, <1>3, PTL DEF Spec
=============================================================================
