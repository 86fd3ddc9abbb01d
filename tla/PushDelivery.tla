----------------------------- MODULE PushDelivery -----------------------------
(***************************************************************************)
(* Announcing a breaking story: the table `push_events` is asked whether   *)
(* the story was announced, a worker also asks how much was announced of   *)
(* late, the message goes to FCM, and only then a row records it           *)
(* (enqueuePush in backend/internal/ingest/pipeline.go, the handler        *)
(* handleAdminPushSend in backend/internal/httpapi/admin.go,               *)
(* backend/internal/store/push.go).                                        *)
(*                                                                         *)
(* Every statement and the call to FCM is a step; the two counts of the    *)
(* throttle are one, and so is the assembly of the event, which sets its   *)
(* created_at, with the last gate before it.  What announces a story in    *)
(* the ingest differs from what an editor sends: the keys of one are never *)
(* those of the other.                                                     *)
(***************************************************************************)
EXTENDS Integers, FiniteSets

CONSTANTS
  Ingest,     \* goroutines in enqueuePush
  Editors,    \* requests in handleAdminPushSend
  IngestKeys, \* dedup keys topic|fingerprint of the stories flagged as breaking
  EditorKeys, \* dedup keys admin|topic|article
  None,       \* no key, no row
  PerHour,    \* PUSH_MAX_PER_HOUR
  PerDay,     \* PUSH_MAX_PER_DAY
  Hour, Day,  \* lengths of the two windows, in ticks
  Wet,        \* senders with FCM credentials; the others have the DryRunSender
  MaxFaults   \* bound: failed sends, failed statements and crashes in a behaviour

Senders == Ingest \cup Editors
Keys    == IngestKeys \cup EditorKeys
Status  == {"SENT", "FAILED", "DRY_RUN"}

ASSUME PushAssumption ==
  /\ IsFiniteSet(Ingest) /\ IsFiniteSet(Editors) /\ Ingest \cap Editors = {}
  /\ IngestKeys \cap EditorKeys = {} /\ None \notin Keys
  /\ None \notin Status
  /\ PerHour \in Nat \ {0} /\ PerDay \in Nat \ {0}
  /\ Hour \in Nat \ {0} /\ Day \in Nat /\ Hour <= Day
  /\ Wet \subseteq Senders
  /\ MaxFaults \in Nat

VARIABLES
  stage,     \* of a sender, see Stage
  key,       \* what it announces
  born,      \* what is left of the day that began with its event's created_at
  outcome,   \* the status it is about to record
  row,       \* [Keys -> Status \cup {None}], the status of push_events, by dedup_key
  rowLeft,   \* by key: time until the row leaves the day's window
  delivered, \* history, by key: messages that FCM accepted
  newsLeft,  \* history, by key: what is left of the day that began with the earliest
             \* event a worker delivered
  faults     \* faults still allowed

sender  == <<stage, key, born, outcome>>
table   == <<row, rowLeft>>
history == <<delivered, newsLeft>>
vars    == <<sender, table, history, faults>>

\* Outside; no row was found; under both limits; Send returned.
Stage == {"idle", "checked", "passed", "sent"}

\* A sender has a key exactly while it is at work; statuses are those of the column.
TypeOK ==
  /\ stage \in [Senders -> Stage]
  /\ key \in [Senders -> Keys \cup {None}]
  /\ \A s \in Senders : key[s] = None <=> stage[s] = "idle"
  /\ born \in [Senders -> 0..Day]
  /\ outcome \in [Senders -> Status \cup {None}]
  /\ row \in [Keys -> Status \cup {None}] /\ rowLeft \in [Keys -> 0..Day]
  /\ delivered \in [Keys -> Nat] /\ newsLeft \in [Keys -> 0..Day]
  /\ faults \in 0..MaxFaults

Init ==
  /\ stage = [s \in Senders |-> "idle"] /\ key = [s \in Senders |-> None]
  /\ born = [s \in Senders |-> 0] /\ outcome = [s \in Senders |-> None]
  /\ row = [k \in Keys |-> None] /\ rowLeft = [k \in Keys |-> 0]
  /\ delivered = [k \in Keys |-> 0] /\ newsLeft = [k \in Keys |-> 0]
  /\ faults = MaxFaults

Goto(s, to) == stage' = [stage EXCEPT ![s] = to]

Leave(s) ==
  /\ Goto(s, "idle")
  /\ key' = [key EXCEPT ![s] = None] /\ born' = [born EXCEPT ![s] = 0]
  /\ outcome' = [outcome EXCEPT ![s] = None]

(***************************************************************************)
(* The gates                                                               *)
(***************************************************************************)
KeysOf(s) == IF s \in Ingest THEN IngestKeys ELSE EditorKeys
\* The event is assembled.
Assemble(s) == born' = [born EXCEPT ![s] = Day]

Announcers(k) == {s \in Wet : k \in KeysOf(s)}

\* A gate that takes no notice of failed attempts.
CheckDelivered(s, k) ==
  /\ stage[s] = "idle" /\ k \in KeysOf(s)
  /\ row[k] # "SENT"
  /\ Goto(s, "checked") /\ key' = [key EXCEPT ![s] = k]
  /\ IF s \in Editors THEN Assemble(s) ELSE UNCHANGED born
  /\ UNCHANGED <<outcome, table, history, faults>>

\* PushEventExists finds no row. If it finds one, of whatever status, the worker
\* returns and the editor gets a 409: nothing changes.
CheckNew(s, k) ==
  /\ stage[s] = "idle" /\ k \in KeysOf(s)
  /\ row[k] = None
  /\ Goto(s, "checked") /\ key' = [key EXCEPT ![s] = k]
  /\ IF s \in Editors THEN Assemble(s) ELSE UNCHANGED born
  /\ UNCHANGED <<outcome, table, history, faults>>

\* CountPushEventsSince, for the last hour and the last day.
SentThisHour == Cardinality({k \in Keys : row[k] = "SENT" /\ rowLeft[k] > Day - Hour})
SentThisDay  == Cardinality({k \in Keys : row[k] = "SENT" /\ rowLeft[k] > 0})

\* A worker that lets one more pass than it should.
ThrottleLate(s) ==
  /\ stage[s] = "checked" /\ s \in Ingest
  /\ IF SentThisHour > PerHour \/ SentThisDay > PerDay
     THEN Leave(s) ELSE Goto(s, "passed") /\ Assemble(s) /\ UNCHANGED <<key, outcome>>
  /\ UNCHANGED <<table, history, faults>>

Throttle(s) ==
  /\ stage[s] = "checked" /\ s \in Ingest
  /\ IF SentThisHour >= PerHour \/ SentThisDay >= PerDay
     THEN Leave(s) ELSE Goto(s, "passed") /\ Assemble(s) /\ UNCHANGED <<key, outcome>>
  /\ UNCHANGED <<table, history, faults>>

\* The error of a count is dropped, and the count is 0.
ThrottleBlind(s) ==
  /\ faults > 0
  /\ stage[s] = "checked" /\ s \in Ingest
  /\ Goto(s, "passed") /\ Assemble(s)
  /\ faults' = faults - 1
  /\ UNCHANGED <<key, outcome, table, history>>

(***************************************************************************)
(* Sending and recording                                                   *)
(***************************************************************************)
\* Past every gate; editors are not throttled.
MaySend(s) ==
  \/ stage[s] = "passed"
  \/ stage[s] = "checked" /\ s \in Editors

Accepted(s, k) ==
  /\ delivered' = [delivered EXCEPT ![k] = @ + 1]
  /\ newsLeft' = IF s \in Ingest /\ (delivered[k] = 0 \/ born[s] < newsLeft[k])
                 THEN [newsLeft EXCEPT ![k] = born[s]] ELSE newsLeft

Finish(s, status) ==
  /\ Goto(s, "sent")
  /\ outcome' = [outcome EXCEPT ![s] = status]
  /\ UNCHANGED <<key, born, table>>

SendSucceeds(s) ==
  /\ MaySend(s) /\ s \in Wet
  /\ Accepted(s, key[s])
  /\ Finish(s, "SENT")
  /\ UNCHANGED faults

SendDry(s) ==
  /\ MaySend(s) /\ s \notin Wet
  /\ Finish(s, "DRY_RUN")
  /\ UNCHANGED <<history, faults>>

\* An error of FCM, or of the connection after FCM had the message.
SendFails(s) ==
  /\ faults > 0
  /\ MaySend(s) /\ s \in Wet
  /\ Accepted(s, key[s]) \/ UNCHANGED history
  /\ Finish(s, "FAILED")
  /\ faults' = faults - 1

\* A row that says SENT whatever became of the message.
RecordAsSent(s) ==
  /\ stage[s] = "sent"
  /\ IF row[key[s]] = None
     THEN /\ row' = [row EXCEPT ![key[s]] = "SENT"]
          /\ rowLeft' = [rowLeft EXCEPT ![key[s]] = born[s]]
     ELSE UNCHANGED table
  /\ Leave(s)
  /\ UNCHANGED <<history, faults>>

\* RecordPushEvent: the unique dedup_key keeps the first row; the second INSERT fails,
\* which the worker logs and the editor sees as a 500.
Record(s) ==
  /\ stage[s] = "sent"
  /\ IF row[key[s]] = None
     THEN /\ row' = [row EXCEPT ![key[s]] = outcome[s]]
          /\ rowLeft' = [rowLeft EXCEPT ![key[s]] = born[s]]
     ELSE UNCHANGED table
  /\ Leave(s)
  /\ UNCHANGED <<history, faults>>

\* The process dies, or an INSERT fails for another reason.
Lose(s) ==
  /\ faults > 0
  /\ stage[s] # "idle"
  /\ Leave(s)
  /\ faults' = faults - 1
  /\ UNCHANGED <<table, history>>

LessUnbounded(n) == n - 1     \* a timer that runs past its end
Less(n) == IF n > 0 THEN n - 1 ELSE 0

Tick ==
  /\ rowLeft' = [k \in Keys |-> Less(rowLeft[k])]
  /\ newsLeft' = [k \in Keys |-> Less(newsLeft[k])]
  /\ born' = [s \in Senders |-> Less(born[s])]
  /\ UNCHANGED <<stage, key, outcome, row, delivered, faults>>

(***************************************************************************)
(* Specification                                                           *)
(***************************************************************************)
Step(s) ==
  \/ Throttle(s) \/ ThrottleBlind(s)
  \/ SendSucceeds(s) \/ SendDry(s) \/ SendFails(s)
  \/ Record(s) \/ Lose(s)

Next ==
  \/ \E s \in Senders, k \in Keys : CheckNew(s, k)
  \/ \E s \in Senders : Step(s)
  \/ Tick

Spec == Init /\ [][Next]_vars

(***************************************************************************)
(* Properties                                                              *)
(***************************************************************************)
Used == MaxFaults - faults

\* "Pushes are deduplicated": a story reaches the devices at most once per key.
DeliveredOnce == \A k \in Keys : delivered[k] <= 1

\* What the unique key leaves of that. A row comes after the message, so a story is
\* repeated by those that looked before the row was there, and once more for every
\* row that was lost, but never after that.
RepeatsBounded ==
  \A k \in Keys : delivered[k] <= Cardinality(Announcers(k)) + Used

\* The history an editor sees claims no delivery that did not happen.
HonestStatus ==
  \A k \in Keys : row[k] = "SENT" => delivered[k] > 0

\* The limits per hour and per day hold for the stories the workers announce, up to
\* those of other goroutines on their way past the same count and those whose
\* row tells of a fault instead; provided no worker lacks the credentials, since the
\* row of a dry run hides what another worker sent.
Throttled ==
  LET Excess == Cardinality(Ingest) - 1 + Used IN
  Ingest \subseteq Wet =>
    /\ Cardinality({k \in IngestKeys : newsLeft[k] > Day - Hour}) <= PerHour + Excess
    /\ Cardinality({k \in IngestKeys : newsLeft[k] > 0}) <= PerDay + Excess
=============================================================================
