---------------------------- MODULE Worker_proofs ----------------------------
(***************************************************************************)
(* What Newsroom guarantees for every number of articles, polls and requests*)
(* and every setting of the rule: no article goes unweighed, no run marks  *)
(* more or on less than it may, the editors' last word stands, and a request*)
(* does its parts in order or not at all.  And, of the composition with    *)
(* FeedScheduler which a run checks, that it keeps the types of both.      *)
(***************************************************************************)
EXTENDS MCWorker, FeedScheduler_proofs

USE NewsroomAssumption

(***************************************************************************)
(* The inductive invariant                                                 *)
(***************************************************************************)
\* What a poll has in hand is stored, and weighed before it is marked.
HandStored ==
  \A w \in Polls : item[w] # NoItem =>
    item[w] \in news /\ (phase[w] = "mark" => item[w] \in weighed)

\* Editors speak about stored articles, and a poll that still has one in hand had it
\* when they did.
SpokenInTime ==
  \A a \in Items : spoken[a] # "nothing" => a \in news /\ (InHand(a) => a \in crossed)

\* What allows a mark of the run of w on a.
Justified(w, a) ==
  \/ Signals[a].safety \/ Signals[a].urgent \/ Publishers >= 3
  \/ (~bulk[w] /\ (Signals[a].local \/ Publishers >= 2))

\* The poll that is about to mark may: nothing was marked since it decided.
DecidedWell ==
  \A w \in Polls : phase[w] = "mark" =>
    Cardinality(runMarks[w]) < RunCap /\ Justified(w, item[w])

\* The parts a request has come past when it is about to do the next one.
Past(here) ==
  CASE here = "mark" -> {}
    [] here = "status" -> {"mark"}
    [] here = "file" -> {"mark", "status"}
    [] OTHER -> {"mark", "status", "file"}

\* A request under way has done what it asked for and came past, and has no answer yet.
OnTheWay ==
  \A e \in Desks : at[e] # "idle" =>
    did[e] = Wanted(asked[e]) \cap Past(at[e]) /\ answer[e] = "none"

NewsroomInv ==
  /\ NewsroomTypeOK /\ HandStored /\ SpokenInTime /\ DecidedWell /\ OnTheWay
  /\ WeighedUnlessCutOff /\ Restrained /\ EditorsWordStands /\ EditsInOrder

(***************************************************************************)
(* What the steps leave alone                                              *)
(***************************************************************************)
WorkerStep(w) ==
  \/ BeginRun(w) \/ EndRun(w) \/ Group(w) \/ Weigh(w) \/ Mark(w) \/ Die(w)
  \/ \E a \in Items : Store(w, a) \/ Repeat(w, a)

DeskStep(e) ==
  AskFor(e) \/ SetBreaking(e) \/ SetStatus(e) \/ FileUnder(e) \/ Reload(e) \/ Cut(e)

\* Every step is one of a poll, of a request, or a push of an editor.
LEMMA Actors ==
  ASSUME [NewsroomNext]_newsroomVars
  PROVE  \/ \E w \in Polls : WorkerStep(w)
         \/ \E e \in Desks : DeskStep(e)
         \/ \E a \in Items : SendPush(a)
         \/ UNCHANGED newsroomVars
  BY DEF NewsroomNext, WorkerStep, DeskStep

\* A poll does not touch what editors decide, and only Store brings articles.
LEMMA WorkerKeeps ==
  ASSUME NEW w \in Polls, WorkerStep(w)
  PROVE  /\ UNCHANGED <<shut, filed, desk, words>>
         /\ news \subseteq news' /\ marked \subseteq marked'
         /\ UNCHANGED troubles \/ Trouble
<1> USE DEF rowsOf
<1>1. ASSUME NEW a \in Items, Store(w, a) \/ Repeat(w, a)
      PROVE  /\ UNCHANGED <<shut, filed, desk, words>>
             /\ news \subseteq news' /\ marked \subseteq marked'
             /\ UNCHANGED troubles \/ Trouble
  BY <1>1 DEF Store, Repeat
<1>2. CASE BeginRun(w) \/ EndRun(w) \/ Group(w) \/ Die(w)
  BY <1>2 DEF BeginRun, EndRun, Group, Die
<1>3. CASE Weigh(w)
  BY <1>3 DEF Weigh
<1>4. CASE Mark(w)
  BY <1>4 DEF Mark
<1> QED
  BY <1>1, <1>2, <1>3, <1>4 DEF WorkerStep

\* An editor does not touch what polls have in hand, nor the stories.
LEMMA DeskKeeps ==
  ASSUME NEW e \in Desks, DeskStep(e)
  PROVE  UNCHANGED <<news, story, polling>> /\ (UNCHANGED troubles \/ Trouble)
<1> USE DEF rowsOf
<1>1. CASE AskFor(e) \/ Cut(e) \/ Reload(e)
  BY <1>1 DEF AskFor, Cut, Reload, Fail
<1>2. CASE SetBreaking(e)
  BY <1>2 DEF SetBreaking, Fail, Succeed
<1>3. CASE SetStatus(e)
  BY <1>3 DEF SetStatus, Fail, Succeed
<1>4. CASE FileUnder(e)
  BY <1>4 DEF FileUnder, Fail, Succeed
<1> QED
  BY <1>1, <1>2, <1>3, <1>4 DEF DeskStep

(***************************************************************************)
(* Types                                                                   *)
(***************************************************************************)
\* The state of the polls and of the rows they write.
PollTypes ==
  /\ news \subseteq Items
  /\ story \in [Items -> Topics \cup {NoItem}]
  /\ phase \in [Polls -> {"off", "items", "group", "weigh", "mark"}]
  /\ item \in [Polls -> Items \cup {NoItem}]
  /\ \A w \in Polls : phase[w] \in {"group", "weigh", "mark"} <=> item[w] # NoItem
  /\ runMarks \in [Polls -> SUBSET news] /\ bulk \in [Polls -> BOOLEAN]
  /\ weighed \cup dropped \subseteq news

\* The state of the requests and of what editors write.
DeskTypes ==
  /\ shut \cup marked \cup filed \subseteq news
  /\ at \in [Desks -> {"idle", "mark", "status", "file", "reload"}]
  /\ asked \in [Desks -> Request] /\ about \in [Desks -> Items]
  /\ did \in [Desks -> SUBSET {"mark", "status", "file"}]
  /\ logged \in [Desks -> SUBSET {"mark", "status", "file"}]
  /\ answer \in [Desks -> {"none", "ok", "forbidden", "invalid", "failed"}]
  /\ crossed \subseteq news
  /\ spoken \in [Items -> {"nothing", "on", "off"}]
  /\ edits \in 0 .. MaxEdits /\ troubles \in 0 .. MaxTroubles

\* The two are the type invariant of the module.
LEMMA TypeParts == NewsroomTypeOK <=> PollTypes /\ DeskTypes
  BY DEF NewsroomTypeOK, PollTypes, DeskTypes

\* Putting an item with a story, whichever it is.
LEMMA GroupedType ==
  ASSUME PollTypes, NEW a \in Items, NEW t \in Topics, Grouped(a, t)
  PROVE  story' \in [Items -> Topics \cup {NoItem}]
  BY DEF PollTypes, Grouped

\* The polls keep their types.
LEMMA PollTypesWorker ==
  ASSUME PollTypes, HandStored, NEW w \in Polls, WorkerStep(w)
  PROVE  PollTypes'
<1> USE DEF PollTypes, HandStored, NextStage, rowsOf, polling
<1>1. \A a \in Items : TopicOf(a) \in Topics
  BY DEF Topics
<1>2. CASE BeginRun(w)
  BY <1>2 DEF BeginRun
<1>3. CASE EndRun(w)
  BY <1>3 DEF EndRun
<1>4. CASE Group(w)
  <2>1. item[w] \in Items
    BY <1>4 DEF Group
  <2>2. story' \in [Items -> Topics \cup {NoItem}]
    BY <1>1, <1>4, <2>1, GroupedType DEF Group
  <2> QED
    BY <1>4, <2>1, <2>2 DEF Group
<1>5. CASE Weigh(w)
  <2>1. item[w] \in news /\ item[w] # NoItem
    BY <1>5 DEF Weigh
  <2>2. NextStage(w, "mark", item[w]) \/ NextStage(w, "items", NoItem)
    BY <1>5 DEF Weigh
  <2> QED
    BY <1>5, <2>1, <2>2 DEF Weigh
<1>6. CASE Mark(w)
  <2>1. item[w] \in news
    BY <1>6 DEF Mark
  <2> QED
    BY <1>6, <2>1 DEF Mark
<1>7. CASE Die(w)
  BY <1>7 DEF Die
<1>8. ASSUME NEW a \in Items, Store(w, a) PROVE PollTypes'
  BY <1>8 DEF Store
<1>9. ASSUME NEW a \in Items, Repeat(w, a) PROVE PollTypes'
  <2>1. story' \in [Items -> Topics \cup {NoItem}]
    BY <1>9, GroupedType DEF Repeat
  <2> QED
    BY <1>9, <2>1 DEF Repeat
<1> QED
  BY <1>2, <1>3, <1>4, <1>5, <1>6, <1>7, <1>8, <1>9 DEF WorkerStep

\* A step of a poll keeps the types of the editors' side: a mark is on a stored article.
LEMMA DeskTypesWorker ==
  ASSUME NewsroomTypeOK, HandStored, NEW w \in Polls, WorkerStep(w)
  PROVE  DeskTypes'
<1> USE DEF NewsroomTypeOK
<1>1. UNCHANGED <<shut, filed, desk, words>> /\ news \subseteq news'
  BY WorkerKeeps
<1>2. troubles' \in 0 .. MaxTroubles
  BY WorkerKeeps DEF Trouble
<1>3. marked' \subseteq news'
  <2>1. CASE Mark(w)
    BY <2>1 DEF Mark, HandStored
  <2>2. ASSUME NEW a \in Items, Store(w, a) \/ Repeat(w, a) PROVE UNCHANGED marked
    BY <2>2 DEF Store, Repeat
  <2>3. CASE BeginRun(w) \/ EndRun(w) \/ Group(w) \/ Die(w) \/ Weigh(w)
    BY <1>1, <2>3 DEF BeginRun, EndRun, Group, Die, Weigh, rowsOf
  <2> QED
    BY <1>1, <2>1, <2>2, <2>3 DEF WorkerStep
<1> QED
  BY <1>1, <1>2, <1>3 DEF DeskTypes, desk, words

\* The requests keep their types.
LEMMA DeskTypesDesk ==
  ASSUME DeskTypes, PollTypes, NEW e \in Desks, DeskStep(e)
  PROVE  DeskTypes'
<1> USE DEF DeskTypes, rowsOf, words, Say, GoOn, Trouble
<1>1. UNCHANGED <<news, story, polling>> /\ about[e] \in Items
  BY DeskKeeps
<1>2. CASE AskFor(e)
  BY <1>2 DEF AskFor
<1>3. CASE SetBreaking(e)
  <2>1. CASE UNCHANGED <<rowsOf, words>> /\ (GoOn(e, "status") \/ Say(e, "forbidden")
                                             \/ Fail(e))
                                        /\ (UNCHANGED troubles \/ Trouble)
    BY <2>1 DEF Fail
  <2>2. CASE /\ Succeed(e, "mark", "status") /\ Speak(about[e], asked[e].mark)
             /\ UNCHANGED <<news, shut, filed, story>> /\ asked[e].mark # "keep"
    <3>1. asked[e].mark \in {"on", "off"}
      BY <2>2 DEF Request
    <3>2. /\ marked' \subseteq news /\ crossed' \subseteq news
          /\ spoken' \in [Items -> {"nothing", "on", "off"}]
      BY <1>1, <2>2, <3>1 DEF Speak
    <3> QED
      BY <2>2, <3>2 DEF Succeed
  <2> QED
    BY <1>3, <2>1, <2>2 DEF SetBreaking, Fail
<1>4. CASE SetStatus(e)
  <2>1. CASE UNCHANGED <<rowsOf, words>> /\ (GoOn(e, "file") \/ Say(e, "invalid")
                                             \/ Fail(e))
                                        /\ (UNCHANGED troubles \/ Trouble)
    BY <2>1 DEF Fail
  <2>2. CASE /\ Succeed(e, "status", "file")
             /\ shut' = (IF asked[e].status = "HIDDEN" THEN shut \cup ({about[e]} \cap news)
                         ELSE shut \ {about[e]})
             /\ UNCHANGED <<news, marked, filed, story, words>>
    BY <2>2 DEF Succeed
  <2> QED
    BY <1>4, <2>1, <2>2 DEF SetStatus, Fail
<1>5. CASE FileUnder(e)
  <2>1. CASE UNCHANGED <<rowsOf, words>> /\ (GoOn(e, "reload") \/ Say(e, "invalid")
                                             \/ Say(e, "failed") \/ Fail(e))
                                        /\ (UNCHANGED troubles \/ Trouble)
    BY <2>1 DEF Fail
  <2>2. CASE /\ Succeed(e, "file", "reload") /\ filed' = filed \cup {about[e]}
             /\ UNCHANGED <<news, shut, marked, story, words>> /\ about[e] \in news
    BY <2>2 DEF Succeed
  <2> QED
    BY <1>5, <2>1, <2>2 DEF FileUnder, Fail
<1>6. CASE Reload(e)
  BY <1>6 DEF Reload, Fail
<1>7. CASE Cut(e)
  BY <1>7 DEF Cut
<1> QED
  BY <1>2, <1>3, <1>4, <1>5, <1>6, <1>7 DEF DeskStep

\* Every step keeps the types.
LEMMA TypesKept ==
  ASSUME NewsroomTypeOK, HandStored, [NewsroomNext]_newsroomVars
  PROVE  NewsroomTypeOK'
<1>1. ASSUME NEW w \in Polls, WorkerStep(w) PROVE NewsroomTypeOK'
  <2>1. PollTypes
    BY TypeParts
  <2>2. PollTypes' /\ DeskTypes'
    BY <1>1, <2>1, PollTypesWorker, DeskTypesWorker
  <2> QED
    BY <2>2 DEF NewsroomTypeOK, PollTypes, DeskTypes
<1>2. ASSUME NEW e \in Desks, DeskStep(e) PROVE NewsroomTypeOK'
  <2>1. PollTypes /\ DeskTypes
    BY TypeParts
  <2>2. DeskTypes'
    BY <1>2, <2>1, DeskTypesDesk
  <2>3. PollTypes'
    BY <1>2, <2>1, DeskKeeps DEF PollTypes, polling
  <2> QED
    BY <2>2, <2>3 DEF NewsroomTypeOK, PollTypes, DeskTypes
<1>3. ASSUME NEW a \in Items, SendPush(a) PROVE NewsroomTypeOK'
  <2>1. PollTypes /\ DeskTypes
    BY TypeParts
  <2>2. PollTypes'
    BY <1>3, <2>1 DEF SendPush, PollTypes, polling
  <2>3. DeskTypes'
    BY <1>3, <2>1 DEF SendPush, Speak, DeskTypes, words
  <2> QED
    BY <2>2, <2>3 DEF NewsroomTypeOK, PollTypes, DeskTypes
<1>4. CASE UNCHANGED newsroomVars
  BY <1>4 DEF NewsroomTypeOK, newsroomVars, rowsOf, polling, desk, words
<1> QED
  BY <1>1, <1>2, <1>3, <1>4, Actors

(***************************************************************************)
(* In hand and weighed                                                     *)
(***************************************************************************)
\* A poll takes up only what it stores or what is stored, and marks what it weighed.
LEMMA HandStoredKept ==
  ASSUME NewsroomTypeOK, HandStored, [NewsroomNext]_newsroomVars
  PROVE  HandStored'
<1> USE DEF NewsroomTypeOK, HandStored, NextStage, rowsOf, polling
<1>1. ASSUME NEW w \in Polls, WorkerStep(w) PROVE HandStored'
  <2>1. CASE BeginRun(w) \/ EndRun(w) \/ Group(w) \/ Mark(w) \/ Die(w)
    BY <2>1 DEF BeginRun, EndRun, Group, Mark, Die
  <2>2. CASE Weigh(w)
    <3>1. NextStage(w, "mark", item[w]) \/ NextStage(w, "items", NoItem)
      BY <2>2 DEF Weigh
    <3> QED
      BY <2>2, <3>1 DEF Weigh
  <2>3. ASSUME NEW a \in Items, Store(w, a) \/ Repeat(w, a) PROVE HandStored'
    BY <2>3 DEF Store, Repeat
  <2> QED
    BY <1>1, <2>1, <2>2, <2>3 DEF WorkerStep
<1>2. CASE UNCHANGED <<news, polling>>
  BY <1>2
<1>3. \A a \in Items : SendPush(a) => UNCHANGED <<news, polling>>
  BY DEF SendPush
<1> QED
  BY <1>1, <1>2, <1>3, Actors, DeskKeeps DEF newsroomVars

\* No turn of the loop and no error leaves an article out: it is weighed, in hand, or
\* the process died with it.
LEMMA WeighedKept ==
  ASSUME NewsroomTypeOK, HandStored, WeighedUnlessCutOff, [NewsroomNext]_newsroomVars
  PROVE  WeighedUnlessCutOff'
<1> DEFINE Kept(a) == a \in weighed \cup dropped \/ \E w \in Polls : item[w] = a
<1>1. \A a \in news : Kept(a)
  BY DEF WeighedUnlessCutOff
<1> SUFFICES ASSUME NEW a \in news' PROVE Kept(a)'
  BY DEF WeighedUnlessCutOff
<1> USE DEF NewsroomTypeOK, NextStage, rowsOf, polling
<1>2. ASSUME NEW w \in Polls, WorkerStep(w) PROVE Kept(a)'
  <2>1. CASE BeginRun(w) \/ EndRun(w) \/ Group(w)
    <3>1. UNCHANGED <<news, weighed, dropped>> /\ item' = [item EXCEPT ![w] = item[w]]
      BY <2>1 DEF BeginRun, EndRun, Group
    <3> QED
      BY <1>1, <3>1
  <2>2. CASE Weigh(w)
    <3>1. /\ UNCHANGED <<news, dropped>> /\ weighed' = weighed \cup {item[w]}
          /\ \A v \in Polls \ {w} : item'[v] = item[v]
      BY <2>2 DEF Weigh
    <3> QED
      BY <1>1, <3>1
  <2>3. CASE Mark(w)
    <3>1. /\ UNCHANGED <<news, weighed, dropped>> /\ item[w] \in weighed
          /\ \A v \in Polls \ {w} : item'[v] = item[v]
      BY <2>3 DEF Mark, HandStored
    <3> QED
      BY <1>1, <3>1
  <2>4. CASE Die(w)
    <3>1. item[w] # NoItem => item[w] \in weighed \cup dropped'
      BY <2>4 DEF Die, HandStored
    <3>2. /\ UNCHANGED <<news, weighed>> /\ dropped \subseteq dropped'
          /\ \A v \in Polls \ {w} : item'[v] = item[v]
      BY <2>4 DEF Die
    <3> QED
      BY <1>1, <3>1, <3>2
  <2>5. ASSUME NEW b \in Items, Store(w, b) PROVE Kept(a)'
    <3>1. /\ UNCHANGED <<weighed, dropped>> /\ news' = news \cup {b} /\ item[w] = NoItem
          /\ item' = [item EXCEPT ![w] = b]
      BY <2>5 DEF Store
    <3> QED
      BY <1>1, <3>1
  <2>6. ASSUME NEW b \in Items, Repeat(w, b) PROVE Kept(a)'
    BY <1>1, <2>6 DEF Repeat
  <2> QED
    BY <1>2, <2>1, <2>2, <2>3, <2>4, <2>5, <2>6 DEF WorkerStep
<1>3. CASE UNCHANGED <<news, polling>>
  BY <1>1, <1>3
<1>4. \A b \in Items : SendPush(b) => UNCHANGED <<news, polling>>
  BY DEF SendPush
<1> QED
  BY <1>2, <1>3, <1>4, Actors, DeskKeeps DEF newsroomVars

(***************************************************************************)
(* The editors' word                                                       *)
(***************************************************************************)
\* A poll that comes to have an article in hand stored it, so nobody had spoken.
LEMMA SpokenKept ==
  ASSUME NewsroomTypeOK, SpokenInTime, [NewsroomNext]_newsroomVars
  PROVE  SpokenInTime'
<1> USE DEF NewsroomTypeOK, SpokenInTime, InHand, rowsOf, polling, words
<1>1. ASSUME NEW w \in Polls, WorkerStep(w) PROVE SpokenInTime'
  <2>1. UNCHANGED <<spoken, crossed>> /\ news \subseteq news'
    BY <1>1, WorkerKeeps
  <2>2. ASSUME NEW a \in Items, Store(w, a) PROVE SpokenInTime'
    <3>1. spoken[a] = "nothing" /\ item' = [item EXCEPT ![w] = a]
      BY <2>2 DEF Store, NextStage
    <3> QED
      BY <2>1, <3>1
  <2>3. CASE \/ BeginRun(w) \/ EndRun(w) \/ Group(w) \/ Weigh(w) \/ Mark(w) \/ Die(w)
             \/ \E a \in Items : Repeat(w, a)
    <3>1. \A v \in Polls : item'[v] \in {item[v], NoItem}
      BY <2>3 DEF BeginRun, EndRun, Group, Weigh, Mark, Die, Repeat, NextStage
    <3> QED
      BY <2>1, <3>1
  <2> QED
    BY <1>1, <2>2, <2>3 DEF WorkerStep
<1>2. ASSUME NEW a \in Items, NEW word, Speak(a, word), UNCHANGED <<news, polling>>
      PROVE  SpokenInTime'
  BY <1>2 DEF Speak
<1>3. ASSUME NEW e \in Desks, DeskStep(e) PROVE SpokenInTime'
  <2>1. UNCHANGED <<news, polling>> /\ about[e] \in Items
    BY <1>3, DeskKeeps
  <2>2. UNCHANGED words \/ Speak(about[e], asked[e].mark)
    BY <1>3 DEF DeskStep, AskFor, SetBreaking, SetStatus, FileUnder, Reload, Cut, Fail
  <2>3. CASE UNCHANGED words
    BY <2>1, <2>3
  <2> QED
    BY <1>2, <2>1, <2>2, <2>3
<1>4. ASSUME NEW a \in Items, SendPush(a) PROVE SpokenInTime'
  BY <1>2, <1>4 DEF SendPush
<1>5. CASE UNCHANGED newsroomVars
  BY <1>5 DEF newsroomVars
<1> QED
  BY <1>1, <1>3, <1>4, <1>5, Actors

\* Polls only add marks, and only on what they have in hand; statuses and categories
\* leave marks alone.
LEMMA WordKept ==
  ASSUME NewsroomTypeOK, HandStored, SpokenInTime, EditorsWordStands,
         [NewsroomNext]_newsroomVars
  PROVE  EditorsWordStands'
<1> USE DEF NewsroomTypeOK, EditorsWordStands, rowsOf, polling, words
<1>1. ASSUME NEW w \in Polls, WorkerStep(w) PROVE EditorsWordStands'
  <2>1. UNCHANGED words
    BY <1>1, WorkerKeeps
  <2>2. CASE Mark(w)
    <3>1. item[w] \in Items /\ InHand(item[w])
      BY <2>2 DEF Mark, InHand
    <3>2. spoken[item[w]] = "nothing" \/ item[w] \in crossed
      BY <3>1 DEF SpokenInTime
    <3>3. marked \subseteq marked' /\ marked' \subseteq marked \cup {item[w]}
      BY <2>2 DEF Mark
    <3> QED
      BY <2>1, <3>1, <3>2, <3>3
  <2>3. CASE \/ BeginRun(w) \/ EndRun(w) \/ Group(w) \/ Weigh(w) \/ Die(w)
             \/ \E a \in Items : Store(w, a) \/ Repeat(w, a)
    <3>1. UNCHANGED marked
      BY <2>3 DEF BeginRun, EndRun, Group, Weigh, Die, Store, Repeat
    <3> QED
      BY <2>1, <3>1
  <2> QED
    BY <1>1, <2>2, <2>3 DEF WorkerStep
<1>2. ASSUME NEW a \in Items, NEW word \in {"on", "off"}, Speak(a, word)
      PROVE  EditorsWordStands'
  <2>1. CASE a \notin news
    BY <1>2, <2>1 DEF Speak
  <2>2. CASE a \in news
    <3>1. /\ spoken' = [spoken EXCEPT ![a] = word]
          /\ marked' = IF word = "on" THEN marked \cup {a} ELSE marked \ {a}
          /\ crossed \ {a} \subseteq crossed'
      BY <1>2, <2>2 DEF Speak
    <3>2. ASSUME NEW b \in Items \ crossed', b # a
          PROVE  (spoken'[b] = "on" => b \in marked') /\ (spoken'[b] = "off" => b \notin marked')
      BY <3>1, <3>2
    <3>3. (word = "on" => a \in marked') /\ (word = "off" => a \notin marked')
      BY <3>1
    <3> QED
      BY <3>1, <3>2, <3>3
  <2> QED
    BY <2>1, <2>2
<1>3. ASSUME NEW e \in Desks, DeskStep(e) PROVE EditorsWordStands'
  <2>1. \/ UNCHANGED <<marked, words>>
        \/ Speak(about[e], asked[e].mark) /\ asked[e].mark # "keep"
    BY <1>3 DEF DeskStep, AskFor, SetBreaking, SetStatus, FileUnder, Reload, Cut, Fail
  <2>2. about[e] \in Items /\ (asked[e].mark # "keep" => asked[e].mark \in {"on", "off"})
    BY DEF Request
  <2>3. CASE UNCHANGED <<marked, words>>
    BY <2>3
  <2> QED
    BY <1>2, <2>1, <2>2, <2>3
<1>4. ASSUME NEW a \in Items, SendPush(a) PROVE EditorsWordStands'
  BY <1>2, <1>4 DEF SendPush
<1>5. CASE UNCHANGED newsroomVars
  BY <1>5 DEF newsroomVars
<1> QED
  BY <1>1, <1>3, <1>4, <1>5, Actors

(***************************************************************************)
(* The rule                                                                *)
(***************************************************************************)
\* The publishers of stored articles can be counted, and those of a part of them are no
\* more.
LEMMA PublishersOfPart ==
  ASSUME NEW S \in SUBSET Items, NEW T \in SUBSET S
  PROVE  /\ Cardinality({SourceOf(a) : a \in T}) \in Nat
         /\ Cardinality({SourceOf(a) : a \in S}) \in Nat
         /\ Cardinality({SourceOf(a) : a \in T}) <= Cardinality({SourceOf(a) : a \in S})
<1> DEFINE From(R) == {SourceOf(a) : a \in R}
<1>1. IsFiniteSet(S)
  BY FS_Subset
<1>2. [a \in S |-> SourceOf(a)] \in Surjection(S, From(S))
  BY DEF Surjection
<1>3. IsFiniteSet(From(S))
  BY <1>1, <1>2, FS_Surjection
<1>4. From(T) \in SUBSET From(S)
  OBVIOUS
<1>5. IsFiniteSet(From(T)) /\ Cardinality(From(T)) <= Cardinality(From(S))
  BY <1>3, <1>4, FS_Subset
<1>6. Cardinality(From(T)) \in Nat /\ Cardinality(From(S)) \in Nat
  BY <1>3, <1>5, FS_CardinalityType
<1> QED
  BY <1>5, <1>6

\* A story has no more publishers than there are.
LEMMA SourcesBounded ==
  ASSUME NewsroomTypeOK, NEW topic
  PROVE  SourcesOf(topic) \in Nat /\ Publishers \in Nat /\ SourcesOf(topic) <= Publishers
<1>1. news \in SUBSET Items /\ {b \in news \ shut : story[b] = topic} \in SUBSET news
  BY DEF NewsroomTypeOK
<1> QED
  BY <1>1, PublishersOfPart DEF SourcesOf, Publishers

\* Publishers do not become fewer, since no article goes.
LEMMA PublishersGrow ==
  ASSUME NewsroomTypeOK, NewsroomTypeOK', news \subseteq news'
  PROVE  Publishers \in Nat /\ Publishers' \in Nat /\ Publishers <= Publishers'
<1>1. news' \in SUBSET Items /\ news \in SUBSET news'
  BY DEF NewsroomTypeOK
<1> QED
  BY <1>1, PublishersOfPart DEF Publishers

\* No step takes a stored article away.
LEMMA NewsGrow == [NewsroomNext]_newsroomVars => news \subseteq news'
<1> SUFFICES ASSUME [NewsroomNext]_newsroomVars PROVE news \subseteq news'
  OBVIOUS
<1>1. \A a \in Items : SendPush(a) => UNCHANGED news
  BY DEF SendPush
<1> QED
  BY <1>1, Actors, WorkerKeeps, DeskKeeps DEF newsroomVars, rowsOf

\* What allowed a mark still does as long as the run lasts.
LEMMA StaysJustified ==
  ASSUME NewsroomTypeOK, NewsroomTypeOK', news \subseteq news', NEW w \in Polls, NEW a,
         bulk'[w] = bulk[w], Justified(w, a)
  PROVE  Justified(w, a)'
<1>1. Publishers \in Nat /\ Publishers' \in Nat /\ Publishers <= Publishers'
  BY PublishersGrow
<1> QED
  BY <1>1 DEF Justified

\* The rule lets nothing through on less: the count of the story, or none, is no more
\* than there are publishers.
LEMMA DecisionJustified ==
  ASSUME NewsroomTypeOK, NEW w \in Polls, NEW a \in Items,
         NEW sources \in {0, SourcesOf(TopicOf(a))},
         DecideBreaking(Signals[a], sources, bulk[w], Cardinality(runMarks[w]))
  PROVE  Cardinality(runMarks[w]) < RunCap /\ Justified(w, a)
<1>1. sources \in Nat /\ Publishers \in Nat /\ sources <= Publishers
  BY SourcesBounded
<1> QED
  BY <1>1 DEF DecideBreaking, Qualifies, Justified

\* A mark is one more at most.
LEMMA OneMark ==
  ASSUME NEW S \in SUBSET Items, NEW a
  PROVE  /\ Cardinality(S) \in Nat /\ Cardinality(S \cup {a}) \in Nat
         /\ Cardinality(S \cup {a}) <= Cardinality(S) + 1
<1>1. IsFiniteSet(S)
  BY FS_Subset
<1>2. IsFiniteSet(S \cup {a})
  BY <1>1, FS_AddElement
<1>3. Cardinality(S) \in Nat /\ Cardinality(S \cup {a}) \in Nat
  BY <1>1, <1>2, FS_CardinalityType
<1>4. Cardinality(S \cup {a}) = IF a \in S THEN Cardinality(S) ELSE Cardinality(S) + 1
  BY <1>1, FS_AddElement
<1> QED
  BY <1>3, <1>4

\* What a poll decided stands until it marks, and a run marks no more than it may.
LEMMA RuleKept ==
  ASSUME NewsroomTypeOK, NewsroomTypeOK', DecidedWell, Restrained,
         [NewsroomNext]_newsroomVars
  PROVE  DecidedWell' /\ Restrained'
<1> DEFINE Well(w) == phase[w] = "mark" =>
                        Cardinality(runMarks[w]) < RunCap /\ Justified(w, item[w])
           Good(w) == /\ Cardinality(runMarks[w]) <= RunCap
                      /\ \A a \in runMarks[w] : Justified(w, a)
<1>1. Restrained <=> \A w \in Polls : Good(w)
  BY DEF Restrained, Justified
<1>2. Restrained' <=> \A w \in Polls : Good(w)'
  BY DEF Restrained, Justified
<1>3. RunCap \in Nat
  BY DEF RunCap
<1>4. SUFFICES ASSUME NEW w \in Polls PROVE Well(w)' /\ Good(w)'
  BY <1>2 DEF DecidedWell
<1>5. Well(w) /\ Good(w) /\ news \subseteq news'
  BY <1>1, NewsGrow DEF DecidedWell
<1> HIDE DEF Well, Good
<1>6. CASE /\ UNCHANGED <<runMarks[w], bulk[w]>>
           /\ (phase'[w] = "mark" => phase[w] = "mark" /\ item'[w] = item[w])
  <2>1. \A a : Justified(w, a) => Justified(w, a)'
    BY <1>5, <1>6, StaysJustified
  <2> QED
    BY <1>5, <1>6, <2>1 DEF Well, Good
<1>allowed. \A v \in Polls, a \in Items : \A sources \in {0, SourcesOf(TopicOf(a))} :
              DecideBreaking(Signals[a], sources, bulk[v], Cardinality(runMarks[v]))
              => Cardinality(runMarks[v]) < RunCap /\ Justified(v, a)
  BY DecisionJustified
<1> USE DEF NewsroomTypeOK, NextStage
<1>7. ASSUME NEW v \in Polls, WorkerStep(v), v # w PROVE Well(w)' /\ Good(w)'
  <2>1. UNCHANGED <<runMarks[w], bulk[w], phase[w], item[w]>>
    BY <1>7 DEF WorkerStep, BeginRun, EndRun, Group, Weigh, Mark, Die, Store, Repeat, polling
  <2> QED
    BY <1>6, <2>1
<1>8. CASE BeginRun(w)
  <2>1. runMarks'[w] = {} /\ phase'[w] = "items"
    BY <1>8 DEF BeginRun
  <2> QED
    BY <1>3, <2>1, FS_EmptySet DEF Well, Good
<1>9. CASE \/ EndRun(w) \/ Group(w) \/ Die(w)
           \/ \E a \in Items : Store(w, a) \/ Repeat(w, a)
  <2>1. UNCHANGED <<runMarks, bulk>> /\ (phase'[w] = "mark" => UNCHANGED <<phase, item>>)
    BY <1>9 DEF EndRun, Group, Die, Store, Repeat, polling
  <2> QED
    BY <1>6, <2>1
<1>10. CASE Weigh(w)
  <2>1. UNCHANGED <<news, runMarks, bulk>> /\ item[w] \in Items
    BY <1>10 DEF Weigh, rowsOf
  <2>2. PICK sources \in {0, SourcesOf(TopicOf(item[w]))} :
          IF DecideBreaking(Signals[item[w]], sources, bulk[w], Cardinality(runMarks[w]))
          THEN NextStage(w, "mark", item[w]) ELSE NextStage(w, "items", NoItem)
    BY <1>10 DEF Weigh
  <2>3. CASE ~ DecideBreaking(Signals[item[w]], sources, bulk[w], Cardinality(runMarks[w]))
    BY <1>6, <2>1, <2>2, <2>3
  <2>4. CASE DecideBreaking(Signals[item[w]], sources, bulk[w], Cardinality(runMarks[w]))
    <3>1. Cardinality(runMarks[w]) < RunCap /\ Justified(w, item[w])
      BY <1>allowed, <2>1, <2>4
    <3>2. item'[w] = item[w]
      BY <2>2, <2>4
    <3>3. \A a : Justified(w, a) => Justified(w, a)'
      BY <1>5, <2>1, StaysJustified
    <3> QED
      BY <1>5, <2>1, <3>1, <3>2, <3>3 DEF Well, Good
  <2> QED
    BY <2>3, <2>4
<1>11. CASE Mark(w)
  <2>1. UNCHANGED <<news, bulk>> /\ phase[w] = "mark" /\ phase'[w] = "items"
    BY <1>11 DEF Mark
  <2>2. CASE UNCHANGED runMarks
    BY <1>6, <2>1, <2>2
  <2>3. CASE runMarks' = [runMarks EXCEPT ![w] = @ \cup {item[w]}]
    <3>1. runMarks[w] \in SUBSET Items
      OBVIOUS
    <3>2. /\ Cardinality(runMarks[w]) \in Nat
          /\ Cardinality(runMarks[w] \cup {item[w]}) \in Nat
          /\ Cardinality(runMarks[w] \cup {item[w]}) <= Cardinality(runMarks[w]) + 1
      BY <3>1, OneMark
    <3>3. Cardinality(runMarks[w]) < RunCap /\ Justified(w, item[w])
      BY <1>5, <2>1 DEF Well
    <3>4. runMarks'[w] = runMarks[w] \cup {item[w]}
      BY <2>3
    <3>5. Cardinality(runMarks'[w]) <= RunCap
      BY <1>3, <3>2, <3>3, <3>4
    <3>6. \A a : Justified(w, a) => Justified(w, a)'
      BY <1>5, <2>1, StaysJustified
    <3> QED
      BY <1>5, <2>1, <3>3, <3>4, <3>5, <3>6 DEF Well, Good
  <2> QED
    BY <1>11, <2>2, <2>3 DEF Mark
<1>12. CASE UNCHANGED polling
  BY <1>6, <1>12 DEF polling
<1>13. \A a \in Items : SendPush(a) => UNCHANGED polling
  BY DEF SendPush
<1> QED
  BY <1>7, <1>8, <1>9, <1>10, <1>11, <1>12, <1>13, Actors, DeskKeeps
     DEF newsroomVars, WorkerStep

(***************************************************************************)
(* Requests                                                                *)
(***************************************************************************)
\* A request goes from part to part, does each it asks for, and answers at the end or
\* where it is stopped.
LEMMA OrderKept ==
  ASSUME NewsroomTypeOK, OnTheWay, EditsInOrder, [NewsroomNext]_newsroomVars
  PROVE  OnTheWay' /\ EditsInOrder'
<1> DEFINE
      Way(e) == at[e] # "idle" =>
                  did[e] = Wanted(asked[e]) \cap Past(at[e]) /\ answer[e] = "none"
      Ordered(e) ==
        /\ answer[e] = "ok" => did[e] = Wanted(asked[e]) /\ about[e] \in news
        /\ answer[e] = "forbidden" => did[e] = {}
        /\ did[e] \subseteq Wanted(asked[e]) /\ logged[e] \subseteq did[e]
        /\ troubles = 0 => logged[e] = did[e]
        /\ "status" \in did[e] => Wanted(asked[e]) \cap {"mark"} \subseteq did[e]
        /\ "file" \in did[e] => Wanted(asked[e]) \cap {"mark", "status"} \subseteq did[e]
<1> SUFFICES ASSUME NEW e \in Desks PROVE Way(e)' /\ Ordered(e)'
  BY DEF OnTheWay, EditsInOrder
<1>1. /\ Way(e) /\ Ordered(e) /\ news \subseteq news' /\ troubles \in Nat
  BY NewsGrow DEF OnTheWay, EditsInOrder, NewsroomTypeOK
<1>2. CASE UNCHANGED <<at[e], asked[e], about[e], did[e], logged[e], answer[e]>>
           /\ (UNCHANGED troubles \/ Trouble)
  BY <1>1, <1>2 DEF Trouble, Wanted, Past
<1> USE DEF NewsroomTypeOK, rowsOf, Past
<1>3. ASSUME NEW d \in Desks, DeskStep(d), d # e
      PROVE  UNCHANGED <<at[e], asked[e], about[e], did[e], logged[e], answer[e]>>
  BY <1>3 DEF DeskStep, AskFor, SetBreaking, SetStatus, FileUnder, Reload, Cut, Say, GoOn,
              Fail, Succeed
<1>4. CASE AskFor(e)
  BY <1>4 DEF AskFor, Wanted
\* It stops on the way, having done what it came past:
<1>5. ASSUME NEW how, Say(e, how), UNCHANGED troubles \/ Trouble,
             how = "ok" => at[e] = "reload" /\ about[e] \in news,
             how = "forbidden" => at[e] = "mark"
      PROVE  Way(e)' /\ Ordered(e)'
  BY <1>1, <1>5 DEF Say, Trouble, Wanted
\* A part is not asked for, or is done, and the next one comes:
<1>6. ASSUME NEW to, to # "idle", at[e] \in {"mark", "status", "file"},
             Past(to) = Past(at[e]) \cup {at[e]},
             \/ GoOn(e, to) /\ at[e] \notin Wanted(asked[e]) /\ UNCHANGED troubles
             \/ Succeed(e, at[e], to) /\ at[e] \in Wanted(asked[e])
      PROVE  Way(e)' /\ Ordered(e)'
  <2>1. did[e] = Wanted(asked[e]) \cap Past(at[e]) /\ answer[e] = "none"
    BY <1>1, <1>6
  <2>2. /\ at'[e] = to /\ UNCHANGED <<asked[e], about[e], answer[e]>>
        /\ did'[e] = Wanted(asked[e]) \cap Past(to)
    <3>1. CASE GoOn(e, to) /\ at[e] \notin Wanted(asked[e])
      <4>1. at'[e] = to /\ UNCHANGED <<asked, about, answer, did>>
        BY <3>1 DEF GoOn
      <4> HIDE DEF Past
      <4> QED
        BY <1>6, <2>1, <3>1, <4>1
    <3>2. CASE Succeed(e, at[e], to) /\ at[e] \in Wanted(asked[e])
      <4>1. at'[e] = to /\ UNCHANGED <<asked, about, answer>> /\ did'[e] = did[e] \cup {at[e]}
        BY <3>2 DEF Succeed
      <4> HIDE DEF Past
      <4> QED
        BY <1>6, <2>1, <3>2, <4>1
    <3> QED
      BY <1>6, <3>1, <3>2
  <2>3. logged'[e] \subseteq did'[e] /\ (troubles' = 0 => logged'[e] = did'[e])
    <3>1. CASE GoOn(e, to) /\ UNCHANGED troubles
      BY <1>1, <3>1 DEF GoOn
    <3>2. CASE Succeed(e, at[e], to) /\ logged' = [logged EXCEPT ![e] = @ \cup {at[e]}]
                                     /\ UNCHANGED troubles
      BY <1>1, <3>2 DEF Succeed
    <3>3. CASE Succeed(e, at[e], to) /\ UNCHANGED logged /\ Trouble
      BY <1>1, <3>3 DEF Succeed, Trouble
    <3> QED
      BY <1>6, <3>1, <3>2, <3>3 DEF Succeed
  <2>4. Wanted(asked'[e]) = Wanted(asked[e]) /\ Wanted(asked[e]) \subseteq {"mark", "status", "file"}
    BY <2>2 DEF Wanted
  <2>5. Past(to) \in {{"mark"}, {"mark", "status"}, {"mark", "status", "file"}}
    BY <1>6
  <2>6. Way(e)'
    BY <2>1, <2>2, <2>4
  <2>7. /\ "status" \in did'[e] => Wanted(asked'[e]) \cap {"mark"} \subseteq did'[e]
        /\ "file" \in did'[e] => Wanted(asked'[e]) \cap {"mark", "status"} \subseteq did'[e]
    BY <2>2, <2>4, <2>5
  <2>8. did'[e] \subseteq Wanted(asked'[e]) /\ answer'[e] = "none"
    BY <2>1, <2>2, <2>4
  <2> QED
    BY <2>3, <2>6, <2>7, <2>8
<1>7. CASE SetBreaking(e)
  <2>1. Past("status") = Past("mark") \cup {"mark"}
    OBVIOUS
  <2>2. asked[e].mark # "keep" <=> "mark" \in Wanted(asked[e])
    BY DEF Wanted
  <2> QED
    BY <1>5, <1>6, <1>7, <2>1, <2>2 DEF SetBreaking, Fail
<1>8. CASE SetStatus(e)
  <2>1. Past("file") = Past("status") \cup {"status"}
    OBVIOUS
  <2>2. asked[e].status # "keep" <=> "status" \in Wanted(asked[e])
    BY DEF Wanted
  <2> QED
    BY <1>5, <1>6, <1>8, <2>1, <2>2 DEF SetStatus, Fail
<1>9. CASE FileUnder(e)
  <2>1. Past("reload") = Past("file") \cup {"file"}
    OBVIOUS
  <2>2. asked[e].file # "keep" <=> "file" \in Wanted(asked[e])
    BY DEF Wanted
  <2> QED
    BY <1>5, <1>6, <1>9, <2>1, <2>2 DEF FileUnder, Fail
<1>10. CASE Reload(e)
  BY <1>5, <1>10 DEF Reload, Fail
<1>11. CASE Cut(e)
  BY <1>5, <1>11 DEF Cut
<1>12. ASSUME NEW a \in Items, SendPush(a)
       PROVE  UNCHANGED <<at, asked, about, did, logged, answer, troubles>>
  BY <1>12 DEF SendPush
<1>13. UNCHANGED newsroomVars
       => UNCHANGED <<at, asked, about, did, logged, answer, troubles>>
  BY DEF newsroomVars, desk
<1>14. ASSUME NEW w \in Polls, WorkerStep(w)
       PROVE  /\ UNCHANGED <<at, asked, about, did, logged, answer>>
              /\ UNCHANGED troubles \/ Trouble
  BY <1>14, WorkerKeeps DEF desk
<1>15. ASSUME NEW d \in Desks, DeskStep(d) PROVE Way(e)' /\ Ordered(e)'
  BY <1>2, <1>3, <1>4, <1>7, <1>8, <1>9, <1>10, <1>11, <1>15, DeskKeeps DEF DeskStep
<1> HIDE DEF Way, Ordered
<1> QED
  BY <1>2, <1>12, <1>13, <1>14, <1>15, Actors

(***************************************************************************)
(* The theorems                                                            *)
(***************************************************************************)
\* Initially nothing is stored and nobody asks for anything.
LEMMA NewsroomInvInit == NewsroomInit => NewsroomInv
<1> SUFFICES ASSUME NewsroomInit PROVE NewsroomInv
  OBVIOUS
<1> USE DEF NewsroomInit
<1>1. NewsroomTypeOK
  <2>1. (CHOOSE r \in Forms : TRUE) \in Request /\ (CHOOSE a \in Items : TRUE) \in Items
    OBVIOUS
  <2> QED
    BY <2>1 DEF NewsroomTypeOK
<1>2. HandStored /\ SpokenInTime /\ DecidedWell /\ OnTheWay
  BY DEF HandStored, SpokenInTime, DecidedWell, OnTheWay
<1>3. WeighedUnlessCutOff /\ EditorsWordStands
  BY DEF WeighedUnlessCutOff, EditorsWordStands
<1>4. Restrained
  <2>1. RunCap \in Nat
    BY DEF RunCap
  <2> QED
    BY <2>1, FS_EmptySet DEF Restrained
<1>5. EditsInOrder
  BY DEF EditsInOrder
<1> QED
  BY <1>1, <1>2, <1>3, <1>4, <1>5 DEF NewsroomInv

\* The parts together are inductive.
LEMMA NewsroomInvStep ==
  NewsroomInv /\ [NewsroomNext]_newsroomVars => NewsroomInv'
<1> SUFFICES ASSUME NewsroomInv, [NewsroomNext]_newsroomVars PROVE NewsroomInv'
  OBVIOUS
<1> USE DEF NewsroomInv
<1>1. NewsroomTypeOK'
  BY TypesKept
<1>2. HandStored' /\ SpokenInTime'
  BY HandStoredKept, SpokenKept
<1>3. DecidedWell' /\ Restrained'
  BY <1>1, RuleKept
<1>4. OnTheWay' /\ EditsInOrder'
  BY OrderKept
<1>5. WeighedUnlessCutOff' /\ EditorsWordStands'
  BY WeighedKept, WordKept
<1> QED
  BY <1>1, <1>2, <1>3, <1>4, <1>5

\* The invariant above holds in every state that polls and editors reach.
THEOREM NewsroomInductive == NewsroomSpec => []NewsroomInv
  BY NewsroomInvInit, NewsroomInvStep, PTL DEF NewsroomSpec

\* Rows, polls and requests hold what they may: marks, statuses and categories are those
\* of stored articles.
THEOREM NewsroomTypeCorrect == NewsroomSpec => []NewsroomTypeOK
<1>1. NewsroomInv => NewsroomTypeOK
  BY DEF NewsroomInv
<1> QED
  BY <1>1, NewsroomInductive, PTL

\* Whatever fails, an article that was stored is weighed by evaluateBreaking, or about to
\* be, or the process died with it in hand.
THEOREM NothingLeftOut == NewsroomSpec => []WeighedUnlessCutOff
<1>1. NewsroomInv => WeighedUnlessCutOff
  BY DEF NewsroomInv
<1> QED
  BY <1>1, NewsroomInductive, PTL

\* No run marks more than BREAKING_MAX_PER_RUN, nor on the word of fewer publishers than
\* decideBreaking asks for, though articles come, go to other stories and are hidden
\* between the count and the mark.
THEOREM RestraintKept == NewsroomSpec => []Restrained
<1>1. NewsroomInv => Restrained
  BY DEF NewsroomInv
<1> QED
  BY <1>1, NewsroomInductive, PTL

\* SetArticleBreaking of a poll overrules no editor, except one who spoke while that poll
\* was still deciding.
THEOREM EditorsHaveTheLastWord == NewsroomSpec => []EditorsWordStands
<1>1. NewsroomInv => EditorsWordStands
  BY DEF NewsroomInv
<1> QED
  BY <1>1, NewsroomInductive, PTL

\* handleAdminArticleUpdate does its parts in order, all of them if it says "ok", and
\* none after one that fails.
THEOREM PartsInOrder == NewsroomSpec => []EditsInOrder
<1>1. NewsroomInv => EditsInOrder
  BY DEF NewsroomInv
<1> QED
  BY <1>1, NewsroomInductive, PTL

(***************************************************************************)
(* The composition that a run checks: polling and the newsroom share no    *)
(* state, and every step of one leaves the other alone.                    *)
(***************************************************************************)
\* Whichever part a behaviour is about, the types of both hold.
THEOREM WorkerTypeCorrect == WorkerSpec => []WorkerTypeOK
<1> DEFINE Both == TypeOK /\ NewsroomInv
<1>1. WorkerInit => Both
  BY TypeInit, NewsroomInvInit DEF WorkerInit
<1>2. [Polling \/ Deciding \/ Idle]_workerVars =>
        [Next]_vars /\ [NewsroomNext]_newsroomVars
  BY DEF Polling, Deciding, Idle, workerVars
<1>3. Both /\ [Polling \/ Deciding \/ Idle]_workerVars => Both'
  BY <1>2, TypeStep, NewsroomInvStep
<1>4. Both => WorkerTypeOK
  BY DEF WorkerTypeOK, NewsroomInv
<1> QED
  BY <1>1, <1>3, <1>4, PTL DEF WorkerSpec
==============================================================================
