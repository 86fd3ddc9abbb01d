------------------------------ MODULE Newsroom ------------------------------
(***************************************************************************)
(* Breaking news: the worker's rule (backend/internal/ingest/pipeline.go)  *)
(* and the editors' word (httpapi/admin.go, store/articles.go), on the     *)
(* same rows at the same time.                                             *)
(*                                                                         *)
(* A poll stores the new items of a feed one by one, puts each with its    *)
(* story, and weighs it once, right after that.  An editor's request       *)
(* changes an article by up to three statements of their own.  Behaviours  *)
(* are shorter than the six hours in which reports of a story count.       *)
(***************************************************************************)
EXTENDS Integers, FiniteSets

CONSTANTS
  Items,       \* new articles
  Signals,     \* [Items -> what breakingSignals and the clusters know of each]
  Polls,       \* polls under way at a time
  Desks,       \* requests under way at a time
  Forms,       \* what requests ask for, see Request
  MaxPerRun,   \* BREAKING_MAX_PER_RUN
  Threshold,   \* breakingThreshold, in hundredths (60)
  NoItem,      \* no article, no story
  MaxEdits,    \* bound: requests of editors
  MaxTroubles  \* bound: failed statements and processes that die

\* A request, by someone who may or may not set marks; "other" stands for a status or a
\* province that there is not.
Request ==
  [mark : {"keep", "on", "off"}, status : {"keep", "ACTIVE", "HIDDEN", "other"},
   file : {"keep", "known", "other"}, may : BOOLEAN]

ASSUME NewsroomAssumption ==
  /\ IsFiniteSet(Items) /\ Items # {} /\ NoItem \notin Items
  /\ Forms \subseteq Request /\ Forms # {}
  /\ MaxPerRun \in Int /\ Threshold \in Nat /\ MaxEdits \in Nat /\ MaxTroubles \in Nat

VARIABLES
  news,      \* articles stored
  shut,      \* those whose status is HIDDEN
  marked,    \* those with is_breaking
  filed,     \* those with a category or province of origin EDITOR
  story,     \* [Items -> topic of its cluster, or NoItem]
  phase,     \* of a poll: "off", "items", or what comes next for its item
  item,      \* that item
  runMarks,  \* the articles this run of a poll marked: breakingFlagged is their number
  bulk,      \* whether the run has bulkStreamItems or more
  at,        \* of an editor's request: what comes next, "idle" after the answer
  asked,     \* what it asks for
  about,     \* of which article
  did,       \* the statements that succeeded
  logged,    \* those of them the audit log tells of
  answer,    \* "ok", or how it was refused; "none" before
  weighed,   \* history: articles that evaluateBreaking saw
  dropped,   \* history: articles whose poll died before that
  spoken,    \* history: [Items -> "nothing", "on", "off"], the editors' last word
  crossed,   \* history: articles an editor spoke about while a poll had them in hand
  edits, troubles

rowsOf == <<news, shut, marked, filed, story>>
polling == <<phase, item, runMarks, bulk, weighed, dropped>>
desk == <<at, asked, about, did, logged, answer, edits>>
words == <<spoken, crossed>>
newsroomVars == <<rowsOf, polling, desk, words, troubles>>

TopicOf(a) == Signals[a].topic
SourceOf(a) == Signals[a].source
Topics == {TopicOf(a) : a \in Items}

NewsroomTypeOK ==
  /\ news \subseteq Items /\ shut \cup marked \cup filed \subseteq news
  /\ story \in [Items -> Topics \cup {NoItem}]
  /\ phase \in [Polls -> {"off", "items", "group", "weigh", "mark"}]
  /\ item \in [Polls -> Items \cup {NoItem}]
  /\ \A w \in Polls : phase[w] \in {"group", "weigh", "mark"} <=> item[w] # NoItem
  /\ runMarks \in [Polls -> SUBSET news] /\ bulk \in [Polls -> BOOLEAN]
  /\ at \in [Desks -> {"idle", "mark", "status", "file", "reload"}]
  /\ asked \in [Desks -> Request] /\ about \in [Desks -> Items]
  /\ did \in [Desks -> SUBSET {"mark", "status", "file"}]
  /\ logged \in [Desks -> SUBSET {"mark", "status", "file"}]
  /\ answer \in [Desks -> {"none", "ok", "forbidden", "invalid", "failed"}]
  /\ weighed \cup dropped \subseteq news /\ crossed \subseteq news
  /\ spoken \in [Items -> {"nothing", "on", "off"}]
  /\ edits \in 0 .. MaxEdits /\ troubles \in 0 .. MaxTroubles

NewsroomInit ==
  /\ news = {} /\ shut = {} /\ marked = {} /\ filed = {}
  /\ story = [a \in Items |-> NoItem]
  /\ phase = [w \in Polls |-> "off"] /\ item = [w \in Polls |-> NoItem]
  /\ runMarks = [w \in Polls |-> {}] /\ bulk = [w \in Polls |-> FALSE]
  /\ at = [e \in Desks |-> "idle"]
  /\ asked = [e \in Desks |-> CHOOSE r \in Forms : TRUE]
  /\ about = [e \in Desks |-> CHOOSE a \in Items : TRUE]
  /\ did = [e \in Desks |-> {}] /\ logged = [e \in Desks |-> {}]
  /\ answer = [e \in Desks |-> "none"]
  /\ weighed = {} /\ dropped = {}
  /\ spoken = [a \in Items |-> "nothing"] /\ crossed = {}
  /\ edits = 0 /\ troubles = 0

Trouble == troubles < MaxTroubles /\ troubles' = troubles + 1

(***************************************************************************)
(* The rule                                                                *)
(***************************************************************************)
\* breakingScore, in hundredths; sources is the number of publishers of the story.
BreakingScore(s, sources) ==
  (IF s.official THEN 45 ELSE 0)
  + (IF s.priority >= 5 THEN 15 ELSE IF s.priority = 4 THEN 8 ELSE 0)
  + (IF s.safety THEN 20 ELSE 0) + (IF s.recent THEN 10 ELSE 0)
  + (IF sources >= 3 THEN 25 ELSE 0)

Qualifies(s, sources) == s.local \/ s.safety \/ s.urgent \/ sources >= 2

RunCap == IF MaxPerRun <= 0 THEN 2 ELSE MaxPerRun

DecideLoosely(s, sources, isBulk, already) ==
  BreakingScore(s, sources) >= Threshold /\ Qualifies(s, sources) /\ already <= RunCap

\* decideBreaking
DecideBreaking(s, sources, isBulk, already) ==
  /\ BreakingScore(s, sources) >= Threshold
  /\ Qualifies(s, sources)
  /\ already < RunCap
  /\ ~(isBulk /\ sources < 3 /\ ~s.urgent /\ ~s.safety)

\* DistinctSourceCountForTopic: the publishers in the cluster whose key is the topic of the
\* item itself, which need not be the cluster the item is in.
SourcesOf(topic) == Cardinality({SourceOf(a) : a \in {b \in news \ shut : story[b] = topic}})

(***************************************************************************)
(* The worker                                                              *)
(***************************************************************************)
NextStage(w, p, a) == phase' = [phase EXCEPT ![w] = p] /\ item' = [item EXCEPT ![w] = a]

BeginRun(w) ==
  /\ phase[w] = "off" /\ NextStage(w, "items", NoItem)
  /\ runMarks' = [runMarks EXCEPT ![w] = {}]
  /\ \E b \in BOOLEAN : bulk' = [bulk EXCEPT ![w] = b]
  /\ UNCHANGED <<rowsOf, weighed, dropped, desk, words, troubles>>

EndRun(w) ==
  /\ phase[w] = "items" /\ NextStage(w, "off", NoItem)
  /\ UNCHANGED <<rowsOf, runMarks, bulk, weighed, dropped, desk, words, troubles>>

\* InsertArticle stores an item.
Store(w, a) ==
  /\ phase[w] = "items" /\ a \notin news
  /\ news' = news \cup {a} /\ NextStage(w, "group", a)
  /\ UNCHANGED <<shut, marked, filed, story, runMarks, bulk, weighed, dropped, desk, words,
                 troubles>>

\* attachToCluster: to the cluster of the topic, or else to that of a near duplicate.
Grouped(a, topic) ==
  \/ story' = [story EXCEPT ![a] = topic]
  \/ /\ \A b \in news : story[b] # topic
     /\ \E t \in Topics : (\E b \in news \ shut : story[b] = t) /\ story' = [story EXCEPT ![a] = t]

\* An item duplicates a stored article, which is put with the story of the item, be it
\* another one; it is not weighed.
RepeatWeighing(w, a) ==
  /\ phase[w] = "items" /\ a \in news
  /\ (UNCHANGED troubles /\ \E t \in Topics : Grouped(a, t)) \/ (Trouble /\ UNCHANGED story)
  /\ NextStage(w, "weigh", a)
  /\ UNCHANGED <<news, shut, marked, filed, runMarks, bulk, weighed, dropped, desk, words>>
Repeat(w, a) ==
  /\ phase[w] = "items" /\ a \in news
  /\ (UNCHANGED troubles /\ \E t \in Topics : Grouped(a, t)) \/ (Trouble /\ UNCHANGED story)
  /\ UNCHANGED <<news, shut, marked, filed, polling, desk, words>>

GroupOrSkip(w) ==
  /\ phase[w] = "group"
  /\ \/ Grouped(item[w], TopicOf(item[w])) /\ NextStage(w, "weigh", item[w]) /\ UNCHANGED troubles
     \/ Trouble /\ NextStage(w, "items", NoItem) /\ UNCHANGED story
  /\ UNCHANGED <<news, shut, marked, filed, runMarks, bulk, weighed, dropped, desk, words>>
\* An error does not keep the item from being weighed.
Group(w) ==
  /\ phase[w] = "group"
  /\ (Grouped(item[w], TopicOf(item[w])) /\ UNCHANGED troubles) \/ (Trouble /\ UNCHANGED story)
  /\ NextStage(w, "weigh", item[w])
  /\ UNCHANGED <<news, shut, marked, filed, runMarks, bulk, weighed, dropped, desk, words>>

\* evaluateBreaking up to the decision: when the count fails, there are no sources.
Weigh(w) ==
  /\ phase[w] = "weigh"
  /\ weighed' = weighed \cup {item[w]}
  /\ \E sources \in {0, SourcesOf(TopicOf(item[w]))} :
       /\ \/ sources = SourcesOf(TopicOf(item[w])) /\ UNCHANGED troubles
          \/ sources = 0 /\ Trouble
       /\ IF DecideBreaking(Signals[item[w]], sources, bulk[w], Cardinality(runMarks[w]))
          THEN NextStage(w, "mark", item[w]) ELSE NextStage(w, "items", NoItem)
  /\ UNCHANGED <<rowsOf, runMarks, bulk, dropped, desk, words>>

\* SetArticleBreaking, as the worker calls it. A failed one does not count.
Mark(w) ==
  /\ phase[w] = "mark" /\ NextStage(w, "items", NoItem)
  /\ \/ /\ marked' = marked \cup {item[w]} /\ UNCHANGED troubles
        /\ runMarks' = [runMarks EXCEPT ![w] = @ \cup {item[w]}]
     \/ Trouble /\ UNCHANGED <<marked, runMarks>>
  /\ UNCHANGED <<news, shut, filed, story, bulk, weighed, dropped, desk, words>>

\* The process dies. The next poll finds the item stored, a duplicate.
Die(w) ==
  /\ phase[w] # "off" /\ Trouble /\ NextStage(w, "off", NoItem)
  /\ dropped' = IF phase[w] \in {"group", "weigh"} THEN dropped \cup {item[w]} ELSE dropped
  /\ UNCHANGED <<rowsOf, runMarks, bulk, weighed, desk, words>>

(***************************************************************************)
(* Editors                                                               *)
(***************************************************************************)
\* handleAdminArticleUpdate, a statement at a time. A statement about an article there is
\* not changes no row.
AskFor(e) ==
  /\ at[e] = "idle" /\ edits < MaxEdits /\ edits' = edits + 1
  /\ \E r \in Forms : asked' = [asked EXCEPT ![e] = r]
  /\ \E a \in Items : about' = [about EXCEPT ![e] = a]
  /\ at' = [at EXCEPT ![e] = "mark"]
  /\ did' = [did EXCEPT ![e] = {}] /\ logged' = [logged EXCEPT ![e] = {}]
  /\ answer' = [answer EXCEPT ![e] = "none"]
  /\ UNCHANGED <<rowsOf, polling, words, troubles>>

Say(e, how) ==
  /\ at' = [at EXCEPT ![e] = "idle"] /\ answer' = [answer EXCEPT ![e] = how]
  /\ UNCHANGED <<asked, about, did, logged, edits>>
GoOn(e, to) == at' = [at EXCEPT ![e] = to] /\ UNCHANGED <<asked, about, did, logged, answer, edits>>
Fail(e) == Trouble /\ Say(e, "failed") /\ UNCHANGED <<rowsOf, words>>
\* A statement that succeeds is put into the audit log; an error of that is dropped.
SucceedUnlogged(e, what, to) ==
  /\ at' = [at EXCEPT ![e] = to] /\ did' = [did EXCEPT ![e] = @ \cup {what}]
  /\ logged' = [logged EXCEPT ![e] = @ \cup ({what} \ {"status"})]
  /\ UNCHANGED <<asked, about, answer, edits, troubles>>
Succeed(e, what, to) ==
  /\ at' = [at EXCEPT ![e] = to] /\ did' = [did EXCEPT ![e] = @ \cup {what}]
  /\ \/ logged' = [logged EXCEPT ![e] = @ \cup {what}] /\ UNCHANGED troubles
     \/ Trouble /\ UNCHANGED logged
  /\ UNCHANGED <<asked, about, answer, edits>>

InHand(a) == \E w \in Polls : item[w] = a

\* An editor's word on an article: breaking or not.
Speak(a, word) ==
  IF a \notin news THEN UNCHANGED <<marked, words>>
  ELSE /\ marked' = IF word = "on" THEN marked \cup {a} ELSE marked \ {a}
       /\ spoken' = [spoken EXCEPT ![a] = word]
       /\ crossed' = IF InHand(a) THEN crossed \cup {a} ELSE crossed \ {a}

SetBreaking(e) ==
  LET r == asked[e] IN
  /\ at[e] = "mark" /\ UNCHANGED polling
  /\ \/ r.mark = "keep" /\ GoOn(e, "status") /\ UNCHANGED <<rowsOf, words, troubles>>
     \/ r.mark # "keep" /\ ~r.may /\ Say(e, "forbidden") /\ UNCHANGED <<rowsOf, words, troubles>>
     \/ /\ r.mark # "keep" /\ r.may
        /\ \/ /\ Succeed(e, "mark", "status") /\ Speak(about[e], r.mark)
              /\ UNCHANGED <<news, shut, filed, story>>
           \/ Fail(e)

SetStatus(e) ==
  LET r == asked[e] IN
  /\ at[e] = "status" /\ UNCHANGED polling
  /\ \/ r.status = "keep" /\ GoOn(e, "file") /\ UNCHANGED <<rowsOf, words, troubles>>
     \/ r.status = "other" /\ Say(e, "invalid") /\ UNCHANGED <<rowsOf, words, troubles>>
     \/ /\ r.status \in {"ACTIVE", "HIDDEN"}
        /\ \/ /\ Succeed(e, "status", "file")
              /\ shut' = IF r.status = "HIDDEN" THEN shut \cup ({about[e]} \cap news)
                         ELSE shut \ {about[e]}
              /\ UNCHANGED <<news, marked, filed, story, words>>
           \/ Fail(e)

\* ReclassifyArticle: a row of a category for an article there is not breaks a foreign key.
FileUnder(e) ==
  LET r == asked[e] IN
  /\ at[e] = "file" /\ UNCHANGED polling
  /\ \/ r.file = "keep" /\ GoOn(e, "reload") /\ UNCHANGED <<rowsOf, words, troubles>>
     \/ r.file = "other" /\ Say(e, "invalid") /\ UNCHANGED <<rowsOf, words, troubles>>
     \/ /\ r.file = "known" /\ about[e] \in news
        /\ \/ /\ Succeed(e, "file", "reload") /\ filed' = filed \cup {about[e]}
              /\ UNCHANGED <<news, shut, marked, story, words>>
           \/ Fail(e)
     \/ /\ r.file = "known" /\ about[e] \notin news
        /\ Say(e, "failed") /\ UNCHANGED <<rowsOf, words, troubles>>

\* ArticleCardByID, for the answer.
Reload(e) ==
  /\ at[e] = "reload" /\ UNCHANGED polling
  /\ \/ about[e] \in news /\ Say(e, "ok") /\ UNCHANGED <<rowsOf, words, troubles>>
     \/ about[e] \notin news /\ Say(e, "failed") /\ UNCHANGED <<rowsOf, words, troubles>>
     \/ Fail(e)

\* The process dies on the way.
Cut(e) ==
  /\ at[e] # "idle" /\ Trouble /\ Say(e, "none") /\ UNCHANGED <<rowsOf, polling, words>>

\* What handleAdminPushSend does to the article of a push it has recorded.
SendPush(a) ==
  /\ a \in news /\ edits < MaxEdits /\ edits' = edits + 1 /\ Speak(a, "on")
  /\ UNCHANGED <<news, shut, filed, story, polling, at, asked, about, did, logged, answer, troubles>>

NewsroomNext ==
  \/ \E w \in Polls :
       \/ BeginRun(w) \/ EndRun(w) \/ Group(w) \/ Weigh(w) \/ Mark(w) \/ Die(w)
       \/ \E a \in Items : Store(w, a) \/ Repeat(w, a)
  \/ \E e \in Desks : AskFor(e) \/ SetBreaking(e) \/ SetStatus(e) \/ FileUnder(e) \/ Reload(e)
                       \/ Cut(e)
  \/ \E a \in Items : SendPush(a)

NewsroomSpec == NewsroomInit /\ [][NewsroomNext]_newsroomVars

(***************************************************************************)
(* Properties                                                              *)
(***************************************************************************)
\* Every article that was stored is weighed or about to be, unless the process died in
\* between: no error and no turn of the loop leaves one out.
WeighedUnlessCutOff == news \subseteq weighed \cup dropped \cup {item[w] : w \in Polls}

\* A run marks no more articles than it may, and nothing on the word of one publisher:
\* what is not local, about safety or urgent needs a second, and what comes in bulk and
\* is not about safety or urgent a third.
Publishers == Cardinality({SourceOf(a) : a \in news})
Restrained ==
  \A w \in Polls :
    /\ Cardinality(runMarks[w]) <= RunCap
    /\ \A a \in runMarks[w] :
         LET s == Signals[a] IN
         \/ s.safety \/ s.urgent \/ Publishers >= 3
         \/ (~bulk[w] /\ (s.local \/ Publishers >= 2))

\* The editors' last word on an article stands, unless they spoke while a poll had just
\* stored it and was still deciding.
EditorsWordStands ==
  \A a \in Items \ crossed :
    (spoken[a] = "on" => a \in marked) /\ (spoken[a] = "off" => a \notin marked)

\* A request that is answered "ok" has done all it asked for; one that is refused has done
\* what comes before the point it was refused at, and nothing after it. What was done is
\* in the audit log, unless a statement failed.
Wanted(r) ==
  {part \in {"mark", "status", "file"} :
     \/ (part = "mark" /\ r.mark # "keep") \/ (part = "status" /\ r.status # "keep")
     \/ (part = "file" /\ r.file # "keep")}
EditsInOrder ==
  \A e \in Desks :
    /\ answer[e] = "ok" => did[e] = Wanted(asked[e]) /\ about[e] \in news
    /\ answer[e] = "forbidden" => did[e] = {}
    /\ did[e] \subseteq Wanted(asked[e]) /\ logged[e] \subseteq did[e]
    /\ troubles = 0 => logged[e] = did[e]
    /\ "status" \in did[e] => Wanted(asked[e]) \cap {"mark"} \subseteq did[e]
    /\ "file" \in did[e] => Wanted(asked[e]) \cap {"mark", "status"} \subseteq did[e]
=============================================================================
