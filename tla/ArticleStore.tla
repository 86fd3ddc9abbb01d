----------------------------- MODULE ArticleStore -----------------------------
(***************************************************************************)
(* How reports of the same story meet: a polled item is looked up in the   *)
(* table `articles`, stored unless it is a duplicate, and attached to a    *)
(* row of `article_clusters` (ingestCandidates and attachToCluster in      *)
(* backend/internal/ingest/pipeline.go, backend/internal/store/articles.go *)
(* for PostgreSQL at its default isolation, READ COMMITTED).               *)
(*                                                                         *)
(* An article is named by the report that inserted it.  A cluster is named *)
(* by its topic, the fingerprint of a title: every id AssignCluster makes  *)
(* is StableID of a topic, and no topic has two.  All of it happens within *)
(* one look-back window (36 and 48 hours).  An item is handled whenever a  *)
(* poll returns a body that lists it, and is not when the publisher        *)
(* answers 304, whatever became of it the last time.                       *)
(***************************************************************************)
EXTENDS Integers, FiniteSets, Sequences

CONSTANTS
  Workers,   \* goroutines in ingestCandidates
  Reports,   \* items of feeds
  None,      \* no GUID, no article, no cluster
  Feed,      \* [Reports -> feeds]
  Guid,      \* [Reports -> GUIDs], None when the feed gives none
  Url,       \* [Reports -> normalized URLs]
  Content,   \* [Reports -> hashes of title and summary]
  Title,     \* [Reports -> Titles]: normalized title and day, what a topic hashes
  Titles,
  Near,      \* the pairs of titles NearDuplicateTitle accepts
  Relisted,  \* reports that a body is sure to list again and again: their publisher sends
             \* neither ETag nor Last-Modified, and so never answers 304
  MaxUpsets  \* bound: failed statements, crashes, and articles an editor hides or
             \* restores, in a behaviour

ASSUME ArticleAssumption ==
  /\ IsFiniteSet(Workers) /\ IsFiniteSet(Reports)
  /\ None \notin Reports /\ None \notin Titles /\ None \notin Nat
  /\ Relisted \subseteq Reports
  /\ Title \in [Reports -> Titles] /\ Near \subseteq Titles \X Titles
  /\ \A p \in Near : <<p[2], p[1]>> \in Near
  /\ \A a, b \in Reports : Content[a] = Content[b] => Title[a] = Title[b]
  /\ MaxUpsets \in Nat

VARIABLES
  stored,    \* the articles, oldest first
  hidden,    \* those whose status is not ACTIVE
  cluster,   \* [Reports -> Titles \cup {None}], the column cluster_id
  count,     \* [Titles -> Nat \cup {None}], article_count; None: no such cluster
  stage,     \* of a worker, see Stage
  report,    \* the item a worker handles
  target,    \* the article it attaches, None if InsertArticle gave no id
  dest,      \* the cluster it attaches to
  creates,   \* whether its transaction found no such cluster
  recount,   \* the members its transaction counted
  rivals,    \* history, by URL: other workers about to store it when its first
             \* copy was stored
  upsets     \* those still allowed

articles == <<stored, hidden, cluster, count>>
worker   == <<stage, report, target, dest, creates, recount>>
vars     == <<articles, worker, rivals, upsets>>

Urls == {Url[r] : r \in Reports}

\* Between items; no duplicate was found; looking for a cluster; before AssignCluster;
\* in its transaction, before the commit.
Stage == {"idle", "new", "stored", "placed", "linking"}

Id(r)   == <<Feed[r], Url[r]>>         \* StableID of canonical URL and feed
Stored  == {stored[i] : i \in DOMAIN stored}
Active  == Stored \ hidden
Copies(u)  == {a \in Stored : Url[a] = u}
Storing(u) == {w \in Workers : stage[w] = "new" /\ Url[report[w]] = u}
Members(t) == {a \in Active : cluster[a] = t}

\* The last conjunct is the primary key of the table.
TypeOK ==
  /\ stored \in Seq(Reports) /\ hidden \subseteq Stored
  /\ cluster \in [Reports -> Titles \cup {None}]
  /\ count \in [Titles -> Nat \cup {None}]
  /\ stage \in [Workers -> Stage]
  /\ report \in [Workers -> Reports \cup {None}]
  /\ target \in [Workers -> Reports \cup {None}]
  /\ dest \in [Workers -> Titles \cup {None}]
  /\ creates \in [Workers -> BOOLEAN] /\ recount \in [Workers -> Nat]
  /\ rivals \in [Urls -> Nat] /\ upsets \in Nat
  /\ \A i, j \in DOMAIN stored : Id(stored[i]) = Id(stored[j]) => i = j

Init ==
  /\ stored = << >> /\ hidden = {}
  /\ cluster = [r \in Reports |-> None] /\ count = [t \in Titles |-> None]
  /\ stage = [w \in Workers |-> "idle"]
  /\ report = [w \in Workers |-> None] /\ target = [w \in Workers |-> None]
  /\ dest = [w \in Workers |-> None] /\ creates = [w \in Workers |-> FALSE]
  /\ recount = [w \in Workers |-> 0]
  /\ rivals = [u \in Urls |-> 0]
  /\ upsets = MaxUpsets

Goto(w, to) == stage' = [stage EXCEPT ![w] = to]

\* On to the next item: nothing of this one is remembered.
Done(w) ==
  /\ Goto(w, "idle")
  /\ report' = [report EXCEPT ![w] = None] /\ target' = [target EXCEPT ![w] = None]
  /\ dest' = [dest EXCEPT ![w] = None] /\ creates' = [creates EXCEPT ![w] = FALSE]
  /\ recount' = [recount EXCEPT ![w] = 0]

(***************************************************************************)
(* Deduplication                                                           *)
(***************************************************************************)
SameGuid(r)    == {a \in Stored : Guid[r] # None /\ Feed[a] = Feed[r] /\ Guid[a] = Guid[r]}
SameUrl(r)     == {a \in Stored : Url[a] = Url[r]}
SameContent(r) == {a \in Stored : Content[a] = Content[r]}

\* TitleFingerprint: a digest, never a title itself. The fourth level compares it with
\* the column normalized_title, which holds the text that was digested.
TitleFingerprint(t) == <<"sha256", t>>
SameTitle(r) == {a \in Stored : Title[a] = TitleFingerprint(Title[r])}

\* A lookup that has lost its second level.
DuplicatesByGuid(r) == IF SameGuid(r) # {} THEN SameGuid(r) ELSE SameContent(r)

\* FindDuplicateArticle: the first level that finds something decides, and which of
\* several rows LIMIT 1 returns is open. The four queries are one step here.
Duplicates(r) ==
  IF SameGuid(r) # {} THEN SameGuid(r)
  ELSE IF SameUrl(r) # {} THEN SameUrl(r)
  ELSE IF SameContent(r) # {} THEN SameContent(r)
  ELSE SameTitle(r)

\* A pipeline that attaches only what it has just inserted.
LookUpDropping(w, r) ==
  /\ stage[w] = "idle"
  /\ Duplicates(r) = {}
  /\ report' = [report EXCEPT ![w] = r]
  /\ Goto(w, "new") /\ UNCHANGED target
  /\ UNCHANGED <<articles, dest, creates, recount, rivals, upsets>>

\* The first half of InsertArticle, and for a duplicate all of it.
LookUp(w, r) ==
  /\ stage[w] = "idle"
  /\ report' = [report EXCEPT ![w] = r]
  /\ \/ Duplicates(r) = {} /\ Goto(w, "new") /\ UNCHANGED target
     \/ \E a \in Duplicates(r) :
          Goto(w, "stored") /\ target' = [target EXCEPT ![w] = a]
  /\ UNCHANGED <<articles, dest, creates, recount, rivals, upsets>>

\* An INSERT that meets no primary key.
InsertBlindly(w) ==
  /\ stage[w] = "new"
  /\ Goto(w, "stored")
  /\ stored' = Append(stored, report[w])
  /\ target' = [target EXCEPT ![w] = report[w]]
  /\ UNCHANGED <<hidden, cluster, count, report, dest, creates, recount, rivals, upsets>>

\* The transaction of InsertArticle. Only the primary key is unique: a second copy
\* from the same feed is a "RACE" duplicate without an id, one from another feed is
\* stored.
Insert(w) ==
  LET r == report[w] IN
  /\ stage[w] = "new"
  /\ Goto(w, "stored")
  /\ IF \E a \in Stored : Id(a) = Id(r)
     THEN UNCHANGED <<stored, target, rivals>>
     ELSE /\ stored' = Append(stored, r)
          /\ target' = [target EXCEPT ![w] = r]
          /\ rivals' = IF Copies(Url[r]) # {} THEN rivals
                       ELSE [rivals EXCEPT ![Url[r]] = Cardinality(Storing(Url[r]) \ {w})]
  /\ UNCHANGED <<hidden, cluster, count, report, dest, creates, recount, upsets>>

(***************************************************************************)
(* Clustering                                                              *)
(***************************************************************************)
\* RecentClusteredSeeds and nearDuplicateCluster: the positions of clustered active
\* articles whose title is near the one of r.
Seeds(r) == {i \in DOMAIN stored :
  /\ stored[i] \in Active /\ cluster[stored[i]] # None
  /\ <<Title[r], Title[stored[i]]>> \in Near}

\* attachToCluster: the cluster of the topic, else that of the newest near duplicate,
\* else a new one. The two queries are one step here.
Place(w) ==
  LET r == report[w] IN
  /\ stage[w] = "stored"
  /\ \/ /\ count[Title[r]] # None \/ Seeds(r) = {}
        /\ dest' = [dest EXCEPT ![w] = Title[r]]
     \/ /\ count[Title[r]] = None
        /\ \E i \in Seeds(r) :
             /\ \A j \in Seeds(r) : j <= i
             /\ dest' = [dest EXCEPT ![w] = cluster[stored[i]]]
  /\ report' = [report EXCEPT ![w] = None]     \* nothing reads it any more
  /\ Goto(w, "placed")
  /\ UNCHANGED <<articles, target, creates, recount, rivals, upsets>>

\* The row lock an uncommitted UPDATE holds.
Locked(a) == \E w \in Workers : stage[w] = "linking" /\ target[w] = a

\* AssignCluster before it commits: whether the cluster exists, and how many members
\* it has with this one.
Link(w) ==
  LET a == target[w] t == dest[w] IN
  /\ stage[w] = "placed"
  /\ a # None => ~Locked(a)
  /\ creates' = [creates EXCEPT ![w] = count[t] = None]
  /\ recount' = [recount EXCEPT ![w] = Cardinality(Members(t) \cup ({a} \cap Active))]
  /\ Goto(w, "linking")
  /\ UNCHANGED <<articles, report, target, dest, rivals, upsets>>

\* COMMIT, or the unique violation of a cluster that another transaction created
\* meanwhile, which rolls this one back. The cluster an article leaves is not
\* recounted.
Commit(w) ==
  LET a == target[w] t == dest[w] IN
  /\ stage[w] = "linking"
  /\ IF creates[w] /\ count[t] # None
     THEN UNCHANGED <<cluster, count>>
     ELSE /\ cluster' = IF a = None THEN cluster ELSE [cluster EXCEPT ![a] = t]
          /\ count' = [count EXCEPT ![t] = recount[w]]
  /\ Done(w)
  /\ UNCHANGED <<stored, hidden, rivals, upsets>>

(***************************************************************************)
(* Faults and editors                                                      *)
(***************************************************************************)
\* A statement returns an error, which ends the handling of the item, or the
\* process dies; a transaction rolls back.
Abandon(w) ==
  /\ upsets > 0 /\ stage[w] # "idle"
  /\ Done(w)
  /\ upsets' = upsets - 1
  /\ UNCHANGED <<articles, rivals>>

\* SetArticleStatus hides an article or restores it; no cluster is recounted.
SetArticleStatus(a) ==
  /\ upsets > 0 /\ a \in Stored /\ ~Locked(a)
  /\ hidden' = IF a \in hidden THEN hidden \ {a} ELSE hidden \cup {a}
  /\ upsets' = upsets - 1
  /\ UNCHANGED <<stored, cluster, count, worker, rivals>>

(***************************************************************************)
(* Specification                                                           *)
(***************************************************************************)
Handle(w) == Insert(w) \/ Place(w) \/ Link(w) \/ Commit(w)

Next ==
  \/ \E w \in Workers, r \in Reports : LookUp(w, r)
  \/ \E w \in Workers : Handle(w) \/ Abandon(w)
  \/ \E a \in Reports : SetArticleStatus(a)

Spec == Init /\ [][Next]_vars

\* A goroutine goes on with the item it has.  An item is looked up again and again only
\* when body after body lists it.  Of other reports nothing is promised: a 304 returns before
\* ingestCandidates, and MarkFeedSuccess stores the ETag of a body whose items were lost on
\* the way, so that such an item may never be handled again.
FairSpec ==
  /\ Spec
  /\ \A w \in Workers : WF_vars(Handle(w))
  /\ \A r \in Relisted : SF_vars(\E w \in Workers : LookUp(w, r))

(***************************************************************************)
(* Properties                                                              *)
(***************************************************************************)
\* Look-up and INSERT are not one transaction and nothing but the id is unique, so the
\* same URL from several feeds may be stored more than once: by workers that looked
\* before the first copy was there, and never by one that came later.
OnlyRivalsCopy ==
  \A u \in Urls : Cardinality(Copies(u)) <= 1 + rivals[u]

\* One story per title and window: "dedup (GUID, canonical URL, content hash, title
\* within 48 h)".
TitleOnce ==
  \A a, b \in Stored : Title[a] = Title[b] => a = b

\* The count a story is ranked by becomes the number of its active articles and stays so,
\* when a report with its title is listed in body after body: lost updates of concurrent
\* recounts, lost attachments and hidden articles are made good by later polls.
CountSettles ==
  <>[](\A r \in Relisted : count[Title[r]] # None =>
         count[Title[r]] = Cardinality(Members(Title[r])))

\* What a later body that lists it is sure to find again: its feed gives it a GUID, or no
\* other copy answers for its URL. A copy without both may wait for its cluster for ever.
Traceable == {a \in Active : Guid[a] # None \/ Copies(Url[a]) = {a}}

\* Traceable articles with one title whose reports are listed in body after body end in one
\* cluster, whichever was stored first, crashed before it was attached, or was drawn to a
\* near duplicate; none stays without.
StoriesMeet ==
  <>[](\A a, b \in Traceable \cap Relisted : Title[a] = Title[b] =>
         (cluster[a] = cluster[b] /\ cluster[a] # None))
=============================================================================
