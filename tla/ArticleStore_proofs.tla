------------------------- MODULE ArticleStore_proofs -------------------------
(***************************************************************************)
(* What ArticleStore guarantees for every number of workers and every set  *)
(* of reports: types with the primary key, that a second copy of a URL     *)
(* comes only from workers that were about to store it when the first      *)
(* came, and that attached articles stay attached to clusters that exist.  *)
(***************************************************************************)
EXTENDS ArticleStore, FiniteSetTheorems, SequenceTheorems, TLAPS

USE ArticleAssumption

\* Once a URL is stored, its copies and the workers about to store it are no more than
\* the first copy and its rivals.
Counted == \A u \in Urls :
  Copies(u) # {} => Cardinality(Copies(u)) + Cardinality(Storing(u)) <= 1 + rivals[u]

\* A worker that has looked for duplicates has a report.
Equipped == \A w \in Workers : stage[w] \in {"new", "stored"} => report[w] \in Reports

IInv == TypeOK /\ Equipped /\ Counted

(***************************************************************************)
(* The articles                                                            *)
(***************************************************************************)
\* Append leaves the rows that are there where they are and adds one at the end.
LEMMA OneAppended ==
  ASSUME NEW s \in Seq(Reports), NEW r \in Reports
  PROVE  /\ Append(s, r) \in Seq(Reports)
         /\ Len(s) \in Nat /\ DOMAIN s = 1..Len(s)
         /\ DOMAIN Append(s, r) = 1..(Len(s) + 1)
         /\ Append(s, r)[Len(s) + 1] = r
         /\ \A i \in 1..Len(s) : Append(s, r)[i] = s[i]
<1>1. /\ Append(s, r) \in Seq(Reports) /\ Len(Append(s, r)) = Len(s) + 1
      /\ Append(s, r)[Len(s) + 1] = r
      /\ \A i \in 1..Len(s) : Append(s, r)[i] = s[i]
  BY AppendProperties
<1>2. Len(s) \in Nat /\ DOMAIN s = 1..Len(s)
  BY LenProperties
<1>3. DOMAIN Append(s, r) = 1..Len(Append(s, r))
  BY <1>1, LenProperties
<1> QED
  BY <1>1, <1>2, <1>3

\* What Insert makes of the table.
LEMMA OneStored ==
  ASSUME stored \in Seq(Reports), NEW r \in Reports, stored' = Append(stored, r)
  PROVE  /\ stored' \in Seq(Reports) /\ Stored' = Stored \cup {r}
<1>1. stored' \in Seq(Reports)
  BY OneAppended
<1>2. /\ Len(stored) \in Nat /\ DOMAIN stored = 1..Len(stored)
      /\ DOMAIN stored' = 1..(Len(stored) + 1)
      /\ stored'[Len(stored) + 1] = r
      /\ \A i \in 1..Len(stored) : stored'[i] = stored[i]
  BY OneAppended
<1>3. Stored' \subseteq Stored \cup {r}
  BY <1>2 DEF Stored
<1>4. Stored \subseteq Stored' /\ r \in Stored'
  <2>1. Len(stored) + 1 \in DOMAIN stored' /\ DOMAIN stored \subseteq DOMAIN stored'
    BY <1>2
  <2> QED
    BY <1>2, <2>1 DEF Stored
<1> QED
  BY <1>1, <1>3, <1>4

\* What is stored, copied or about to be stored are reports and workers.
LEMMA StoredReports ==
  ASSUME TypeOK
  PROVE  /\ Stored \in SUBSET Reports
         /\ \A u \in Urls : Copies(u) \in SUBSET Reports /\ Storing(u) \in SUBSET Workers
<1>1. stored \in [1..Len(stored) -> Reports]
  BY LenProperties DEF TypeOK
<1>2. Stored \in SUBSET Reports
  BY <1>1 DEF Stored
<1> QED
  BY <1>2 DEF Copies, Storing

\* Sets of reports and sets of workers have sizes.
LEMMA Sizes ==
  /\ \A S \in SUBSET Reports : IsFiniteSet(S) /\ Cardinality(S) \in Nat
  /\ \A S \in SUBSET Workers : IsFiniteSet(S) /\ Cardinality(S) \in Nat
  BY FS_Subset, FS_CardinalityType

(***************************************************************************)
(* Types                                                                   *)
(***************************************************************************)
\* Every step keeps the types, and Insert the primary key: it looks before it adds.
LEMMA TypesStep == TypeOK /\ Equipped /\ [Next]_vars => TypeOK'
<1> SUFFICES ASSUME TypeOK, Equipped, [Next]_vars PROVE TypeOK'
  OBVIOUS
<1> DEFINE TableOK ==
      /\ stored \in Seq(Reports) /\ hidden \subseteq Stored
      /\ \A i, j \in DOMAIN stored : Id(stored[i]) = Id(stored[j]) => i = j
    WorkerOK ==
      /\ stage \in [Workers -> Stage]
      /\ report \in [Workers -> Reports \cup {None}]
      /\ target \in [Workers -> Reports \cup {None}]
      /\ dest \in [Workers -> Titles \cup {None}]
      /\ creates \in [Workers -> BOOLEAN] /\ recount \in [Workers -> Nat]
    ClusterOK ==
      /\ cluster \in [Reports -> Titles \cup {None}]
      /\ count \in [Titles -> Nat \cup {None}]
    RestOK == rivals \in [Urls -> Nat] /\ upsets \in Nat
<1>0. /\ TypeOK <=> TableOK /\ WorkerOK /\ ClusterOK /\ RestOK
      /\ TypeOK' <=> TableOK' /\ WorkerOK' /\ ClusterOK' /\ RestOK'
  BY DEF TypeOK
<1>1. UNCHANGED <<stored, hidden>> => TableOK'
  BY <1>0 DEF Stored
<1>2. UNCHANGED <<cluster, count>> => ClusterOK'
  BY <1>0
<1>3. UNCHANGED <<rivals, upsets>> => RestOK'
  BY <1>0
<1>4. ASSUME NEW w \in Workers, Done(w) PROVE WorkerOK'
  BY <1>0, <1>4 DEF Done, Goto, Stage
<1>5. ASSUME NEW w \in Workers, NEW r \in Reports, LookUp(w, r) PROVE TypeOK'
  <2>1. Duplicates(r) \in SUBSET Reports
    BY StoredReports DEF Duplicates, SameGuid, SameUrl, SameContent, SameTitle
  <2>2. /\ stage' = [stage EXCEPT ![w] = "new"] \/ stage' = [stage EXCEPT ![w] = "stored"]
        /\ \/ UNCHANGED target
           \/ \E a \in Reports : target' = [target EXCEPT ![w] = a]
        /\ report' = [report EXCEPT ![w] = r] /\ UNCHANGED <<dest, creates, recount>>
    <3>1. \A a \in Duplicates(r) : a \in Reports
      BY <2>1
    <3>2. CASE Goto(w, "new") /\ UNCHANGED target
      BY <1>5, <3>2 DEF LookUp, Goto
    <3>3. ASSUME NEW a \in Duplicates(r), Goto(w, "stored"),
                 target' = [target EXCEPT ![w] = a]
          PROVE  /\ stage' = [stage EXCEPT ![w] = "stored"]
                 /\ \E b \in Reports : target' = [target EXCEPT ![w] = b]
      BY <3>1, <3>3 DEF Goto
    <3>4. report' = [report EXCEPT ![w] = r] /\ UNCHANGED <<dest, creates, recount>>
      BY <1>5 DEF LookUp
    <3> QED
      BY <1>5, <3>2, <3>3, <3>4 DEF LookUp
  <2>3. WorkerOK'
    <3>1. stage' \in [Workers -> Stage] /\ report' \in [Workers -> Reports \cup {None}]
      BY <1>0, <2>2 DEF Stage
    <3>2. target' \in [Workers -> Reports \cup {None}]
      BY <1>0, <2>2
    <3> QED
      BY <1>0, <2>2, <3>1, <3>2
  <2> QED
    BY <1>0, <1>1, <1>2, <1>3, <1>5, <2>3 DEF LookUp, articles
<1>6. ASSUME NEW w \in Workers, Insert(w) PROVE TypeOK'
  <2> DEFINE r == report[w]
  <2>1. r \in Reports /\ Url[r] \in Urls
    BY <1>6 DEF Insert, Equipped, Urls
  <2>2. WorkerOK' /\ ClusterOK'
    BY <1>0, <1>6, <2>1 DEF Insert, Goto, Stage
  <2>3. CASE \E a \in Stored : Id(a) = Id(r)
    BY <1>0, <1>1, <1>3, <1>6, <2>2, <2>3 DEF Insert
  <2>4. CASE ~\E a \in Stored : Id(a) = Id(r)
    <3>1. stored' = Append(stored, r) /\ UNCHANGED <<hidden, upsets>>
      BY <1>6, <2>4 DEF Insert
    <3>2. stored' \in Seq(Reports) /\ hidden' \subseteq Stored'
      BY <1>0, <2>1, <3>1, OneStored
    <3>3. \A i, j \in DOMAIN stored' : Id(stored'[i]) = Id(stored'[j]) => i = j
      <4>1. /\ Len(stored) \in Nat /\ DOMAIN stored = 1..Len(stored)
            /\ DOMAIN stored' = 1..(Len(stored) + 1)
            /\ stored'[Len(stored) + 1] = r
            /\ \A i \in 1..Len(stored) : stored'[i] = stored[i]
        BY <1>0, <2>1, <3>1, OneAppended
      <4>2. \A i \in 1..Len(stored) : Id(stored'[i]) = Id(stored[i]) /\ Id(stored'[i]) # Id(r)
        BY <2>4, <4>1 DEF Stored
      <4>3. \A i \in DOMAIN stored' : i \in 1..Len(stored) \/ i = Len(stored) + 1
        BY <4>1
      <4> QED
        BY <1>0, <4>1, <4>2, <4>3
    <3>4. RestOK'
      <4>1. Storing(Url[r]) \ {w} \in SUBSET Workers
        BY DEF Storing
      <4>2. Cardinality(Storing(Url[r]) \ {w}) \in Nat
        BY <4>1, Sizes
      <4> QED
        BY <1>0, <1>6, <2>1, <2>4, <3>1, <4>2 DEF Insert
    <3> QED
      BY <1>0, <2>2, <3>2, <3>3, <3>4
  <2> QED
    BY <2>3, <2>4
<1>7. ASSUME NEW w \in Workers, Place(w) PROVE TypeOK'
  <2>1. dest' \in [Workers -> Titles \cup {None}]
    <3> DEFINE r == report[w]
    <3>1. r \in Reports /\ Title[r] \in Titles
      BY <1>7 DEF Place, Equipped
    <3>2. \A i \in Seeds(r) : cluster[stored[i]] \in Titles \cup {None}
      BY <1>0, StoredReports DEF Seeds, Stored
    <3>3. \E t \in Titles \cup {None} : dest' = [dest EXCEPT ![w] = t]
      BY <1>7, <3>1, <3>2 DEF Place
    <3> QED
      BY <1>0, <3>3
  <2> QED
    BY <1>0, <1>1, <1>2, <1>3, <1>7, <2>1 DEF Place, Goto, Stage, articles
<1>8. ASSUME NEW w \in Workers, Link(w) PROVE TypeOK'
  <2>1. recount' \in [Workers -> Nat]
    <3>1. Members(dest[w]) \cup ({target[w]} \cap Active) \in SUBSET Reports
      BY StoredReports DEF Members, Active
    <3>2. Cardinality(Members(dest[w]) \cup ({target[w]} \cap Active)) \in Nat
      BY <3>1, Sizes
    <3> QED
      BY <1>0, <1>8, <3>2 DEF Link
  <2>2. creates' \in [Workers -> BOOLEAN]
    BY <1>0, <1>8 DEF Link
  <2> QED
    BY <1>0, <1>1, <1>2, <1>3, <1>8, <2>1, <2>2 DEF Link, Goto, Stage, articles
<1>9. ASSUME NEW w \in Workers, Commit(w) PROVE TypeOK'
  <2>1. ClusterOK'
    <3>1. /\ dest[w] \in Titles \cup {None} /\ target[w] \in Reports \cup {None}
          /\ recount[w] \in Nat
      BY <1>0
    <3>2. /\ cluster' \in {cluster, [cluster EXCEPT ![target[w]] = dest[w]]}
          /\ count' \in {count, [count EXCEPT ![dest[w]] = recount[w]]}
      BY <1>9 DEF Commit
    <3> QED
      BY <1>0, <3>1, <3>2
  <2> QED
    BY <1>0, <1>1, <1>3, <1>4, <1>9, <2>1 DEF Commit
<1>10. ASSUME NEW w \in Workers, Abandon(w) PROVE TypeOK'
  <2>1. RestOK'
    BY <1>0, <1>10 DEF Abandon
  <2> QED
    BY <1>0, <1>1, <1>2, <1>4, <1>10, <2>1 DEF Abandon, articles
<1>11. ASSUME NEW a \in Reports, SetArticleStatus(a) PROVE TypeOK'
  <2>1. UNCHANGED <<stored, cluster, count, worker, rivals>> /\ upsets' \in Nat
    BY <1>0, <1>11 DEF SetArticleStatus
  <2>2. Stored' = Stored /\ hidden' \subseteq Stored
    BY <1>0, <1>11, <2>1 DEF SetArticleStatus, Stored
  <2> QED
    BY <1>0, <2>1, <2>2 DEF worker
<1>12. CASE UNCHANGED vars
  BY <1>0, <1>1, <1>2, <1>3, <1>12 DEF vars, articles, worker
<1> QED
  BY <1>5, <1>6, <1>7, <1>8, <1>9, <1>10, <1>11, <1>12 DEF Next, Handle

(***************************************************************************)
(* Copies                                                                  *)
(***************************************************************************)
\* A worker past its look-up keeps its report until Place.
LEMMA EquippedStep == TypeOK /\ Equipped /\ [Next]_vars => Equipped'
<1> SUFFICES ASSUME TypeOK, Equipped, [Next]_vars, NEW q \in Workers,
                    stage'[q] \in {"new", "stored"}
             PROVE  report'[q] \in Reports
  BY DEF Equipped
<1> USE DEF TypeOK, Goto, worker
<1>1. CASE stage[q] \in {"new", "stored"} /\ report'[q] = report[q]
  BY <1>1 DEF Equipped
<1>2. ASSUME NEW w \in Workers, NEW r \in Reports, LookUp(w, r) PROVE report'[q] \in Reports
  <2>1. CASE q = w
    BY <1>2, <2>1 DEF LookUp
  <2>2. CASE q # w
    <3>1. report'[q] = report[q] /\ stage'[q] = stage[q]
      BY <1>2, <2>2 DEF LookUp
    <3> QED
      BY <1>1, <3>1
  <2> QED
    BY <2>1, <2>2
<1>3. ASSUME NEW w \in Workers, Insert(w) PROVE report'[q] \in Reports
  <2>1. UNCHANGED report /\ stage[w] = "new" /\ stage' = [stage EXCEPT ![w] = "stored"]
    BY <1>3 DEF Insert
  <2> QED
    BY <1>1, <2>1
<1>4. ASSUME NEW w \in Workers, Place(w) \/ Link(w) \/ Commit(w) \/ Abandon(w)
      PROVE  report'[q] \in Reports
  <2>1. q # w
    BY <1>4 DEF Place, Link, Commit, Abandon, Done
  <2>2. report'[q] = report[q] /\ stage'[q] = stage[q]
    BY <1>4, <2>1 DEF Place, Link, Commit, Abandon, Done
  <2> QED
    BY <1>1, <2>2
<1>5. ASSUME NEW a \in Reports, SetArticleStatus(a) PROVE report'[q] \in Reports
  BY <1>1, <1>5 DEF SetArticleStatus
<1>6. CASE UNCHANGED vars
  BY <1>1, <1>6 DEF vars
<1> QED
  BY <1>2, <1>3, <1>4, <1>5, <1>6 DEF Next, Handle

\* Where nothing is stored and nobody new is about to, the count holds.
LEMMA NoCopy ==
  ASSUME TypeOK, NEW u \in Urls, UNCHANGED <<stored, rivals>>,
         Storing(u)' \in SUBSET Storing(u),
         Copies(u) # {} => Cardinality(Copies(u)) + Cardinality(Storing(u)) <= 1 + rivals[u]
  PROVE  Copies(u)' # {} => Cardinality(Copies(u)') + Cardinality(Storing(u)') <= 1 + rivals'[u]
<1>1. Copies(u)' = Copies(u)
  BY DEF Copies, Stored
<1>2. /\ Cardinality(Storing(u)') <= Cardinality(Storing(u))
      /\ Cardinality(Storing(u)') \in Nat /\ Cardinality(Storing(u)) \in Nat
  <2>1. Storing(u) \in SUBSET Workers /\ IsFiniteSet(Storing(u))
    BY StoredReports, Sizes
  <2> QED
    BY <2>1, Sizes, FS_Subset
<1>3. Cardinality(Copies(u)) \in Nat /\ rivals[u] \in Nat
  BY StoredReports, Sizes DEF TypeOK
<1> QED
  BY <1>1, <1>2, <1>3

\* Copies and workers about to make one grow together only before the first copy: a
\* look-up after it finds it.
LEMMA CountedStep == TypeOK /\ Equipped /\ Counted /\ [Next]_vars => Counted'
<1> SUFFICES ASSUME TypeOK, Equipped, Counted, [Next]_vars, NEW u \in Urls, Copies(u)' # {}
             PROVE  Cardinality(Copies(u)') + Cardinality(Storing(u)') <= 1 + rivals'[u]
  BY DEF Counted
<1>1. TypeOK' /\ Equipped'
  BY TypesStep, EquippedStep
<1>2. Copies(u) # {} => Cardinality(Copies(u)) + Cardinality(Storing(u)) <= 1 + rivals[u]
  BY DEF Counted
<1>3. /\ Cardinality(Copies(u)) \in Nat /\ Cardinality(Storing(u)) \in Nat
      /\ IsFiniteSet(Copies(u)) /\ IsFiniteSet(Storing(u))
  BY StoredReports, Sizes
<1>4. CASE UNCHANGED <<stored, rivals>> /\ Storing(u)' \in SUBSET Storing(u)
  BY <1>2, <1>4, NoCopy
\* A look-up that finds nothing adds a worker, of a URL that has no copy.
<1>5. ASSUME NEW w \in Workers, NEW r \in Reports, LookUp(w, r)
      PROVE  Cardinality(Copies(u)') + Cardinality(Storing(u)') <= 1 + rivals'[u]
  <2>1. UNCHANGED <<stored, rivals>>
    BY <1>5 DEF LookUp, articles
  <2>2. Copies(u)' = Copies(u)
    BY <2>1 DEF Copies, Stored
  <2>3. stage'[w] = "new" => Url[r] # u
    <3>1. stage'[w] = "new" => Duplicates(r) = {}
      BY <1>5 DEF LookUp, Goto, TypeOK
    <3>2. Duplicates(r) = {} => SameUrl(r) = {}
      BY DEF Duplicates
    <3>3. SameUrl(r) = Copies(Url[r])
      BY DEF SameUrl, Copies
    <3> QED
      BY <2>2, <3>1, <3>2, <3>3
  <2>4. Storing(u)' \in SUBSET Storing(u)
    <3>1. ASSUME NEW q \in Storing(u)' PROVE q \in Storing(u)
      <4>1. q \in Workers /\ stage'[q] = "new" /\ Url[report'[q]] = u
        BY DEF Storing
      <4>2. q # w
        BY <1>5, <2>3, <4>1 DEF LookUp, TypeOK
      <4>3. report'[q] = report[q]
        BY <1>5, <4>1, <4>2 DEF LookUp, TypeOK
      <4>4. stage'[q] = stage[q]
        <5>1. \/ stage' = [stage EXCEPT ![w] = "new"]
              \/ stage' = [stage EXCEPT ![w] = "stored"]
          BY <1>5 DEF LookUp, Goto
        <5> QED
          BY <4>1, <4>2, <5>1 DEF TypeOK
      <4> QED
        BY <4>1, <4>3, <4>4 DEF Storing
    <3> QED
      BY <3>1
  <2> QED
    BY <1>4, <2>1, <2>4
\* An insert makes a copy of one who was about to.
<1>6. ASSUME NEW w \in Workers, Insert(w)
      PROVE  Cardinality(Copies(u)') + Cardinality(Storing(u)') <= 1 + rivals'[u]
  <2> DEFINE r == report[w]
  <2>1. /\ r \in Reports /\ stage[w] = "new" /\ UNCHANGED report
        /\ stage' = [stage EXCEPT ![w] = "stored"]
    BY <1>6 DEF Insert, Equipped, Goto
  <2>2. Storing(u)' = Storing(u) \ {w}
    BY <2>1 DEF Storing, TypeOK
  <2>3. CASE \E a \in Stored : Id(a) = Id(r)
    BY <1>4, <1>6, <2>2, <2>3 DEF Insert
  <2>4. CASE ~(\E a \in Stored : Id(a) = Id(r)) /\ Url[r] # u
    <3>1. w \notin Storing(u)
      BY <2>1, <2>4 DEF Storing
    <3>2. Stored' = Stored \cup {r}
      BY <1>6, <2>1, <2>4, OneStored DEF Insert, TypeOK
    <3>3. Copies(u)' = Copies(u) /\ Storing(u)' = Storing(u)
      BY <2>2, <2>4, <3>1, <3>2 DEF Copies
    <3>4. rivals'[u] = rivals[u]
      BY <1>6, <2>1, <2>4 DEF Insert, TypeOK, Urls
    <3> QED
      BY <1>2, <3>3, <3>4
  <2>5. CASE ~(\E a \in Stored : Id(a) = Id(r)) /\ Url[r] = u
    <3>1. w \in Storing(u) /\ Cardinality(Storing(u)') = Cardinality(Storing(u)) - 1
      <4>1. w \in Storing(u)
        BY <2>1, <2>5 DEF Storing
      <4> QED
        BY <1>3, <2>2, <4>1, FS_RemoveElement
    <3>2. Stored' = Stored \cup {r} /\ r \notin Stored
      <4>1. Stored' = Stored \cup {r}
        BY <1>6, <2>1, <2>5, OneStored DEF Insert, TypeOK
      <4> QED
        BY <2>5, <4>1
    <3>3. Copies(u)' = Copies(u) \cup {r} /\ r \notin Copies(u)
      BY <2>5, <3>2 DEF Copies
    <3>4. Cardinality(Copies(u)') = Cardinality(Copies(u)) + 1
      BY <1>3, <3>3, FS_AddElement
    <3>5. CASE Copies(u) # {}
      <4>1. rivals' = rivals
        BY <1>6, <2>5, <3>5 DEF Insert
      <4> QED
        BY <1>2, <1>3, <3>1, <3>4, <3>5, <4>1
    <3>6. CASE Copies(u) = {}
      <4>1. rivals'[u] = Cardinality(Storing(u) \ {w})
        BY <1>6, <2>5, <3>6 DEF Insert, TypeOK
      <4>2. rivals'[u] = Cardinality(Storing(u)')
        BY <2>2, <4>1
      <4>3. Cardinality(Copies(u)') = 1
        BY <3>4, <3>6, FS_EmptySet
      <4> QED
        BY <1>3, <3>1, <4>2, <4>3
    <3> QED
      BY <3>5, <3>6
  <2> QED
    BY <2>3, <2>4, <2>5
<1>7. ASSUME NEW w \in Workers, Place(w) \/ Link(w) \/ Commit(w) \/ Abandon(w)
      PROVE  Cardinality(Copies(u)') + Cardinality(Storing(u)') <= 1 + rivals'[u]
  <2>1. UNCHANGED <<stored, rivals>>
    BY <1>7 DEF Place, Link, Commit, Abandon, articles
  <2>2. stage'[w] # "new" /\ \A q \in Workers \ {w} : stage'[q] = stage[q] /\ report'[q] = report[q]
    BY <1>7 DEF Place, Link, Commit, Abandon, Done, Goto, TypeOK
  <2>3. Storing(u)' \in SUBSET Storing(u)
    BY <2>2 DEF Storing
  <2> QED
    BY <1>4, <2>1, <2>3
<1>8. ASSUME NEW a \in Reports, SetArticleStatus(a)
      PROVE  Cardinality(Copies(u)') + Cardinality(Storing(u)') <= 1 + rivals'[u]
  <2>1. UNCHANGED <<stored, rivals>> /\ Storing(u)' = Storing(u)
    BY <1>8 DEF SetArticleStatus, worker, Storing
  <2> QED
    BY <1>4, <2>1
<1>9. CASE UNCHANGED vars
  <2>1. UNCHANGED <<stored, rivals>> /\ Storing(u)' = Storing(u)
    BY <1>9 DEF vars, articles, worker, Storing
  <2> QED
    BY <1>4, <2>1
<1> QED
  BY <1>5, <1>6, <1>7, <1>8, <1>9 DEF Next, Handle

(***************************************************************************)
(* The theorems                                                            *)
(***************************************************************************)
\* Initially nothing is stored and nobody is about to store anything.
LEMMA InitInv == Init => IInv
<1> SUFFICES ASSUME Init PROVE IInv
  OBVIOUS
<1>1. stored = << >> /\ Stored = {}
  BY DEF Init, Stored
<1>2. TypeOK
  BY <1>1 DEF Init, TypeOK, Stage
<1>3. Equipped
  BY DEF Init, Equipped
<1>4. Counted
  BY <1>1 DEF Counted, Copies
<1> QED
  BY <1>2, <1>3, <1>4 DEF IInv

\* The three parts together are inductive.
LEMMA InvStep == IInv /\ [Next]_vars => IInv'
  BY TypesStep, EquippedStep, CountedStep DEF IInv

\* The invariant above holds in every state the ingest reaches.
THEOREM Inductive == Spec => []IInv
  BY InitInv, InvStep, PTL DEF Spec

\* Types, and that no two articles have one id, which InsertArticle leaves to the
\* primary key.
THEOREM TypeCorrect == Spec => []TypeOK
<1>1. IInv => TypeOK
  BY DEF IInv
<1> QED
  BY <1>1, Inductive, PTL

\* A second copy of a page comes only from workers that were about to store it when
\* the first came.
THEOREM CopiesExplained == Spec => []OnlyRivalsCopy
<1>1. IInv => OnlyRivalsCopy
  <2> SUFFICES ASSUME IInv, NEW u \in Urls PROVE Cardinality(Copies(u)) <= 1 + rivals[u]
    BY DEF OnlyRivalsCopy
  <2>1. /\ Cardinality(Copies(u)) \in Nat /\ Cardinality(Storing(u)) \in Nat
        /\ rivals[u] \in Nat
    BY StoredReports, Sizes DEF IInv, TypeOK
  <2>2. CASE Copies(u) = {}
    BY <2>1, <2>2, FS_EmptySet
  <2>3. CASE Copies(u) # {}
    BY <2>1, <2>3 DEF IInv, Counted
  <2> QED
    BY <2>2, <2>3
<1> QED
  BY <1>1, Inductive, PTL

(***************************************************************************)
(* Copies and workers                                                      *)
(***************************************************************************)
\* The rivals of a first copy are other workers.
RivalsAreOthers == \A u \in Urls : Copies(u) # {} => rivals[u] + 1 <= Cardinality(Workers)

\* Only the step that stores a first copy counts rivals, and it leaves out its own worker.
LEMMA RivalsAreOthersStep ==
  TypeOK /\ Equipped /\ RivalsAreOthers /\ [Next]_vars => RivalsAreOthers'
<1> SUFFICES ASSUME TypeOK, Equipped, RivalsAreOthers, [Next]_vars,
                    NEW u \in Urls, Copies(u)' # {}
             PROVE  rivals'[u] + 1 <= Cardinality(Workers)
  BY DEF RivalsAreOthers
<1>1. ASSUME UNCHANGED <<stored, rivals>> PROVE rivals'[u] + 1 <= Cardinality(Workers)
  BY <1>1 DEF RivalsAreOthers, Copies, Stored
<1>2. ASSUME NEW w \in Workers, Insert(w), ~\E a \in Stored : Id(a) = Id(report[w])
      PROVE  rivals'[u] + 1 <= Cardinality(Workers)
  <2> DEFINE r == report[w]
  <2>1. r \in Reports /\ Url[r] \in Urls
    BY <1>2 DEF Insert, Equipped, Urls
  <2>2. Stored' = Stored \cup {r}
    BY <1>2, <2>1, OneStored DEF Insert, TypeOK
  <2>3. CASE Copies(Url[r]) = {} /\ Url[r] = u
    <3>1. rivals'[u] = Cardinality(Storing(u) \ {w})
      BY <1>2, <2>1, <2>3 DEF Insert, TypeOK
    <3>2. /\ Cardinality(Storing(u) \ {w}) <= Cardinality(Workers \ {w})
          /\ Cardinality(Storing(u) \ {w}) \in Nat
      <4>1. Storing(u) \ {w} \subseteq Workers \ {w} /\ IsFiniteSet(Workers \ {w})
        BY Sizes DEF Storing
      <4> QED
        BY <4>1, FS_Subset, FS_CardinalityType
    <3>3. Cardinality(Workers \ {w}) = Cardinality(Workers) - 1 /\ Cardinality(Workers) \in Nat
      BY FS_RemoveElement, FS_CardinalityType
    <3> QED
      BY <3>1, <3>2, <3>3
  <2>4. CASE ~(Copies(Url[r]) = {} /\ Url[r] = u)
    <3>1. Copies(u) # {}
      BY <2>2, <2>4 DEF Copies
    <3>2. rivals'[u] = rivals[u]
      BY <1>2, <2>1, <2>4 DEF Insert, TypeOK
    <3> QED
      BY <3>1, <3>2 DEF RivalsAreOthers
  <2> QED
    BY <2>3, <2>4
<1>3. ASSUME NEW w \in Workers, Insert(w), \E a \in Stored : Id(a) = Id(report[w])
      PROVE  UNCHANGED <<stored, rivals>>
  BY <1>3 DEF Insert
<1>4. ASSUME NEW w \in Workers, NEW r \in Reports, LookUp(w, r)
      PROVE  UNCHANGED <<stored, rivals>>
  BY <1>4 DEF LookUp, articles
<1>5. ASSUME NEW w \in Workers, Place(w) \/ Link(w) \/ Commit(w) \/ Abandon(w)
      PROVE  UNCHANGED <<stored, rivals>>
  BY <1>5 DEF Place, Link, Commit, Abandon, articles
<1>6. ASSUME NEW a \in Reports, SetArticleStatus(a) PROVE UNCHANGED <<stored, rivals>>
  BY <1>6 DEF SetArticleStatus
<1>7. CASE UNCHANGED vars
  BY <1>1, <1>7 DEF vars, articles
<1> QED
  BY <1>1, <1>2, <1>3, <1>4, <1>5, <1>6, <1>7 DEF Next, Handle

\* A page has no more copies than the ingest has goroutines, however many feeds carry it
\* and however often they are polled.
THEOREM CopiesBoundedByWorkers ==
  Spec => [](\A u \in Urls : Cardinality(Copies(u)) <= Cardinality(Workers))
<1>1. Init => RivalsAreOthers
  BY DEF Init, RivalsAreOthers, Copies, Stored
<1>2. IInv /\ RivalsAreOthers /\ [Next]_vars => RivalsAreOthers'
  BY RivalsAreOthersStep DEF IInv
<1>3. IInv /\ RivalsAreOthers => \A u \in Urls : Cardinality(Copies(u)) <= Cardinality(Workers)
  <2> SUFFICES ASSUME IInv, RivalsAreOthers, NEW u \in Urls
               PROVE  Cardinality(Copies(u)) <= Cardinality(Workers)
    OBVIOUS
  <2>1. /\ Cardinality(Copies(u)) \in Nat /\ Cardinality(Storing(u)) \in Nat
        /\ Cardinality(Workers) \in Nat /\ rivals[u] \in Nat
    BY StoredReports, Sizes DEF IInv, TypeOK
  <2>2. CASE Copies(u) = {}
    BY <2>1, <2>2, FS_EmptySet
  <2>3. CASE Copies(u) # {}
    BY <2>1, <2>3 DEF IInv, Counted, RivalsAreOthers
  <2> QED
    BY <2>2, <2>3
<1> QED
  BY <1>1, <1>2, <1>3, Inductive, PTL DEF Spec

(***************************************************************************)
(* Clusters                                                                *)
(***************************************************************************)
\* Only stored articles are attached, and only to clusters that exist; a worker that
\* attaches one has a cluster for it.
Linked ==
  /\ \A a \in Reports : cluster[a] # None => a \in Stored /\ count[cluster[a]] \in Nat
  /\ \A w \in Workers : /\ target[w] # None => target[w] \in Stored
                        /\ stage[w] \in {"placed", "linking"} => dest[w] \in Titles

\* What a look-up finds is stored.
LEMMA DuplicatesStored == \A r \in Reports : Duplicates(r) \subseteq Stored
  BY DEF Duplicates, SameGuid, SameUrl, SameContent, SameTitle

\* Link and Commit find the article stored and the cluster named; a commit creates the
\* cluster with the attachment, and nothing deletes a row.
LEMMA LinkedStep == TypeOK /\ Equipped /\ Linked /\ [Next]_vars => Linked'
<1> SUFFICES ASSUME TypeOK, Equipped, Linked, [Next]_vars PROVE Linked'
  OBVIOUS
<1> DEFINE Rows == \A a \in Reports : cluster[a] # None => a \in Stored /\ count[cluster[a]] \in Nat
           Hands == \A w \in Workers : /\ target[w] # None => target[w] \in Stored
                                       /\ stage[w] \in {"placed", "linking"} => dest[w] \in Titles
<1>0. Rows /\ Hands /\ (Rows' /\ Hands' => Linked')
  BY DEF Linked
<1>1. UNCHANGED <<stored, cluster, count>> => Rows' /\ Stored' = Stored
  BY <1>0 DEF Stored
<1>2. ASSUME NEW w \in Workers, NEW r \in Reports, LookUp(w, r) PROVE Linked'
  <2>1. Rows' /\ Stored' = Stored
    BY <1>1, <1>2 DEF LookUp, articles
  <2>2. /\ target' = target \/ \E a \in Stored : target' = [target EXCEPT ![w] = a]
        /\ \E to \in {"new", "stored"} : stage' = [stage EXCEPT ![w] = to]
        /\ dest' = dest
    BY <1>2, DuplicatesStored DEF LookUp, Goto
  <2>3. Hands'
    BY <1>0, <2>1, <2>2 DEF TypeOK
  <2> QED
    BY <1>0, <2>1, <2>3
<1>3. ASSUME NEW w \in Workers, Insert(w) PROVE Linked'
  <2> DEFINE r == report[w]
  <2>1. /\ r \in Reports /\ UNCHANGED <<cluster, count, dest>>
        /\ stage' = [stage EXCEPT ![w] = "stored"]
    BY <1>3 DEF Insert, Equipped, Goto
  <2>2. \/ UNCHANGED <<stored, target>>
        \/ stored' = Append(stored, r) /\ target' = [target EXCEPT ![w] = r]
    BY <1>3 DEF Insert
  <2>3. Stored \subseteq Stored' /\ (target' = target \/ r \in Stored')
    <3>1. CASE UNCHANGED <<stored, target>>
      BY <3>1 DEF Stored
    <3>2. CASE stored' = Append(stored, r)
      BY <2>1, <3>2, OneStored DEF TypeOK
    <3> QED
      BY <2>2, <3>1, <3>2
  <2>4. Rows'
    BY <1>0, <2>1, <2>3
  <2>5. Hands'
    BY <1>0, <2>1, <2>2, <2>3 DEF TypeOK
  <2> QED
    BY <1>0, <2>4, <2>5
<1>4. ASSUME NEW w \in Workers, Place(w) PROVE Linked'
  <2>1. Rows' /\ Stored' = Stored /\ target' = target /\ stage' = [stage EXCEPT ![w] = "placed"]
    BY <1>1, <1>4 DEF Place, articles, Goto
  <2>2. \E t \in Titles : dest' = [dest EXCEPT ![w] = t]
    <3>1. report[w] \in Reports /\ Title[report[w]] \in Titles
      BY <1>4 DEF Place, Equipped
    <3>2. \A i \in Seeds(report[w]) : cluster[stored[i]] \in Titles
      BY StoredReports DEF Seeds, Stored, TypeOK
    <3> QED
      BY <1>4, <3>1, <3>2 DEF Place
  <2>3. Hands'
    BY <1>0, <2>1, <2>2 DEF TypeOK
  <2> QED
    BY <1>0, <2>1, <2>3
<1>5. ASSUME NEW w \in Workers, Link(w) PROVE Linked'
  <2>1. /\ Rows' /\ Stored' = Stored /\ UNCHANGED <<target, dest>>
        /\ stage[w] = "placed" /\ stage' = [stage EXCEPT ![w] = "linking"]
    BY <1>1, <1>5 DEF Link, articles, Goto
  <2>2. Hands'
    BY <1>0, <2>1 DEF TypeOK
  <2> QED
    BY <1>0, <2>1, <2>2
<1>6. ASSUME NEW w \in Workers, Commit(w) \/ Abandon(w) PROVE Hands'
  <2>1. /\ Stored' = Stored /\ target' = [target EXCEPT ![w] = None]
        /\ stage' = [stage EXCEPT ![w] = "idle"] /\ dest' = [dest EXCEPT ![w] = None]
    BY <1>6 DEF Commit, Abandon, Done, Goto, articles, Stored
  <2> QED
    BY <1>0, <2>1 DEF TypeOK
<1>7. ASSUME NEW w \in Workers, Commit(w) PROVE Rows'
  <2> DEFINE a == target[w]  t == dest[w]
  <2>1. /\ stage[w] = "linking" /\ t \in Titles /\ recount[w] \in Nat
        /\ a # None => a \in Stored
    BY <1>7 DEF Commit, Linked, TypeOK
  <2>2. Stored' = Stored /\ Stored \subseteq Reports
    BY <1>7, StoredReports DEF Commit, Stored
  <2>3. CASE UNCHANGED <<cluster, count>>
    BY <1>0, <2>2, <2>3
  <2>4. CASE /\ cluster' = IF a = None THEN cluster ELSE [cluster EXCEPT ![a] = t]
             /\ count' = [count EXCEPT ![t] = recount[w]]
    <3>1. \A q \in Titles : count[q] \in Nat => count'[q] \in Nat
      BY <2>1, <2>4 DEF TypeOK
    <3>2. count'[t] \in Nat
      BY <2>1, <2>4 DEF TypeOK
    <3>3. ASSUME NEW b \in Reports, cluster'[b] # None
          PROVE  b \in Stored /\ count'[cluster'[b]] \in Nat
      <4>1. CASE cluster'[b] = cluster[b]
        BY <1>0, <3>1, <3>3, <4>1 DEF TypeOK
      <4>2. CASE cluster'[b] # cluster[b]
        <5>1. a # None /\ b = a /\ cluster'[b] = t
          BY <2>1, <2>2, <2>4, <3>3, <4>2 DEF TypeOK
        <5> QED
          BY <2>1, <3>2, <5>1
      <4> QED
        BY <4>1, <4>2
    <3> QED
      BY <2>2, <3>3
  <2> QED
    BY <1>7, <2>3, <2>4 DEF Commit
<1>8. ASSUME NEW w \in Workers, Abandon(w) PROVE Rows'
  BY <1>1, <1>8 DEF Abandon, articles
<1>9. ASSUME NEW a \in Reports, SetArticleStatus(a) PROVE Linked'
  <2>1. Rows' /\ Stored' = Stored /\ UNCHANGED <<target, stage, dest>>
    BY <1>1, <1>9 DEF SetArticleStatus, worker
  <2> QED
    BY <1>0, <2>1
<1>10. CASE UNCHANGED vars
  <2>1. Rows' /\ Stored' = Stored /\ UNCHANGED <<target, stage, dest>>
    BY <1>1, <1>10 DEF vars, articles, worker
  <2> QED
    BY <1>0, <2>1
<1> QED
  BY <1>0, <1>2, <1>3, <1>4, <1>5, <1>6, <1>7, <1>8, <1>9, <1>10 DEF Next, Handle

\* Linked holds in every state.
LEMMA LinkedAlways == Spec => [](IInv /\ Linked)
<1>1. Init => Linked
  BY DEF Init, Linked
<1>2. IInv /\ Linked /\ [Next]_vars => Linked'
  BY LinkedStep DEF IInv
<1> QED
  BY <1>1, <1>2, Inductive, PTL DEF Spec

\* An article that belongs to a story is stored and the story exists, though rows are
\* attached by transactions that may be rolled back at any point.
THEOREM StoriesExist ==
  Spec => [](\A a \in Reports : cluster[a] # None => a \in Stored /\ count[cluster[a]] \in Nat)
<1>1. IInv /\ Linked =>
        \A a \in Reports : cluster[a] # None => a \in Stored /\ count[cluster[a]] \in Nat
  BY DEF Linked
<1> QED
  BY <1>1, LinkedAlways, PTL

\* Once attached an article may move to another story, when its report is handled
\* again, but it is never without one any more.
THEOREM NeverDetached ==
  Spec => [][\A a \in Reports : cluster[a] # None => cluster'[a] # None]_vars
<1>1. ASSUME IInv, Linked, [Next]_vars, NEW a \in Reports, cluster[a] # None
      PROVE  cluster'[a] # None
  <2>1. CASE cluster' = cluster
    BY <1>1, <2>1
  <2>2. ASSUME NEW w \in Workers, Commit(w) PROVE cluster'[a] # None
    <3>1. dest[w] \in Titles
      BY <1>1, <2>2 DEF Commit, Linked
    <3>2. cluster' = cluster \/ cluster' = [cluster EXCEPT ![target[w]] = dest[w]]
      BY <2>2 DEF Commit
    <3> QED
      BY <1>1, <3>1, <3>2 DEF IInv, TypeOK
  <2>3. (\E w \in Workers : Commit(w)) \/ cluster' = cluster
    BY <1>1 DEF Next, Handle, LookUp, Insert, Place, Link, Abandon, SetArticleStatus, vars,
                articles
  <2> QED
    BY <2>1, <2>2, <2>3
<1>2. IInv /\ Linked /\ [Next]_vars
        => [\A a \in Reports : cluster[a] # None => cluster'[a] # None]_vars
  BY <1>1
<1> QED
  BY <1>2, LinkedAlways, PTL DEF Spec
=============================================================================
