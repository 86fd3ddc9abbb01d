------------------------ MODULE FeedRegistry_proofs ------------------------
(***************************************************************************)
(* What FeedRegistry guarantees for every set of addresses, every packs,   *)
(* and any number of jobs, requests and failures.                          *)
(***************************************************************************)
EXTENDS FeedRegistry, SequenceTheorems, TLAPS

USE RegistryAssumption

(***************************************************************************)
(* The inductive invariant                                                 *)
(***************************************************************************)
\* A job is where its data says: at an outline of its pack when it writes one, past the
\* last when it is done; the row it will update is there, for no row is ever deleted;
\* the create handler never leaves its one outline.
Placed(j) ==
  /\ step[j] = "free" => at[j] = 1
  /\ step[j] \in {"insert", "update"} => at[j] \in Valid(doc[j])
  /\ step[j] = "update" => Exists(KeyOf(j))
  /\ step[j] = "record" => at[j] > Len(doc[j]) /\ edition[j] # "manual"
  /\ step[j] = "look" /\ edition[j] = "manual" => at[j] \in Valid(doc[j])
  /\ step[j] = "patch" => patch[j] # NoFeed /\ Exists(patch[j].key)

\* A row that no editor created is where the import of some address put it.
ImportMade ==
  \A k \in Keys : Exists(k) =>
    k \in byHand \/ \E u \in Urls : feeds[k].id = Identity[u] /\ Canonical[u] = k

\* The outlines behind a job that map to k, and what such a job has made of row k.
Behind(j, k) == {i \in Valid(doc[j]) : i < at[j] /\ Canonical[doc[j][i]] = k}
Made(j, k) ==
  /\ Open(k) /\ ~feeds[k].review /\ feeds[k].version = edition[j]
  /\ \E i \in Behind(j, k) : feeds[k].url = doc[j][i] /\ \A m \in Behind(j, k) : m <= i

\* What a job knows of the table as long as nobody else writes it.
Knows(j) == calm[j] =>
  /\ step[j] = "insert" => ~Exists(KeyOf(j))
  /\ step[j] \in {"look", "insert", "update", "record"} /\ edition[j] # "manual" =>
       \A k \in Keys : Behind(j, k) # {} => Made(j, k)
  /\ step[j] = "record" => \A k \in Keys : ~Missing(j, k) \/ feeds[k].review
  /\ step[j] = "disable" =>
       \A k \in Keys : Exists(k) /\ EnableQuery(wave[j], feeds[k]) => feeds[k].enabled
  /\ step[j] = "patch" /\ patch[j].want = "keep" =>
       patch[j].enabled = feeds[patch[j].key].enabled

\* A body that asks for FALSE is written as FALSE.
Shuts(j) == step[j] = "patch" /\ patch[j].want = "shut" => ~patch[j].enabled

RegistryIInv ==
  /\ RegistryTypeOK /\ ImportMade
  /\ \A j \in Jobs : Placed(j) /\ Knows(j) /\ Shuts(j)

(***************************************************************************)
(* Operators                                                               *)
(***************************************************************************)
\* The constructor of rows makes rows.
LEMMA RowType ==
  ASSUME NEW i \in Ids, NEW u \in Urls, NEW v \in Editions, NEW r \in Ranks,
         NEW e \in BOOLEAN, NEW n \in BOOLEAN, NEW p \in BOOLEAN
  PROVE  Row(i, u, v, r, e, n, p) \in Feeds
  BY DEF Row, Feeds

\* A row that is there is a row.
LEMMA RowThere ==
  ASSUME RegistryTypeOK, NEW k \in Keys, Exists(k)
  PROVE  /\ feeds[k] \in Feeds
         /\ feeds[k].id \in Ids /\ feeds[k].url \in Urls /\ feeds[k].version \in Editions
         /\ feeds[k].rank \in Ranks /\ feeds[k].enabled \in BOOLEAN
         /\ feeds[k].review \in BOOLEAN /\ feeds[k].parked \in BOOLEAN
<1>1. feeds[k] \in Feeds
  BY DEF RegistryTypeOK, Exists
<1> QED
  BY <1>1 DEF Feeds

\* The outline a job is at has an address, a key and an identity.
LEMMA OutlineType ==
  ASSUME RegistryTypeOK, NEW j \in Jobs, at[j] \in Valid(doc[j])
  PROVE  /\ at[j] \in 1 .. Len(doc[j]) /\ Url(j) \in Urls /\ KeyOf(j) \in Keys
         /\ Identity[Url(j)] \in Ids /\ RanksOf(j) \subseteq Ranks
<1>1. at[j] \in 1 .. Len(doc[j]) /\ doc[j] \in Seq(Urls)
  BY DEF RegistryTypeOK, Valid
<1>2. Url(j) \in Urls
  BY <1>1 DEF Url
<1> QED
  BY <1>1, <1>2 DEF KeyOf, RanksOf

\* The two statements of a wave complement each other: what the first does not name is
\* what the second shuts, and both mean the wave.
LEMMA WaveQueries ==
  ASSUME NEW w \in 1 .. 4, NEW f \in Feeds
  PROVE  /\ EnableQuery(w, f) <=> InWave(w, f)
         /\ DisableQuery(w, f) <=> ~InWave(w, f)
<1>1. Kind[f.url] \in {"core", "topic", "search", "unknown"} /\ f.rank \in {"low", "high"}
  BY DEF Feeds, Ranks
<1>2. w = 1 \/ w = 2 \/ w = 3 \/ w = 4
  OBVIOUS
<1> QED
  BY <1>1, <1>2 DEF EnableQuery, DisableQuery, InWave, ToEnable

(***************************************************************************)
(* Types                                                                   *)
(***************************************************************************)
\* A job at rest has its types.
LEMMA RestType ==
  ASSUME RegistryTypeOK, NEW j \in Jobs, Rest(j)
  PROVE  /\ step' \in [Jobs -> JobSteps] /\ edition' \in [Jobs -> Editions]
         /\ doc' \in [Jobs -> Seq(Urls)] /\ at' \in [Jobs -> Nat \ {0}]
         /\ booting' \in [Jobs -> BOOLEAN] /\ wave' \in [Jobs -> 1 .. 4]
         /\ patch' \in [Jobs -> Patches \cup {NoFeed}]
  BY DEF RegistryTypeOK, Rest, Move, JobSteps, Editions

\* So has one that goes on to its next outline.
LEMMA NextOutlineType ==
  ASSUME RegistryTypeOK, NEW j \in Jobs, NextOutline(j)
  PROVE  /\ step' \in [Jobs -> JobSteps] /\ edition' \in [Jobs -> Editions]
         /\ doc' \in [Jobs -> Seq(Urls)] /\ at' \in [Jobs -> Nat \ {0}]
         /\ booting' \in [Jobs -> BOOLEAN] /\ wave' \in [Jobs -> 1 .. 4]
         /\ patch' \in [Jobs -> Patches \cup {NoFeed}]
<1>1. CASE Rest(j)
  BY <1>1, RestType
<1>2. CASE /\ Move(j, "look") /\ at' = [at EXCEPT ![j] = @ + 1]
           /\ UNCHANGED <<edition, doc, booting, wave, patch>>
  BY <1>2 DEF RegistryTypeOK, Move, JobSteps
<1> QED
  BY <1>1, <1>2 DEF NextOutline

\* The initial state has its types.
LEMMA TypesInit == RegistryInit => RegistryTypeOK
<1> SUFFICES ASSUME RegistryInit PROVE RegistryTypeOK
  OBVIOUS
<1> USE DEF RegistryInit
<1>1. doc \in [Jobs -> Seq(Urls)]
  OBVIOUS
<1>2. feeds \in [Keys -> Feeds \cup {NoFeed}] /\ patch \in [Jobs -> Patches \cup {NoFeed}]
  OBVIOUS
<1>3. step \in [Jobs -> JobSteps] /\ edition \in [Jobs -> Editions]
  BY DEF JobSteps, Editions
<1>4. at \in [Jobs -> Nat \ {0}] /\ wave \in [Jobs -> 1 .. 4]
  OBVIOUS
<1>5. booting \in [Jobs -> BOOLEAN] /\ calm \in [Jobs -> BOOLEAN]
  OBVIOUS
<1>6. byHand \subseteq Keys /\ meddled \in BOOLEAN /\ requests \in Nat /\ upsets \in Nat
  OBVIOUS
<1> QED
  BY <1>1, <1>2, <1>3, <1>4, <1>5, <1>6 DEF RegistryTypeOK

\* A request has its types.
LEMMA TypesRequest ==
  ASSUME RegistryTypeOK, NEW j \in Jobs, Request(j)
  PROVE  RegistryTypeOK'
<1> USE DEF RegistryTypeOK, Begin, Move, JobSteps, Read, Editions
<1>1. CASE Boot(j)
  <2>1. Packs[Bundled] \in Seq(Urls)
    OBVIOUS
  <2> QED
    BY <1>1, <2>1 DEF Boot
<1>2. ASSUME NEW v \in Versions, StartImport(j, v) PROVE RegistryTypeOK'
  <2>1. Packs[v] \in Seq(Urls)
    OBVIOUS
  <2> QED
    BY <1>2, <2>1 DEF StartImport
<1>3. ASSUME NEW u \in Urls, Create(j, u) PROVE RegistryTypeOK'
  <2>1. <<u>> \in Seq(Urls)
    OBVIOUS
  <2> QED
    BY <1>3, <2>1 DEF Create
<1>4. ASSUME NEW w \in 1 .. 4, StartWave(j, w) PROVE RegistryTypeOK'
  BY <1>4 DEF StartWave
<1>5. ASSUME NEW k \in Keys, NEW want \in {"open", "shut", "keep"}, NEW r \in Ranks,
             Edit(j, k, want, r)
      PROVE  RegistryTypeOK'
  <2> DEFINE e == IF want = "keep" THEN feeds[k].enabled ELSE want = "open"
  <2>1. feeds[k].enabled \in BOOLEAN
    BY <1>5, RowThere DEF Edit
  <2>2. e \in BOOLEAN
    BY <2>1
  <2>3. [key |-> k, want |-> want, rank |-> r, enabled |-> e] \in Patches
    BY <2>2 DEF Patches
  <2>4. patch' = [patch EXCEPT ![j] = [key |-> k, want |-> want, rank |-> r, enabled |-> e]]
    BY <1>5 DEF Edit
  <2> HIDE DEF e
  <2>5. patch' \in [Jobs -> Patches \cup {NoFeed}]
    BY <2>3, <2>4
  <2> QED
    BY <1>5, <2>5 DEF Edit, job
<1> QED
  BY <1>1, <1>2, <1>3, <1>4, <1>5 DEF Request

\* A statement that writes one row with Row keeps the type of the table.
LEMMA WriteType ==
  ASSUME RegistryTypeOK, NEW k \in Keys, NEW f \in Feeds,
         feeds' = [feeds EXCEPT ![k] = f]
  PROVE  feeds' \in [Keys -> Feeds \cup {NoFeed}]
  BY DEF RegistryTypeOK

\* A statement has its types.
LEMMA TypesStatement ==
  ASSUME RegistryTypeOK, NEW j \in Jobs, Placed(j), Statement(j)
  PROVE  RegistryTypeOK'
<1>0. /\ RegistryTypeOK /\ calm \in [Jobs -> BOOLEAN]
      /\ (Written(j) => calm' \in [Jobs -> BOOLEAN])
  BY DEF RegistryTypeOK, Written
<1>1. CASE Look(j)
  BY <1>1 DEF Look, RegistryTypeOK, Move, JobSteps, job
<1>2. CASE Skip(j)
  BY <1>2 DEF Skip, RegistryTypeOK
<1>3. CASE InsertFeed(j)
  <2>1. at[j] \in Valid(doc[j]) /\ KeyOf(j) \in Keys
    BY <1>3, OutlineType DEF InsertFeed, Placed
  <2>2. PICK r \in RanksOf(j) : feeds' = [feeds EXCEPT ![KeyOf(j)] =
           Row(Identity[Url(j)], Url(j), edition[j], r, TRUE, FALSE, FALSE)]
    BY <1>3 DEF InsertFeed
  <2>3. Row(Identity[Url(j)], Url(j), edition[j], r, TRUE, FALSE, FALSE) \in Feeds
    BY <2>1, OutlineType, RowType DEF RegistryTypeOK
  <2>4. feeds' \in [Keys -> Feeds \cup {NoFeed}]
    BY <2>1, <2>2, <2>3, WriteType
  <2>5. byHand' \subseteq Keys
    BY <1>3, <2>1 DEF InsertFeed, RegistryTypeOK
  <2> QED
    BY <1>0, <1>3, <2>4, <2>5, NextOutlineType DEF InsertFeed, RegistryTypeOK, Written
<1>4. CASE Clash(j)
  BY <1>4, RestType DEF Clash, RegistryTypeOK
<1>5. CASE UpdateRow(j)
  <2> DEFINE f == feeds[KeyOf(j)]
  <2>1. at[j] \in Valid(doc[j]) /\ KeyOf(j) \in Keys /\ Exists(KeyOf(j))
    BY <1>5, OutlineType DEF UpdateRow, Placed
  <2>2. PICK r \in RanksOf(j) : feeds' = [feeds EXCEPT ![KeyOf(j)] =
           Row(f.id, Url(j), edition[j], r, TRUE, FALSE, f.parked)]
    BY <1>5 DEF UpdateRow
  <2>3. f.id \in Ids /\ f.parked \in BOOLEAN
    BY <2>1, RowThere
  <2>4. Row(f.id, Url(j), edition[j], r, TRUE, FALSE, f.parked) \in Feeds
    BY <2>1, <2>3, OutlineType, RowType DEF RegistryTypeOK
  <2>5. feeds' \in [Keys -> Feeds \cup {NoFeed}]
    BY <2>1, <2>2, <2>4, WriteType
  <2> QED
    BY <1>0, <1>5, <2>5, NextOutlineType DEF UpdateRow, RegistryTypeOK, Written
<1>6. CASE Mark(j)
  <2>1. ASSUME NEW k \in Keys PROVE feeds'[k] \in Feeds \cup {NoFeed}
    <3> DEFINE f == feeds[k]
    <3>1. CASE Missing(j, k)
      <4>1. Exists(k)
        BY <3>1 DEF Missing
      <4>2. Row(f.id, f.url, f.version, f.rank, f.enabled, TRUE, f.parked) \in Feeds
        BY <4>1, RowThere, RowType
      <4> QED
        BY <1>6, <3>1, <4>2 DEF Mark
    <3>2. CASE ~Missing(j, k)
      BY <1>6, <3>2 DEF Mark, RegistryTypeOK
    <3> QED
      BY <3>1, <3>2
  <2>2. feeds' \in [Keys -> Feeds \cup {NoFeed}]
    BY <1>6, <2>1 DEF Mark
  <2> QED
    BY <1>0, <1>6, <2>2 DEF Mark, RegistryTypeOK, Written, Move, JobSteps, job
<1>7. CASE Record(j)
  <2>1. CASE Rest(j)
    BY <1>7, <2>1, RestType DEF Record, RegistryTypeOK
  <2>2. CASE /\ Move(j, "enable") /\ wave' = [wave EXCEPT ![j] = Clamp(BootWave)]
             /\ UNCHANGED <<edition, doc, at, booting, patch>>
    <3>1. Clamp(BootWave) \in 1 .. 4
      BY DEF Clamp
    <3> QED
      BY <1>7, <2>2, <3>1 DEF Record, RegistryTypeOK, Move, JobSteps
  <2> QED
    BY <1>7, <2>1, <2>2 DEF Record
<1>8. CASE EnableWave(j)
  <2>1. ASSUME NEW k \in Keys PROVE feeds'[k] \in Feeds \cup {NoFeed}
    <3> DEFINE f == feeds[k]
    <3>1. CASE Exists(k) /\ ~f.enabled /\ EnableQuery(wave[j], f)
      <4>1. Row(f.id, f.url, f.version, f.rank, TRUE, f.review, FALSE) \in Feeds
        BY <3>1, RowThere, RowType
      <4> QED
        BY <1>8, <3>1, <4>1 DEF EnableWave
    <3>2. CASE ~(Exists(k) /\ ~f.enabled /\ EnableQuery(wave[j], f))
      BY <1>8, <3>2 DEF EnableWave, RegistryTypeOK
    <3> QED
      BY <3>1, <3>2
  <2>2. feeds' \in [Keys -> Feeds \cup {NoFeed}]
    BY <1>8, <2>1 DEF EnableWave
  <2> QED
    BY <1>0, <1>8, <2>2 DEF EnableWave, RegistryTypeOK, Written, Move, JobSteps, job
<1>9. CASE DisableWave(j)
  <2>1. ASSUME NEW k \in Keys PROVE feeds'[k] \in Feeds \cup {NoFeed}
    <3> DEFINE f == feeds[k]
    <3>1. CASE Exists(k) /\ f.enabled /\ DisableQuery(wave[j], f)
      <4>1. Row(f.id, f.url, f.version, f.rank, FALSE, f.review, TRUE) \in Feeds
        BY <3>1, RowThere, RowType
      <4> QED
        BY <1>9, <3>1, <4>1 DEF DisableWave
    <3>2. CASE ~(Exists(k) /\ f.enabled /\ DisableQuery(wave[j], f))
      BY <1>9, <3>2 DEF DisableWave, RegistryTypeOK
    <3> QED
      BY <3>1, <3>2
  <2>2. feeds' \in [Keys -> Feeds \cup {NoFeed}]
    BY <1>9, <2>1 DEF DisableWave
  <2> QED
    BY <1>0, <1>9, <2>2, RestType DEF DisableWave, RegistryTypeOK, Written
<1>10. CASE SavePatch(j)
  <2> DEFINE q == patch[j]
             f == feeds[q.key]
  <2>1. q \in Patches /\ Exists(q.key)
    BY <1>10 DEF SavePatch, Placed, RegistryTypeOK
  <2>2. q.key \in Keys /\ q.rank \in Ranks /\ q.enabled \in BOOLEAN
    BY <2>1 DEF Patches
  <2>3. Row(f.id, f.url, f.version, q.rank, q.enabled, FALSE, f.parked) \in Feeds
    BY <2>1, <2>2, RowThere, RowType
  <2>4. feeds' = [feeds EXCEPT ![q.key] =
           Row(f.id, f.url, f.version, q.rank, q.enabled, FALSE, f.parked)]
    BY <1>10 DEF SavePatch
  <2>5. feeds' \in [Keys -> Feeds \cup {NoFeed}]
    BY <2>2, <2>3, <2>4, WriteType
  <2> QED
    BY <1>0, <1>10, <2>5, RestType DEF SavePatch, RegistryTypeOK, Written
<1>11. CASE Break(j)
  BY <1>11, RestType DEF Break, RegistryTypeOK
<1> QED
  BY <1>1, <1>2, <1>3, <1>4, <1>5, <1>6, <1>7, <1>8, <1>9, <1>10, <1>11
     DEF Statement

\* The end of a poll has its types.
LEMMA TypesFinishPoll ==
  ASSUME RegistryTypeOK, NEW k \in Keys, FinishPoll(k)
  PROVE  RegistryTypeOK'
<1> DEFINE f == feeds[k]
<1>1. Row(f.id, f.url, f.version, f.rank, f.enabled, f.review, FALSE) \in Feeds
  BY RowThere, RowType DEF FinishPoll
<1>2. feeds' \in [Keys -> Feeds \cup {NoFeed}]
  BY <1>1, WriteType DEF FinishPoll
<1> QED
  BY <1>2 DEF FinishPoll, RegistryTypeOK, job

(***************************************************************************)
(* Rows and jobs                                                           *)
(***************************************************************************)
\* Job j has ended and is at rest.
LEMMA AtRest ==
  ASSUME RegistryTypeOK, NEW j \in Jobs, Rest(j)
  PROVE  Placed(j)' /\ Knows(j)' /\ Shuts(j)'
<1>1. step'[j] = "free" /\ at'[j] = 1
  BY DEF RegistryTypeOK, Rest, Move
<1> QED
  BY <1>1 DEF Placed, Knows, Shuts

\* What job j does leaves the data of the others alone.
Apart(i) ==
  /\ step'[i] = step[i] /\ edition'[i] = edition[i] /\ doc'[i] = doc[i]
  /\ at'[i] = at[i] /\ wave'[i] = wave[i] /\ patch'[i] = patch[i]

LEMMA RestApart ==
  ASSUME RegistryTypeOK, NEW j \in Jobs, Rest(j), NEW i \in Jobs, i # j
  PROVE  Apart(i)
  BY DEF RegistryTypeOK, Rest, Move, Apart

LEMMA NextOutlineApart ==
  ASSUME RegistryTypeOK, NEW j \in Jobs, NextOutline(j), NEW i \in Jobs, i # j
  PROVE  Apart(i)
<1>1. CASE Rest(j)
  BY <1>1, RestApart
<1>2. CASE /\ Move(j, "look") /\ at' = [at EXCEPT ![j] = @ + 1]
           /\ UNCHANGED <<edition, doc, booting, wave, patch>>
  BY <1>2 DEF RegistryTypeOK, Move, Apart
<1> QED
  BY <1>1, <1>2 DEF NextOutline

\* A statement of j touches no other job, and if it writes the table, no other job is
\* alone with it any more.
LEMMA StatementApart ==
  ASSUME RegistryTypeOK, NEW j \in Jobs, Statement(j), NEW i \in Jobs, i # j
  PROVE  Apart(i) /\ (calm'[i] => calm[i] /\ feeds' = feeds)
<1> USE DEF RegistryTypeOK
<1>0. Written(j) => ~calm'[i]
  BY DEF Written
<1>1. CASE Look(j)
  BY <1>1 DEF Look, Move, Apart, job
<1>2. CASE Skip(j)
  BY <1>2 DEF Skip, Apart
<1>3. CASE InsertFeed(j)
  BY <1>0, <1>3, NextOutlineApart DEF InsertFeed
<1>4. CASE Clash(j)
  BY <1>4, RestApart DEF Clash
<1>5. CASE UpdateRow(j)
  BY <1>0, <1>5, NextOutlineApart DEF UpdateRow
<1>6. CASE Mark(j)
  BY <1>0, <1>6 DEF Mark, Move, Apart, job
<1>7. CASE Record(j)
  <2>1. CASE Rest(j)
    BY <1>7, <2>1, RestApart DEF Record
  <2>2. CASE /\ Move(j, "enable") /\ wave' = [wave EXCEPT ![j] = Clamp(BootWave)]
             /\ UNCHANGED <<edition, doc, at, booting, patch>>
    BY <1>7, <2>2 DEF Record, Move, Apart
  <2> QED
    BY <1>7, <2>1, <2>2 DEF Record
<1>8. CASE EnableWave(j)
  BY <1>0, <1>8 DEF EnableWave, Move, Apart, job
<1>9. CASE DisableWave(j)
  BY <1>0, <1>9, RestApart DEF DisableWave
<1>10. CASE SavePatch(j)
  BY <1>0, <1>10, RestApart DEF SavePatch
<1>11. CASE Break(j)
  BY <1>11, RestApart DEF Break
<1> QED
  BY <1>1, <1>2, <1>3, <1>4, <1>5, <1>6, <1>7, <1>8, <1>9, <1>10, <1>11 DEF Statement

\* An INSERT or UPDATE makes the row of the outline, and leaves the others alone.
LEMMA OutlineWritten ==
  ASSUME RegistryTypeOK, NEW j \in Jobs, Placed(j), InsertFeed(j) \/ UpdateRow(j)
  PROVE  /\ at[j] \in Valid(doc[j]) /\ KeyOf(j) \in Keys
         /\ \A k \in Keys : k # KeyOf(j) => feeds'[k] = feeds[k]
         /\ LET f == feeds'[KeyOf(j)] IN
              /\ f # NoFeed /\ f.url = Url(j) /\ f.version = edition[j]
              /\ f.enabled = TRUE /\ f.review = FALSE
              /\ InsertFeed(j) => f.id = Identity[Url(j)] /\ f.parked = FALSE
              /\ UpdateRow(j) => f.id = feeds[KeyOf(j)].id /\ Exists(KeyOf(j))
<1>1. at[j] \in Valid(doc[j]) /\ KeyOf(j) \in Keys
  BY OutlineType DEF InsertFeed, UpdateRow, Placed
<1>0. InsertFeed(j) => ~UpdateRow(j)
  BY DEF InsertFeed, UpdateRow
<1>2. CASE InsertFeed(j)
  <2>1. PICK r \in RanksOf(j) : feeds' = [feeds EXCEPT ![KeyOf(j)] =
           Row(Identity[Url(j)], Url(j), edition[j], r, TRUE, FALSE, FALSE)]
    BY <1>2 DEF InsertFeed
  <2>2. feeds'[KeyOf(j)] = Row(Identity[Url(j)], Url(j), edition[j], r, TRUE, FALSE, FALSE)
    BY <1>1, <2>1 DEF RegistryTypeOK
  <2>3. \A k \in Keys : k # KeyOf(j) => feeds'[k] = feeds[k]
    BY <2>1 DEF RegistryTypeOK
  <2>4. /\ Identity[Url(j)] \in Ids /\ Url(j) \in Urls /\ edition[j] \in Editions
        /\ r \in Ranks
    BY <1>1, OutlineType DEF RegistryTypeOK
  <2> DEFINE f == feeds'[KeyOf(j)]
  <2>5. Row(Identity[Url(j)], Url(j), edition[j], r, TRUE, FALSE, FALSE) # NoFeed
    <3>1. Row(Identity[Url(j)], Url(j), edition[j], r, TRUE, FALSE, FALSE) \in Feeds
      BY <2>4, RowType
    <3> QED
      BY <3>1
  <2>6. f.id = Identity[Url(j)] /\ f.url = Url(j) /\ f.version = edition[j]
    BY <2>2 DEF Row
  <2>7. f.enabled = TRUE /\ f.review = FALSE /\ f.parked = FALSE
    BY <2>2 DEF Row
  <2> QED
    BY <1>0, <1>1, <1>2, <2>2, <2>3, <2>5, <2>6, <2>7
<1>3. CASE UpdateRow(j)
  <2> DEFINE g == feeds[KeyOf(j)]
  <2>0. Exists(KeyOf(j))
    BY <1>3 DEF UpdateRow, Placed
  <2>1. PICK r \in RanksOf(j) : feeds' = [feeds EXCEPT ![KeyOf(j)] =
           Row(g.id, Url(j), edition[j], r, TRUE, FALSE, g.parked)]
    BY <1>3 DEF UpdateRow
  <2>2. feeds'[KeyOf(j)] = Row(g.id, Url(j), edition[j], r, TRUE, FALSE, g.parked)
    BY <1>1, <2>1 DEF RegistryTypeOK
  <2>3. \A k \in Keys : k # KeyOf(j) => feeds'[k] = feeds[k]
    BY <2>1 DEF RegistryTypeOK
  <2>4. /\ g.id \in Ids /\ g.parked \in BOOLEAN /\ Url(j) \in Urls /\ edition[j] \in Editions
        /\ r \in Ranks
    BY <1>1, <2>0, OutlineType, RowThere DEF RegistryTypeOK
  <2> DEFINE f == feeds'[KeyOf(j)]
  <2>5. Row(g.id, Url(j), edition[j], r, TRUE, FALSE, g.parked) # NoFeed
    <3>1. Row(g.id, Url(j), edition[j], r, TRUE, FALSE, g.parked) \in Feeds
      BY <2>4, RowType
    <3> QED
      BY <3>1
  <2>6. f.id = g.id /\ f.url = Url(j) /\ f.version = edition[j]
    BY <2>2 DEF Row
  <2>7. f.enabled = TRUE /\ f.review = FALSE
    BY <2>2 DEF Row
  <2> QED
    BY <1>0, <1>1, <1>3, <2>0, <2>2, <2>3, <2>5, <2>6, <2>7
<1> QED
  BY <1>2, <1>3

\* What each other statement makes of a row: the same row with other flags.
LEMMA RowMarked ==
  ASSUME RegistryTypeOK, NEW j \in Jobs, Mark(j), NEW k \in Keys, Exists(k)
  PROVE  /\ feeds'[k] # NoFeed /\ feeds'[k].id = feeds[k].id /\ feeds'[k].url = feeds[k].url
         /\ feeds'[k].version = feeds[k].version
         /\ Missing(j, k) => feeds'[k].review = TRUE
         /\ ~Missing(j, k) => feeds'[k] = feeds[k]
<1> DEFINE f == feeds[k]
<1>1. CASE Missing(j, k)
  <2>1. feeds'[k] = Row(f.id, f.url, f.version, f.rank, f.enabled, TRUE, f.parked)
    BY <1>1 DEF Mark
  <2>2. Row(f.id, f.url, f.version, f.rank, f.enabled, TRUE, f.parked) \in Feeds
    BY RowThere, RowType
  <2>3. feeds'[k] # NoFeed
    BY <2>1, <2>2
  <2> QED
    BY <1>1, <2>1, <2>3 DEF Row
<1>2. CASE ~Missing(j, k)
  BY <1>2 DEF Mark, Exists
<1> QED
  BY <1>1, <1>2

LEMMA RowEnabled ==
  ASSUME RegistryTypeOK, NEW j \in Jobs, EnableWave(j), NEW k \in Keys, Exists(k)
  PROVE  /\ feeds'[k] # NoFeed /\ feeds'[k].id = feeds[k].id /\ feeds'[k].url = feeds[k].url
         /\ feeds'[k].rank = feeds[k].rank
         /\ EnableQuery(wave[j], feeds[k]) => feeds'[k].enabled
         /\ feeds'[k] # feeds[k] => EnableQuery(wave[j], feeds[k]) /\ ~feeds'[k].parked
<1> DEFINE f == feeds[k]
<1>1. CASE ~f.enabled /\ EnableQuery(wave[j], f)
  <2>1. feeds'[k] = Row(f.id, f.url, f.version, f.rank, TRUE, f.review, FALSE)
    BY <1>1 DEF EnableWave
  <2>2. Row(f.id, f.url, f.version, f.rank, TRUE, f.review, FALSE) \in Feeds
    BY RowThere, RowType
  <2>3. feeds'[k] # NoFeed
    BY <2>1, <2>2
  <2> QED
    BY <1>1, <2>1, <2>3 DEF Row
<1>2. CASE ~(~f.enabled /\ EnableQuery(wave[j], f))
  <2>1. feeds'[k] = f
    BY <1>2 DEF EnableWave
  <2> QED
    BY <1>2, <2>1 DEF Exists
<1> QED
  BY <1>1, <1>2

LEMMA RowDisabled ==
  ASSUME RegistryTypeOK, NEW j \in Jobs, DisableWave(j), NEW k \in Keys, Exists(k)
  PROVE  /\ feeds'[k] # NoFeed /\ feeds'[k].id = feeds[k].id
         /\ DisableQuery(wave[j], feeds[k]) => ~feeds'[k].enabled
         /\ ~DisableQuery(wave[j], feeds[k]) => feeds'[k] = feeds[k]
         /\ feeds'[k] # feeds[k] => ~feeds'[k].enabled
<1> DEFINE f == feeds[k]
<1>1. CASE f.enabled /\ DisableQuery(wave[j], f)
  <2>1. feeds'[k] = Row(f.id, f.url, f.version, f.rank, FALSE, f.review, TRUE)
    BY <1>1 DEF DisableWave
  <2>2. Row(f.id, f.url, f.version, f.rank, FALSE, f.review, TRUE) \in Feeds
    BY RowThere, RowType
  <2>3. feeds'[k] # NoFeed
    BY <2>1, <2>2
  <2> QED
    BY <1>1, <2>1, <2>3 DEF Row
<1>2. CASE ~(f.enabled /\ DisableQuery(wave[j], f))
  <2>1. feeds'[k] = f
    BY <1>2 DEF DisableWave
  <2> QED
    BY <1>2, <2>1 DEF Exists
<1> QED
  BY <1>1, <1>2

LEMMA RowPatched ==
  ASSUME RegistryTypeOK, NEW j \in Jobs, Placed(j), SavePatch(j), NEW k \in Keys, Exists(k)
  PROVE  /\ feeds'[k] # NoFeed /\ feeds'[k].id = feeds[k].id
         /\ k = patch[j].key => feeds'[k].enabled = patch[j].enabled
         /\ k # patch[j].key => feeds'[k] = feeds[k]
<1> DEFINE q == patch[j]
           f == feeds[q.key]
<1>1. q \in Patches /\ Exists(q.key)
  BY DEF SavePatch, Placed, RegistryTypeOK
<1>2. q.key \in Keys /\ q.rank \in Ranks /\ q.enabled \in BOOLEAN
  BY <1>1 DEF Patches
<1>3. feeds' = [feeds EXCEPT ![q.key] =
         Row(f.id, f.url, f.version, q.rank, q.enabled, FALSE, f.parked)]
  BY DEF SavePatch
<1>4. CASE k = q.key
  <2>1. feeds'[k] = Row(f.id, f.url, f.version, q.rank, q.enabled, FALSE, f.parked)
    BY <1>3, <1>4 DEF RegistryTypeOK
  <2>2. Row(f.id, f.url, f.version, q.rank, q.enabled, FALSE, f.parked) \in Feeds
    BY <1>1, <1>2, RowThere, RowType
  <2>3. feeds'[k] # NoFeed
    BY <2>1, <2>2
  <2>4. feeds'[k].id = f.id /\ feeds'[k].enabled = q.enabled
    BY <2>1 DEF Row
  <2> QED
    BY <1>4, <2>3, <2>4
<1>5. CASE k # q.key
  BY <1>3, <1>5 DEF RegistryTypeOK, Exists
<1> QED
  BY <1>4, <1>5

\* No row is deleted, and none changes its id.
LEMMA RowsStay ==
  ASSUME RegistryTypeOK, NEW j \in Jobs, Placed(j), Statement(j), NEW k \in Keys, Exists(k)
  PROVE  feeds'[k] # NoFeed /\ feeds'[k].id = feeds[k].id
<1>1. CASE feeds' = feeds
  BY <1>1 DEF Exists
<1>2. CASE InsertFeed(j)
  <2>1. k # KeyOf(j)
    BY <1>2, OutlineWritten DEF InsertFeed, Clashes
  <2>2. feeds'[k] = feeds[k]
    BY <1>2, <2>1, OutlineWritten
  <2> QED
    BY <2>2 DEF Exists
<1>3. CASE UpdateRow(j)
  BY <1>3, OutlineWritten DEF Exists
<1>4. CASE Mark(j)
  BY <1>4, RowMarked
<1>5. CASE EnableWave(j)
  BY <1>5, RowEnabled
<1>6. CASE DisableWave(j)
  BY <1>6, RowDisabled
<1>7. CASE SavePatch(j)
  BY <1>7, RowPatched
<1> QED
  BY <1>1, <1>2, <1>3, <1>4, <1>5, <1>6, <1>7 DEF Statement, Look, Skip, Clash, Record, Break

\* Only an INSERT makes a row.
LEMMA RowsMade ==
  ASSUME RegistryTypeOK, NEW j \in Jobs, Placed(j), Statement(j), NEW k \in Keys,
         ~Exists(k), feeds'[k] # NoFeed
  PROVE  InsertFeed(j) /\ k = KeyOf(j)
<1>1. feeds' # feeds /\ feeds'[k] # feeds[k]
  BY DEF Exists
<1>2. CASE InsertFeed(j) \/ UpdateRow(j)
  BY <1>1, <1>2, OutlineWritten
<1>3. CASE Mark(j)
  BY <1>1, <1>3 DEF Mark, Missing
<1>4. CASE EnableWave(j)
  BY <1>1, <1>4 DEF EnableWave
<1>5. CASE DisableWave(j)
  BY <1>1, <1>5 DEF DisableWave
<1>6. CASE SavePatch(j)
  BY <1>1, <1>6 DEF SavePatch, Placed, RegistryTypeOK
<1> QED
  BY <1>1, <1>2, <1>3, <1>4, <1>5, <1>6 DEF Statement, Look, Skip, Clash, Record, Break

(***************************************************************************)
(* The invariant                                                           *)
(***************************************************************************)
\* At first there is no row, and no job.
LEMMA RegistryBegins == RegistryInit => RegistryIInv
<1> SUFFICES ASSUME RegistryInit PROVE RegistryIInv
  OBVIOUS
<1>1. ImportMade
  BY DEF RegistryInit, ImportMade, Exists
<1>2. ASSUME NEW j \in Jobs PROVE Placed(j) /\ Knows(j) /\ Shuts(j)
  <2>1. step[j] = "free" /\ at[j] = 1
    BY DEF RegistryInit
  <2> QED
    BY <2>1 DEF Placed, Knows, Shuts
<1> QED
  BY <1>1, <1>2, TypesInit DEF RegistryIInv

\* The statements of j leave standing what is known of another job.
LEMMA OthersStatement ==
  ASSUME RegistryTypeOK, NEW j \in Jobs, Placed(j), Statement(j), NEW i \in Jobs, i # j,
         Placed(i), Knows(i), Shuts(i)
  PROVE  Placed(i)' /\ Knows(i)' /\ Shuts(i)'
<1>1. Apart(i) /\ (calm'[i] => calm[i] /\ feeds' = feeds)
  BY StatementApart
<1>2. \A k \in Keys : Exists(k) => feeds'[k] # NoFeed
  BY RowsStay
<1>3. Placed(i)'
  <2>1. step[i] = "update" => KeyOf(i) \in Keys
    BY OutlineType DEF Placed
  <2>2. step[i] = "patch" => patch[i].key \in Keys
    BY DEF Placed, RegistryTypeOK, Patches
  <2> QED
    BY <1>1, <1>2, <2>1, <2>2 DEF Placed, Apart, Exists, KeyOf, Url
<1>4. Shuts(i)'
  BY <1>1 DEF Shuts, Apart
<1>5. Knows(i)'
  BY <1>1 DEF Knows, Apart, Exists, KeyOf, Url, Behind, Made, Open, Missing, Kept
<1> QED
  BY <1>3, <1>4, <1>5

\* A job that has written its outline has put the row of its key in order, and left those
\* of the outlines behind it as they were.
LEMMA OutlineDone ==
  ASSUME RegistryTypeOK, NEW j \in Jobs, Placed(j), Knows(j),
         InsertFeed(j) \/ UpdateRow(j), edition[j] # "manual"
  PROVE  Placed(j)' /\ Knows(j)' /\ Shuts(j)'
<1>0. Move(j, "look") /\ at' = [at EXCEPT ![j] = @ + 1] /\ UNCHANGED <<edition, doc, patch>>
  BY DEF InsertFeed, UpdateRow, NextOutline
<1>1. /\ step'[j] = "look" /\ edition'[j] = edition[j] /\ doc'[j] = doc[j]
      /\ at'[j] = at[j] + 1 /\ patch'[j] = patch[j]
  BY <1>0 DEF RegistryTypeOK, Move
<1>2. at[j] \in Valid(doc[j]) /\ at[j] \in 1 .. Len(doc[j]) /\ Url(j) = doc[j][at[j]]
      /\ KeyOf(j) = Canonical[doc[j][at[j]]] /\ KeyOf(j) \in Keys
  BY OutlineWritten, OutlineType DEF Url, KeyOf
<1>3. calm'[j] => calm[j]
  BY DEF InsertFeed, UpdateRow, Written
<1>4. Placed(j)' /\ Shuts(j)'
  BY <1>1 DEF Placed, Shuts
<1>5. ASSUME calm'[j], NEW k \in Keys, Behind(j, k)' # {} PROVE Made(j, k)'
  <2>1. step[j] \in {"insert", "update"}
    BY DEF InsertFeed, UpdateRow
  <2>2. Behind(j, k) # {} => Made(j, k)
    BY <1>3, <1>5, <2>1 DEF Knows
  <2>3. CASE k = KeyOf(j)
    <3>1. /\ feeds'[k] # NoFeed /\ feeds'[k].url = doc[j][at[j]]
          /\ feeds'[k].version = edition[j] /\ feeds'[k].enabled = TRUE
          /\ feeds'[k].review = FALSE
      BY <1>2, <2>3, OutlineWritten
    <3>2. at[j] \in Behind(j, k)' /\ \A m \in Behind(j, k)' : m <= at[j]
      BY <1>1, <1>2, <2>3 DEF Behind, Valid
    <3> QED
      BY <1>1, <3>1, <3>2 DEF Made, Open, Exists
  <2>4. CASE k # KeyOf(j)
    <3>1. feeds'[k] = feeds[k]
      BY <2>4, OutlineWritten
    <3>2. Behind(j, k)' = Behind(j, k)
      BY <1>1, <1>2, <2>4 DEF Behind, Valid
    <3> QED
      BY <1>1, <1>5, <2>2, <3>1, <3>2 DEF Made, Open, Exists
  <2> QED
    BY <2>3, <2>4
<1> QED
  BY <1>1, <1>4, <1>5 DEF Knows

\* Before its first outline a job has written nothing.
LEMMA NothingBehind ==
  ASSUME NEW j \in Jobs, NEW k \in Keys, at[j] = 1, doc[j] \in Seq(Urls)
  PROVE  Behind(j, k) = {}
  BY DEF Behind, Valid

\* The statements of a job keep what it knows itself.
LEMMA OwnStatement ==
  ASSUME RegistryTypeOK, NEW j \in Jobs, Placed(j), Knows(j), Shuts(j), Statement(j)
  PROVE  Placed(j)' /\ Knows(j)' /\ Shuts(j)'
<1>0. Written(j) => (calm'[j] => calm[j])
  BY DEF Written, RegistryTypeOK
<1>1. CASE Look(j)
  <2>1. /\ step'[j] = IF Exists(KeyOf(j)) THEN "update" ELSE "insert"
        /\ at[j] \in Valid(doc[j]) /\ step[j] = "look"
    BY <1>1 DEF Look, RegistryTypeOK, Move
  <2>2. UNCHANGED <<feeds, job, calm>>
    BY <1>1 DEF Look
  <2>3. Placed(j)' /\ Shuts(j)'
    BY <2>1, <2>2 DEF Placed, Shuts, job, Exists, KeyOf, Url
  <2>4. Knows(j)'
    BY <2>1, <2>2 DEF Knows, job, Exists, KeyOf, Url, Behind, Made, Open
  <2> QED
    BY <2>3, <2>4
<1>2. CASE Skip(j)
  <2>1. /\ step[j] = "look" /\ step' = step /\ at'[j] = at[j] + 1 /\ at[j] \notin Valid(doc[j])
        /\ UNCHANGED <<feeds, edition, doc, wave, patch, calm>>
    BY <1>2 DEF Skip, RegistryTypeOK
  <2>2. edition[j] # "manual"
    BY <2>1 DEF Placed
  <2>3. \A k \in Keys : Behind(j, k)' = Behind(j, k)
    BY <2>1 DEF Behind, Valid, RegistryTypeOK
  <2>4. Placed(j)' /\ Shuts(j)'
    BY <2>1, <2>2 DEF Placed, Shuts
  <2>5. \A k \in Keys : Made(j, k) => Made(j, k)'
    BY <2>1, <2>3 DEF Made, Open, Exists
  <2> QED
    BY <2>1, <2>2, <2>3, <2>4, <2>5 DEF Knows
<1>3. CASE InsertFeed(j) \/ UpdateRow(j)
  <2>1. CASE edition[j] = "manual"
    BY <1>3, <2>1, AtRest DEF InsertFeed, UpdateRow, NextOutline
  <2>2. CASE edition[j] # "manual"
    BY <1>3, <2>2, OutlineDone
  <2> QED
    BY <2>1, <2>2
<1>4. CASE Clash(j)
  BY <1>4, AtRest DEF Clash
<1>5. CASE Mark(j)
  <2>1. /\ step[j] = "look" /\ step'[j] = "record" /\ at[j] > Len(doc[j])
        /\ UNCHANGED <<edition, doc, at, wave, patch>>
    BY <1>5 DEF Mark, RegistryTypeOK, Move, job
  <2>2. edition[j] # "manual"
    BY <2>1 DEF Placed, Valid, RegistryTypeOK
  <2>3. Placed(j)' /\ Shuts(j)'
    BY <2>1, <2>2 DEF Placed, Shuts
  <2>4. ASSUME calm'[j], NEW k \in Keys, Behind(j, k)' # {} PROVE Made(j, k)'
    <3>1. Behind(j, k)' = Behind(j, k)
      BY <2>1 DEF Behind
    <3>2. Made(j, k) /\ Exists(k)
      BY <1>0, <1>5, <2>1, <2>2, <2>4, <3>1 DEF Knows, Mark, Made, Open
    <3>3. ~Missing(j, k)
      BY <3>2 DEF Made, Missing
    <3>4. feeds'[k] = feeds[k]
      BY <1>5, <3>2, <3>3, RowMarked
    <3> QED
      BY <2>1, <3>1, <3>2, <3>4 DEF Made, Open, Exists
  <2>5. ASSUME NEW k \in Keys, Missing(j, k)' PROVE feeds'[k].review
    <3>1. CASE Exists(k)
      <4>1. Missing(j, k)
        BY <1>5, <2>1, <2>5, <3>1, RowMarked DEF Missing, Kept, Exists
      <4> QED
        BY <1>5, <3>1, <4>1, RowMarked
    <3>2. CASE ~Exists(k)
      BY <1>5, <2>5, <3>2 DEF Mark, Missing, Exists
    <3> QED
      BY <3>1, <3>2
  <2> QED
    BY <2>1, <2>3, <2>4, <2>5 DEF Knows
<1>6. CASE Record(j)
  <2>1. CASE Rest(j)
    BY <2>1, AtRest
  <2>2. CASE Move(j, "enable")
    <3>1. step'[j] = "enable"
      BY <2>2 DEF Move, RegistryTypeOK
    <3> QED
      BY <3>1 DEF Placed, Knows, Shuts
  <2> QED
    BY <1>6, <2>1, <2>2 DEF Record
<1>7. CASE EnableWave(j)
  <2>1. step'[j] = "disable" /\ wave' = wave
    BY <1>7 DEF EnableWave, Move, RegistryTypeOK, job
  <2>2. ASSUME NEW k \in Keys, feeds'[k] # NoFeed, EnableQuery(wave[j], feeds'[k])
        PROVE  feeds'[k].enabled
    <3>1. Exists(k)
      BY <1>7, <2>2 DEF EnableWave, Exists
    <3>2. EnableQuery(wave[j], feeds[k])
      BY <1>7, <2>2, <3>1, RowEnabled DEF EnableQuery
    <3> QED
      BY <1>7, <3>1, <3>2, RowEnabled
  <2>3. Placed(j)' /\ Shuts(j)'
    BY <2>1 DEF Placed, Shuts
  <2> QED
    BY <2>1, <2>2, <2>3 DEF Knows, Exists
<1>8. CASE DisableWave(j)
  BY <1>8, AtRest DEF DisableWave
<1>9. CASE SavePatch(j)
  BY <1>9, AtRest DEF SavePatch
<1>10. CASE Break(j)
  BY <1>10, AtRest DEF Break
<1> QED
  BY <1>1, <1>2, <1>3, <1>4, <1>5, <1>6, <1>7, <1>8, <1>9, <1>10 DEF Statement

\* Where a row came from stays true.
LEMMA ImportMadeStatement ==
  ASSUME RegistryTypeOK, ImportMade, NEW j \in Jobs, Placed(j), Statement(j)
  PROVE  ImportMade'
<1> SUFFICES ASSUME NEW k \in Keys, feeds'[k] # NoFeed
             PROVE  k \in byHand' \/ \E u \in Urls : feeds'[k].id = Identity[u] /\ Canonical[u] = k
  BY DEF ImportMade, Exists
<1>1. byHand \subseteq byHand'
  BY DEF Statement, Look, Skip, InsertFeed, Clash, UpdateRow, Mark, Record, EnableWave,
         DisableWave, SavePatch, Break
<1>2. CASE Exists(k)
  BY <1>1, <1>2, RowsStay DEF ImportMade
<1>3. CASE ~Exists(k)
  <2>1. InsertFeed(j) /\ k = KeyOf(j)
    BY <1>3, RowsMade
  <2>2. CASE edition[j] = "manual"
    BY <2>1, <2>2 DEF InsertFeed
  <2>3. CASE edition[j] # "manual"
    <3>1. feeds'[k].id = Identity[Url(j)] /\ Canonical[Url(j)] = k /\ Url(j) \in Urls
      BY <2>1, <2>3, OutlineWritten, OutlineType DEF KeyOf
    <3> QED
      BY <3>1
  <2> QED
    BY <2>2, <2>3
<1> QED
  BY <1>2, <1>3

\* A request changes no row, and of the jobs only its own.
LEMMA RequestApart ==
  ASSUME RegistryTypeOK, NEW j \in Jobs, Request(j), NEW i \in Jobs, i # j
  PROVE  Apart(i) /\ calm'[i] = calm[i]
<1> USE DEF RegistryTypeOK, Begin, Move, Read, Apart
<1>1. CASE Boot(j)
  BY <1>1 DEF Boot
<1>2. ASSUME NEW v \in Versions, StartImport(j, v) PROVE Apart(i) /\ calm'[i] = calm[i]
  BY <1>2 DEF StartImport
<1>3. ASSUME NEW u \in Urls, Create(j, u) PROVE Apart(i) /\ calm'[i] = calm[i]
  BY <1>3 DEF Create
<1>4. ASSUME NEW w \in 1 .. 4, StartWave(j, w) PROVE Apart(i) /\ calm'[i] = calm[i]
  BY <1>4 DEF StartWave
<1>5. ASSUME NEW k \in Keys, NEW want \in {"open", "shut", "keep"}, NEW r \in Ranks,
             Edit(j, k, want, r)
      PROVE  Apart(i) /\ calm'[i] = calm[i]
  BY <1>5 DEF Edit
<1> QED
  BY <1>1, <1>2, <1>3, <1>4, <1>5 DEF Request

\* A request that begins knows what it needs.
LEMMA OwnRequest ==
  ASSUME RegistryTypeOK, NEW j \in Jobs, Placed(j), Request(j), RegistryTypeOK'
  PROVE  Placed(j)' /\ Knows(j)' /\ Shuts(j)'
<1>0. step[j] = "free" /\ at[j] = 1 /\ feeds' = feeds
  BY DEF Request, Boot, StartImport, Create, StartWave, Edit, Begin, Placed
<1>1. ASSUME step'[j] = "look", at'[j] = 1, edition'[j] = "manual" => 1 \in Valid(doc'[j])
      PROVE  Placed(j)' /\ Knows(j)' /\ Shuts(j)'
  <2>1. \A k \in Keys : Behind(j, k)' = {}
    BY <1>1, NothingBehind DEF Behind, Valid, RegistryTypeOK
  <2> QED
    BY <1>1, <2>1 DEF Placed, Knows, Shuts
<1>2. CASE Boot(j)
  <2>1. step'[j] = "look" /\ at'[j] = 1 /\ edition'[j] # "manual"
    BY <1>0, <1>2 DEF Boot, Begin, Move, Read, RegistryTypeOK
  <2> QED
    BY <1>1, <2>1
<1>3. ASSUME NEW v \in Versions, StartImport(j, v) PROVE Placed(j)' /\ Knows(j)' /\ Shuts(j)'
  <2>1. step'[j] = "look" /\ at'[j] = 1 /\ edition'[j] # "manual"
    BY <1>0, <1>3 DEF StartImport, Begin, Move, Read, RegistryTypeOK
  <2> QED
    BY <1>1, <2>1
<1>4. ASSUME NEW u \in Urls, Create(j, u) PROVE Placed(j)' /\ Knows(j)' /\ Shuts(j)'
  <2>1. step'[j] = "look" /\ at'[j] = 1 /\ doc'[j] = <<u>> /\ u \notin Rejected
    BY <1>0, <1>4 DEF Create, Begin, Move, Read, RegistryTypeOK
  <2>2. 1 \in Valid(<<u>>)
    BY <2>1 DEF Valid
  <2> QED
    BY <1>1, <2>1, <2>2
<1>5. ASSUME NEW w \in 1 .. 4, StartWave(j, w) PROVE Placed(j)' /\ Knows(j)' /\ Shuts(j)'
  <2>1. step'[j] = "enable"
    BY <1>5 DEF StartWave, Begin, Move, RegistryTypeOK
  <2> QED
    BY <2>1 DEF Placed, Knows, Shuts
<1>6. ASSUME NEW k \in Keys, NEW want \in {"open", "shut", "keep"}, NEW r \in Ranks,
             Edit(j, k, want, r)
      PROVE  Placed(j)' /\ Knows(j)' /\ Shuts(j)'
  <2> DEFINE e == IF want = "keep" THEN feeds[k].enabled ELSE want = "open"
  <2>1. /\ step'[j] = "patch" /\ Exists(k)
        /\ patch'[j] = [key |-> k, want |-> want, rank |-> r, enabled |-> e]
    BY <1>6 DEF Edit, Begin, Move, RegistryTypeOK
  <2>2. patch'[j].key = k /\ patch'[j].want = want /\ patch'[j].enabled = e
    BY <2>1
  <2>3. patch'[j] # NoFeed
    <3>1. feeds[k].enabled \in BOOLEAN
      BY <2>1, RowThere
    <3>2. e \in BOOLEAN
      BY <3>1
    <3> HIDE DEF e
    <3>3. patch'[j] \in Patches
      BY <2>1, <3>2 DEF Patches
    <3> QED
      BY <3>3
  <2>4. Placed(j)'
    BY <1>0, <2>1, <2>2, <2>3 DEF Placed, Exists
  <2>5. Knows(j)'
    BY <1>0, <2>1, <2>2 DEF Knows
  <2>6. Shuts(j)'
    BY <2>1, <2>2 DEF Shuts
  <2> QED
    BY <2>4, <2>5, <2>6
<1> QED
  BY <1>2, <1>3, <1>4, <1>5, <1>6 DEF Request

\* The end of a poll changes no more than the time of the next.
LEMMA RowPolled ==
  ASSUME RegistryTypeOK, NEW c \in Keys, FinishPoll(c), NEW k \in Keys
  PROVE  /\ Exists(k) <=> feeds'[k] # NoFeed
         /\ Exists(k) =>
              /\ feeds'[k].id = feeds[k].id /\ feeds'[k].url = feeds[k].url
              /\ feeds'[k].version = feeds[k].version /\ feeds'[k].rank = feeds[k].rank
              /\ feeds'[k].enabled = feeds[k].enabled /\ feeds'[k].review = feeds[k].review
         /\ feeds'[k] # feeds[k] => feeds'[k].parked = FALSE
<1> DEFINE f == feeds[c]
<1>1. Exists(c) /\ feeds' = [feeds EXCEPT ![c] =
        Row(f.id, f.url, f.version, f.rank, f.enabled, f.review, FALSE)]
  BY DEF FinishPoll
<1>2. CASE k = c
  <2>1. feeds'[k] = Row(f.id, f.url, f.version, f.rank, f.enabled, f.review, FALSE)
    BY <1>1, <1>2 DEF RegistryTypeOK
  <2>2. Row(f.id, f.url, f.version, f.rank, f.enabled, f.review, FALSE) \in Feeds
    BY <1>1, RowThere, RowType
  <2>3. feeds'[k] # NoFeed
    BY <2>1, <2>2
  <2> QED
    BY <1>1, <1>2, <2>1, <2>3 DEF Row
<1>3. CASE k # c
  BY <1>1, <1>3 DEF RegistryTypeOK, Exists
<1> QED
  BY <1>2, <1>3

LEMMA KeepFinishPoll ==
  ASSUME RegistryIInv, NEW c \in Keys, FinishPoll(c)
  PROVE  ImportMade' /\ \A j \in Jobs : Placed(j)' /\ Knows(j)' /\ Shuts(j)'
<1>1. UNCHANGED <<step, job, calm, byHand>> /\ RegistryTypeOK
  BY DEF FinishPoll, RegistryIInv
<1>2. ImportMade'
  <2> SUFFICES ASSUME NEW k \in Keys, feeds'[k] # NoFeed
               PROVE  k \in byHand \/ \E u \in Urls : feeds'[k].id = Identity[u] /\ Canonical[u] = k
    BY <1>1 DEF ImportMade, Exists
  <2>1. Exists(k) /\ feeds'[k].id = feeds[k].id
    BY <1>1, RowPolled
  <2> QED
    BY <2>1 DEF RegistryIInv, ImportMade
<1>3. ASSUME NEW j \in Jobs PROVE Placed(j)' /\ Shuts(j)'
  <2>1. step[j] = "update" => KeyOf(j) \in Keys
    BY <1>1, OutlineType DEF RegistryIInv, Placed
  <2>2. step[j] = "patch" => patch[j].key \in Keys
    BY <1>1 DEF RegistryIInv, Placed, RegistryTypeOK, Patches
  <2> QED
    BY <1>1, <2>1, <2>2, RowPolled DEF RegistryIInv, Placed, Shuts, Exists, KeyOf, Url, job
<1>4. ASSUME NEW j \in Jobs, calm[j] PROVE Knows(j)'
  <2>0. Placed(j) /\ Knows(j)
    BY DEF RegistryIInv
  <2>1. step[j] = "insert" => feeds'[KeyOf(j)] = NoFeed
    <3>1. step[j] = "insert" => KeyOf(j) \in Keys
      BY <1>1, <2>0, OutlineType DEF Placed
    <3> QED
      BY <1>1, <1>4, <2>0, <3>1, RowPolled DEF Knows
  <2>2. ASSUME NEW k \in Keys, Made(j, k) PROVE Made(j, k)'
    <3>1. Exists(k) /\ Behind(j, k)' = Behind(j, k)
      BY <1>1, <2>2 DEF Made, Open, Behind, job
    <3> QED
      BY <1>1, <2>2, <3>1, RowPolled DEF Made, Open, Exists, job
  <2>3. ASSUME NEW k \in Keys, Missing(j, k)' PROVE Missing(j, k)
    <3>1. /\ feeds'[k] # NoFeed /\ feeds'[k].version # edition[j] /\ k \notin Kept(j)
      BY <1>1, <2>3 DEF Missing, Exists, Kept, job
    <3>2. Exists(k) /\ feeds'[k].version = feeds[k].version
      BY <1>1, <3>1, RowPolled
    <3> QED
      BY <3>1, <3>2 DEF Missing
  <2>4. \A k \in Keys : Missing(j, k)' => feeds'[k].review = feeds[k].review
    BY <1>1, <2>3, RowPolled DEF Missing
  <2>5. ASSUME NEW k \in Keys, feeds'[k] # NoFeed, EnableQuery(wave[j], feeds'[k])
        PROVE  /\ Exists(k) /\ EnableQuery(wave[j], feeds[k])
               /\ feeds'[k].enabled = feeds[k].enabled
    BY <1>1, <2>5, RowPolled DEF EnableQuery
  <2>6. step[j] = "patch" => feeds'[patch[j].key].enabled = feeds[patch[j].key].enabled
    <3>1. step[j] = "patch" => patch[j].key \in Keys /\ Exists(patch[j].key)
      BY <1>1, <2>0 DEF Placed, RegistryTypeOK, Patches
    <3> QED
      BY <1>1, <3>1, RowPolled
  <2>7. step[j] = "record" => \A k \in Keys : ~Missing(j, k)' \/ feeds'[k].review
    BY <1>4, <2>0, <2>3, <2>4 DEF Knows
  <2>8. step[j] = "disable" => \A k \in Keys :
           feeds'[k] # NoFeed /\ EnableQuery(wave[j], feeds'[k]) => feeds'[k].enabled
    BY <1>4, <2>0, <2>5 DEF Knows
  <2>9. step[j] \in {"look", "insert", "update", "record"} /\ edition[j] # "manual" =>
           \A k \in Keys : Behind(j, k)' # {} => Made(j, k)'
    BY <1>1, <1>4, <2>0, <2>2 DEF Knows, Behind, job
  <2>10. step[j] = "patch" /\ patch[j].want = "keep" =>
           patch[j].enabled = feeds'[patch[j].key].enabled
    BY <1>4, <2>0, <2>6 DEF Knows
  <2> QED
    BY <1>1, <2>1, <2>7, <2>8, <2>9, <2>10 DEF Knows, Exists, KeyOf, Url, job
<1>5. ASSUME NEW j \in Jobs, ~calm[j] PROVE Knows(j)'
  BY <1>1, <1>5 DEF Knows
<1> QED
  BY <1>2, <1>3, <1>4, <1>5

\* Every step keeps the invariant.
LEMMA RegistryStep == RegistryIInv /\ [RegistryNext]_registryVars => RegistryIInv'
<1> SUFFICES ASSUME RegistryIInv, [RegistryNext]_registryVars PROVE RegistryIInv'
  OBVIOUS
<1>0. RegistryTypeOK /\ ImportMade /\ \A j \in Jobs : Placed(j) /\ Knows(j) /\ Shuts(j)
  BY DEF RegistryIInv
<1>1. ASSUME NEW j \in Jobs, Request(j) PROVE RegistryIInv'
  <2>1. RegistryTypeOK'
    BY <1>0, <1>1, TypesRequest
  <2>2. feeds' = feeds /\ byHand' = byHand
    BY <1>1 DEF Request, Boot, StartImport, Create, StartWave, Edit, Begin
  <2>3. ImportMade'
    BY <1>0, <2>2 DEF ImportMade, Exists
  <2>4. Placed(j)' /\ Knows(j)' /\ Shuts(j)'
    BY <1>0, <1>1, <2>1, OwnRequest
  <2>5. ASSUME NEW i \in Jobs, i # j PROVE Placed(i)' /\ Knows(i)' /\ Shuts(i)'
    <3>1. Apart(i) /\ calm'[i] = calm[i]
      BY <1>0, <1>1, <2>5, RequestApart
    <3>2. Placed(i) /\ Knows(i) /\ Shuts(i)
      BY <1>0
    <3>3. Placed(i)' /\ Shuts(i)'
      BY <2>2, <3>1, <3>2 DEF Placed, Shuts, Apart, Exists, KeyOf, Url
    <3>4. Knows(i)'
      BY <2>2, <3>1, <3>2 DEF Knows, Apart, Exists, KeyOf, Url, Behind, Made, Open, Missing,
                              Kept
    <3> QED
      BY <3>3, <3>4
  <2> QED
    BY <2>1, <2>3, <2>4, <2>5 DEF RegistryIInv
<1>2. ASSUME NEW j \in Jobs, Statement(j) PROVE RegistryIInv'
  <2>1. RegistryTypeOK'
    BY <1>0, <1>2, TypesStatement
  <2>2. ImportMade'
    BY <1>0, <1>2, ImportMadeStatement
  <2>3. Placed(j)' /\ Knows(j)' /\ Shuts(j)'
    BY <1>0, <1>2, OwnStatement
  <2>4. ASSUME NEW i \in Jobs, i # j PROVE Placed(i)' /\ Knows(i)' /\ Shuts(i)'
    BY <1>0, <1>2, <2>4, OthersStatement
  <2> QED
    BY <2>1, <2>2, <2>3, <2>4 DEF RegistryIInv
<1>3. ASSUME NEW k \in Keys, FinishPoll(k) PROVE RegistryIInv'
  BY <1>0, <1>3, TypesFinishPoll, KeepFinishPoll DEF RegistryIInv
<1>4. CASE UNCHANGED registryVars
  BY <1>4 DEF registryVars, job, RegistryIInv, RegistryTypeOK, ImportMade, Placed, Knows,
              Shuts, Exists, KeyOf, Url, Behind, Made, Open, Missing, Kept
<1> QED
  BY <1>1, <1>2, <1>3, <1>4 DEF RegistryNext

\* The invariant holds in every state.
LEMMA RegistryInvariance == RegistrySpec => []RegistryIInv
  BY RegistryBegins, RegistryStep, PTL DEF RegistrySpec

(***************************************************************************)
(* Theorems                                                                *)
(***************************************************************************)
\* The table keeps its keys and every job its place.
THEOREM RegistryTypeCorrect == RegistrySpec => []RegistryTypeOK
<1>1. RegistryIInv => RegistryTypeOK
  BY DEF RegistryIInv
<1> QED
  BY <1>1, RegistryInvariance, PTL

\* An import that had the table to itself has reconciled it with its pack, whatever was
\* there before.
THEOREM ImportReconciles == RegistrySpec => []Reconciled
<1>1. RegistryIInv => Reconciled
  <2> SUFFICES ASSUME RegistryIInv, NEW j \in Jobs, step[j] = "record", calm[j], NEW k \in Keys
               PROVE  IF k \in Kept(j)
                      THEN /\ Open(k) /\ ~feeds[k].review /\ feeds[k].version = edition[j]
                           /\ feeds[k].url = doc[j][LastOutline(j, k)]
                      ELSE Exists(k) => feeds[k].version = edition[j] \/ feeds[k].review
    BY DEF Reconciled
  <2>1. /\ RegistryTypeOK /\ Placed(j) /\ Knows(j)
        /\ at[j] > Len(doc[j]) /\ edition[j] # "manual"
    BY DEF RegistryIInv, Placed
  <2>2. Behind(j, k) = {i \in Valid(doc[j]) : Canonical[doc[j][i]] = k}
    BY <2>1 DEF Behind, Valid, RegistryTypeOK
  <2>3. CASE k \in Kept(j)
    <3>1. Behind(j, k) # {}
      BY <2>2, <2>3 DEF Kept
    <3>2. Made(j, k)
      BY <2>1, <3>1 DEF Knows
    <3>3. PICK i \in Behind(j, k) : /\ feeds[k].url = doc[j][i]
                                    /\ \A m \in Behind(j, k) : m <= i
      BY <3>2 DEF Made
    <3>4. Behind(j, k) \subseteq Nat
      BY <2>1 DEF Behind, Valid, RegistryTypeOK
    <3>5. \A n \in Behind(j, k) : (\A m \in Behind(j, k) : m <= n) => n = i
      BY <3>3, <3>4
    <3>6. LastOutline(j, k) = CHOOSE n \in Behind(j, k) : \A m \in Behind(j, k) : m <= n
      BY <2>2 DEF LastOutline
    <3>7. LastOutline(j, k) = i
      BY <3>3, <3>5, <3>6
    <3> QED
      BY <2>3, <3>2, <3>3, <3>7 DEF Made
  <2>4. CASE k \notin Kept(j)
    BY <2>1, <2>4 DEF Knows, Missing
  <2> QED
    BY <2>3, <2>4
<1> QED
  BY <1>1, RegistryInvariance, PTL

\* Every outline of a pack becomes a feed when the two normal forms agree on the addresses
\* there are: it is CanonicalizeURL merging what normalizeFeedURL keeps apart, and nothing
\* else, by which an undisturbed import loses outlines.
THEOREM DistinctOutlinesPolled ==
  ASSUME \A u, w \in Urls : Canonical[u] = Canonical[w] => Identity[u] = Identity[w]
  PROVE  RegistrySpec => []EveryOutlinePolled
<1>1. RegistryIInv => EveryOutlinePolled
  <2> SUFFICES ASSUME RegistryIInv, NEW j \in Jobs, step[j] = "record", calm[j],
                      NEW i \in Valid(doc[j])
               PROVE  \E k \in Keys : Exists(k) /\ feeds[k].url = doc[j][i]
    BY DEF EveryOutlinePolled
  <2>1. /\ RegistryTypeOK /\ Placed(j) /\ Knows(j)
        /\ at[j] > Len(doc[j]) /\ edition[j] # "manual"
    BY DEF RegistryIInv, Placed
  <2>2. /\ doc[j] \in Seq(Urls) /\ Valid(doc[j]) \subseteq DOMAIN doc[j]
        /\ DOMAIN doc[j] = 1 .. Len(doc[j]) /\ Len(doc[j]) \in Nat /\ at[j] \in Nat
        /\ \A m \in DOMAIN doc[j] : doc[j][m] \in Urls
    BY <2>1, LenProperties DEF RegistryTypeOK, Valid
  <2> DEFINE k == Canonical[doc[j][i]]
  <2>3. k \in Keys /\ i \in Behind(j, k)
    BY <2>1, <2>2 DEF Behind, Keys
  <2>4. Made(j, k)
    BY <2>1, <2>3 DEF Knows
  <2>5. PICK m \in Behind(j, k) : feeds[k].url = doc[j][m]
    BY <2>4 DEF Made
  <2>6. m \in Valid(doc[j]) /\ Canonical[doc[j][m]] = Canonical[doc[j][i]]
    BY <2>5 DEF Behind
  <2>7. Identity[doc[j][m]] = Identity[doc[j][i]]
    BY <2>2, <2>6
  \* Parse keeps one outline of each identity.
  <2>8. m = i
    <3>1. m \in Nat /\ i \in Nat /\ m >= 1 /\ i >= 1
      BY <2>2, <2>6
    <3>2. ~(m \in 1 .. i - 1) /\ ~(i \in 1 .. m - 1)
      BY <2>6, <2>7 DEF Valid
    <3> QED
      BY <3>1, <3>2
  <2> QED
    BY <2>3, <2>4, <2>5, <2>8 DEF Made, Open
<1> QED
  BY <1>1, RegistryInvariance, PTL

\* An import that has the table to itself fails on a key only where an editor has
\* created the same feed.
THEOREM ClashesByHand == RegistrySpec => []OnlyHandMadeClash
<1>1. RegistryIInv => OnlyHandMadeClash
  <2> SUFFICES ASSUME RegistryIInv, NEW j \in Jobs, step[j] = "insert",
                      edition[j] # "manual", calm[j], Clashes(j)
               PROVE  \E k \in byHand : feeds[k].id = Identity[Url(j)]
    BY DEF OnlyHandMadeClash
  <2>1. RegistryTypeOK /\ ImportMade /\ Placed(j) /\ Knows(j)
    BY DEF RegistryIInv
  <2>2. ~Exists(KeyOf(j)) /\ Url(j) \in Urls /\ KeyOf(j) = Canonical[Url(j)]
    BY <2>1, OutlineType DEF Knows, Placed, KeyOf
  <2>3. PICK k \in Keys : Exists(k) /\ (k = KeyOf(j) \/ feeds[k].id = Identity[Url(j)])
    BY DEF Clashes
  <2>4. feeds[k].id = Identity[Url(j)] /\ k # KeyOf(j)
    BY <2>2, <2>3
  <2>5. ASSUME NEW u \in Urls, feeds[k].id = Identity[u], Canonical[u] = k PROVE FALSE
    BY <2>2, <2>4, <2>5
  <2> QED
    BY <2>1, <2>3, <2>4, <2>5 DEF ImportMade
<1> QED
  BY <1>1, RegistryInvariance, PTL

\* No step but the second statement of its wave, or a failure, takes a job from there to
\* its rest.
LEMMA WaveEnds ==
  ASSUME RegistryTypeOK, [RegistryNext]_registryVars, NEW j \in Jobs,
         step[j] = "disable", step'[j] = "free", upsets' = upsets
  PROVE  DisableWave(j)
<1>1. ASSUME NEW i \in Jobs, i # j, Request(i) \/ Statement(i) PROVE FALSE
  BY <1>1, RequestApart, StatementApart DEF Apart
<1>2. ~Request(j)
  BY DEF Request, Boot, StartImport, Create, StartWave, Edit, Begin
<1>3. Statement(j) => DisableWave(j)
  BY DEF Statement, Look, Skip, InsertFeed, Clash, UpdateRow, Mark, Record, EnableWave,
         SavePatch, Break, RegistryTypeOK
<1>4. ~UNCHANGED registryVars
  BY DEF registryVars
<1>5. \A k \in Keys : ~FinishPoll(k)
  BY DEF FinishPoll
<1> QED
  BY <1>1, <1>2, <1>3, <1>4, <1>5 DEF RegistryNext

\* A wave that had the table to itself leaves enabled the feeds it contains and no other.
THEOREM WavesAreExact == RegistrySpec => WaveExact
<1>1. RegistryIInv /\ [RegistryNext]_registryVars =>
        [\A j \in Jobs : (step[j] = "disable" /\ step'[j] = "free" /\ calm[j] /\ upsets' = upsets)
           => \A k \in Keys : Exists(k) => (feeds'[k].enabled <=> InWave(wave[j], feeds[k]))]_registryVars
  <2> SUFFICES ASSUME RegistryIInv, [RegistryNext]_registryVars, NEW j \in Jobs,
                      step[j] = "disable", step'[j] = "free", calm[j], upsets' = upsets,
                      NEW k \in Keys, Exists(k)
               PROVE  feeds'[k].enabled <=> InWave(wave[j], feeds[k])
    OBVIOUS
  <2>1. RegistryTypeOK /\ Knows(j) /\ DisableWave(j)
    BY WaveEnds DEF RegistryIInv
  <2>2. feeds[k] \in Feeds /\ wave[j] \in 1 .. 4
    BY <2>1, RowThere DEF RegistryTypeOK
  <2>3. CASE InWave(wave[j], feeds[k])
    <3>1. feeds[k].enabled
      BY <2>1, <2>2, <2>3, WaveQueries DEF Knows
    <3>2. feeds'[k] = feeds[k]
      BY <2>1, <2>2, <2>3, WaveQueries, RowDisabled
    <3> QED
      BY <2>3, <3>1, <3>2
  <2>4. CASE ~InWave(wave[j], feeds[k])
    BY <2>1, <2>2, <2>4, WaveQueries, RowDisabled
  <2> QED
    BY <2>3, <2>4
<1> QED
  BY <1>1, RegistryInvariance, PTL DEF RegistrySpec, WaveExact

\* A feed that was shut opens for a reason.
THEOREM OpensForAReason == RegistrySpec => OpenedWithReason
<1> DEFINE Reason(k) == \E j \in Jobs :
       \/ step[j] \in {"insert", "update"} /\ KeyOf(j) = k
       \/ step[j] = "enable" /\ Exists(k) /\ InWave(wave[j], feeds[k])
       \/ /\ step[j] = "patch" /\ patch[j].key = k
          /\ patch[j].want = "open" \/ (patch[j].want = "keep" /\ ~calm[j])
<1>1. ASSUME RegistryIInv, [RegistryNext]_registryVars, NEW k \in Keys, ~Open(k),
             feeds'[k] # NoFeed, feeds'[k].enabled
      PROVE  Reason(k)
  <2>0. RegistryTypeOK /\ \A j \in Jobs : Placed(j) /\ Knows(j) /\ Shuts(j)
    BY <1>1 DEF RegistryIInv
  <2>1. feeds'[k] # feeds[k]
    BY <1>1 DEF Open, Exists
  <2>2. ASSUME NEW j \in Jobs, Request(j) PROVE FALSE
    BY <2>1, <2>2 DEF Request, Boot, StartImport, Create, StartWave, Edit, Begin
  <2>3. ASSUME NEW c \in Keys, FinishPoll(c) PROVE FALSE
    BY <1>1, <2>0, <2>3, RowPolled DEF Open, Exists
  <2>4. ASSUME NEW j \in Jobs, Statement(j) PROVE Reason(k)
    <3>0. Placed(j) /\ Knows(j) /\ Shuts(j) /\ RegistryTypeOK
      BY <2>0
    <3>1. CASE InsertFeed(j) \/ UpdateRow(j)
      <4>1. k = KeyOf(j)
        BY <2>1, <3>0, <3>1, OutlineWritten
      <4> QED
        BY <3>1, <4>1 DEF InsertFeed, UpdateRow
    <3>2. CASE Mark(j)
      <4>1. CASE Exists(k)
        <5> DEFINE f == feeds[k]
        <5>1. feeds'[k] = Row(f.id, f.url, f.version, f.rank, f.enabled, TRUE, f.parked)
          BY <2>1, <3>2, <4>1 DEF Mark
        <5> QED
          BY <1>1, <4>1, <5>1 DEF Row, Open
      <4>2. CASE ~Exists(k)
        BY <2>1, <3>2, <4>2 DEF Mark, Missing
      <4> QED
        BY <4>1, <4>2
    <3>3. CASE EnableWave(j)
      <4>1. Exists(k)
        BY <2>1, <3>3 DEF EnableWave
      <4>2. EnableQuery(wave[j], feeds[k]) /\ step[j] = "enable"
        BY <2>1, <3>0, <3>3, <4>1, RowEnabled DEF EnableWave
      <4>3. InWave(wave[j], feeds[k])
        BY <3>0, <4>1, <4>2, RowThere, WaveQueries DEF RegistryTypeOK
      <4> QED
        BY <4>1, <4>2, <4>3
    <3>4. CASE DisableWave(j)
      <4>1. Exists(k)
        BY <2>1, <3>4 DEF DisableWave
      <4> QED
        BY <1>1, <2>1, <3>0, <3>4, <4>1, RowDisabled
    <3>5. CASE SavePatch(j)
      <4>1. step[j] = "patch" /\ patch[j] \in Patches /\ Exists(patch[j].key)
        BY <3>0, <3>5 DEF SavePatch, Placed, RegistryTypeOK
      <4>2. k = patch[j].key
        BY <2>1, <3>0, <3>5, <4>1 DEF SavePatch, RegistryTypeOK
      <4>3. patch[j].enabled
        BY <1>1, <3>0, <3>5, <4>1, <4>2, RowPatched
      <4>4. patch[j].want \in {"open", "shut", "keep"}
        BY <4>1 DEF Patches
      <4>5. patch[j].want # "shut"
        BY <3>0, <4>1, <4>3 DEF Shuts
      <4>6. patch[j].want = "keep" => ~calm[j]
        BY <1>1, <3>0, <4>1, <4>2, <4>3 DEF Knows, Open
      <4> QED
        BY <4>1, <4>2, <4>4, <4>5, <4>6
    <3> QED
      BY <2>1, <2>4, <3>1, <3>2, <3>3, <3>4, <3>5
         DEF Statement, Look, Skip, Clash, Record, Break
  <2> HIDE DEF Reason
  <2> QED
    BY <1>1, <2>1, <2>2, <2>3, <2>4 DEF RegistryNext, registryVars
<1>2. RegistryIInv /\ [RegistryNext]_registryVars =>
        [\A k \in Keys : (~Open(k) /\ Open(k)') => Reason(k)]_registryVars
  <2> HIDE DEF Reason
  <2> QED
    BY <1>1 DEF Open, Exists
<1> QED
  BY <1>2, RegistryInvariance, PTL DEF RegistrySpec, OpenedWithReason

\* Only an import or an edit makes a feed that polls in a year an enabled one.
THEOREM SilentFeedsWereReopened == RegistrySpec => SilentByReopening
<1> DEFINE Cause(k) == \E j \in Jobs :
       \/ step[j] = "update" /\ KeyOf(j) = k
       \/ step[j] = "patch" /\ patch[j].key = k
<1>1. ASSUME RegistryIInv, [RegistryNext]_registryVars, NEW k \in Keys, ~Silent(k),
             feeds'[k] # NoFeed, feeds'[k].enabled, feeds'[k].parked
      PROVE  Cause(k)
  <2>0. RegistryTypeOK /\ \A j \in Jobs : Placed(j)
    BY <1>1 DEF RegistryIInv
  <2>1. feeds'[k] # feeds[k]
    BY <1>1 DEF Silent, Open, Exists
  <2>2. ASSUME NEW j \in Jobs, Request(j) PROVE FALSE
    BY <2>1, <2>2 DEF Request, Boot, StartImport, Create, StartWave, Edit, Begin
  <2>3. ASSUME NEW c \in Keys, FinishPoll(c) PROVE FALSE
    BY <1>1, <2>0, <2>1, <2>3, RowPolled
  <2>4. ASSUME NEW j \in Jobs, Statement(j) PROVE Cause(k)
    <3>0. Placed(j) /\ RegistryTypeOK
      BY <2>0
    <3>1. CASE InsertFeed(j) \/ UpdateRow(j)
      <4>1. k = KeyOf(j)
        BY <2>1, <3>0, <3>1, OutlineWritten
      <4>2. ~InsertFeed(j)
        BY <1>1, <3>0, <4>1, OutlineWritten
      <4> QED
        BY <3>1, <4>1, <4>2 DEF UpdateRow
    <3>2. CASE Mark(j)
      <4> DEFINE f == feeds[k]
      <4>1. Exists(k)
        BY <2>1, <3>2 DEF Mark, Missing
      <4>2. feeds'[k] = Row(f.id, f.url, f.version, f.rank, f.enabled, TRUE, f.parked)
        BY <2>1, <3>2, <4>1 DEF Mark
      <4> QED
        BY <1>1, <4>1, <4>2 DEF Row, Silent, Open
    <3>3. CASE EnableWave(j)
      <4>1. Exists(k)
        BY <2>1, <3>3 DEF EnableWave
      <4> QED
        BY <1>1, <2>1, <3>0, <3>3, <4>1, RowEnabled
    <3>4. CASE DisableWave(j)
      <4>1. Exists(k)
        BY <2>1, <3>4 DEF DisableWave
      <4> QED
        BY <1>1, <2>1, <3>0, <3>4, <4>1, RowDisabled
    <3>5. CASE SavePatch(j)
      <4>1. k = patch[j].key
        BY <2>1, <3>0, <3>5 DEF SavePatch, Placed, RegistryTypeOK
      <4> QED
        BY <3>5, <4>1 DEF SavePatch
    <3> QED
      BY <2>1, <2>4, <3>1, <3>2, <3>3, <3>4, <3>5
         DEF Statement, Look, Skip, Clash, Record, Break
  <2> HIDE DEF Cause
  <2> QED
    BY <1>1, <2>1, <2>2, <2>3, <2>4 DEF RegistryNext, registryVars
<1>2. RegistryIInv /\ [RegistryNext]_registryVars =>
        [\A k \in Keys : (~Silent(k) /\ Silent(k)') => Cause(k)]_registryVars
  <2> HIDE DEF Cause
  <2> QED
    BY <1>1 DEF Silent, Open, Exists
<1> QED
  BY <1>2, RegistryInvariance, PTL DEF RegistrySpec, SilentByReopening

(***************************************************************************)
(* Starts of the API alone                                                 *)
(***************************************************************************)
\* While starts of the API are all that has happened, every job is one: it imports the
\* bundled pack, and its wave is the configured one.
Startlike(j) == step[j] # "free" =>
  /\ booting[j] /\ edition[j] = Bundled /\ step[j] # "patch"
  /\ step[j] \in {"enable", "disable"} => wave[j] = Clamp(BootWave)

\* A feed that the second statement of the wave would shut, and a job that will come to
\* that statement.
Astray(k) == Open(k) /\ ~InWave(Clamp(BootWave), feeds[k])
Sweeps(j) == step[j] # "free" /\ (step[j] = "insert" => ~Clashes(j))

\* As long as a feed is astray somebody will still sweep: whoever opened it, for an INSERT
\* that fails is always another's.
StartsAlone == ~meddled =>
  /\ byHand = {} /\ \A j \in Jobs : Startlike(j)
  /\ \A k \in Keys : Astray(k) => \E j \in Jobs : Sweeps(j)

\* An editor or a failure has already been there, or comes with this request.
LEMMA StartsRequest ==
  ASSUME RegistryIInv, StartsAlone, NEW j \in Jobs, Request(j)
  PROVE  StartsAlone'
<1>0. RegistryTypeOK
  BY DEF RegistryIInv
<1>1. ASSUME ~meddled' PROVE Boot(j) /\ ~meddled
  <2>1. Boot(j)
    BY <1>1, Zenon DEF Request, StartImport, Create, StartWave, Edit
  <2> QED
    BY <1>1, <2>1 DEF Boot
<1>2. CASE meddled'
  BY <1>2 DEF StartsAlone
<1>3. CASE ~meddled'
  <2>1. Boot(j) /\ ~meddled
    BY <1>1, <1>3
  <2>2. step'[j] = "look" /\ booting'[j] /\ edition'[j] = Bundled
    BY <1>0, <2>1 DEF Boot, Begin, Move, Read, RegistryTypeOK
  <2>3. Startlike(j)' /\ Sweeps(j)'
    BY <2>2 DEF Startlike, Sweeps
  <2>4. ASSUME NEW i \in Jobs, i # j PROVE Startlike(i)'
    <3>1. /\ step'[i] = step[i] /\ booting'[i] = booting[i] /\ edition'[i] = edition[i]
          /\ wave'[i] = wave[i]
      BY <1>0, <2>1, <2>4 DEF Boot, Begin, Move, Read, RegistryTypeOK
    <3> QED
      BY <2>1, <3>1 DEF StartsAlone, Startlike
  <2>5. byHand' = {}
    BY <2>1 DEF Boot, Begin, StartsAlone
  <2> QED
    BY <2>3, <2>4, <2>5 DEF StartsAlone
<1> QED
  BY <1>2, <1>3

\* A start that has looked for its outline in vain can insert it: a row with its identity
\* would be where the import of that outline puts it.
LEMMA LookFindsRoom ==
  ASSUME RegistryIInv, StartsAlone, ~meddled, NEW j \in Jobs, Look(j)
  PROVE  Sweeps(j)'
<1>1. RegistryTypeOK /\ ImportMade /\ byHand = {} /\ Startlike(j) /\ step[j] = "look"
  BY DEF RegistryIInv, StartsAlone, Look
<1>2. at[j] \in Valid(doc[j]) /\ edition[j] # "manual"
  BY <1>1 DEF Look, Startlike
<1>3. Url(j) \in Urls /\ KeyOf(j) = Canonical[Url(j)] /\ KeyOf(j) \in Keys
  BY <1>1, <1>2, OutlineType DEF KeyOf
<1>4. feeds' = feeds /\ KeyOf(j)' = KeyOf(j) /\ Url(j)' = Url(j)
  BY DEF Look, job, KeyOf, Url
<1>5. CASE Exists(KeyOf(j))
  <2>1. step'[j] = "update"
    BY <1>1, <1>5 DEF Look, Move, RegistryTypeOK
  <2> QED
    BY <2>1 DEF Sweeps
<1>6. CASE ~Exists(KeyOf(j))
  <2>1. step'[j] = "insert"
    BY <1>1, <1>6 DEF Look, Move, RegistryTypeOK
  <2>2. ASSUME NEW k \in Keys, Exists(k), k = KeyOf(j) \/ feeds[k].id = Identity[Url(j)]
        PROVE  FALSE
    <3>1. feeds[k].id = Identity[Url(j)] /\ k # KeyOf(j)
      BY <1>6, <2>2
    <3>2. PICK u \in Urls : feeds[k].id = Identity[u] /\ Canonical[u] = k
      BY <1>1, <2>2 DEF ImportMade
    <3> QED
      BY <1>3, <3>1, <3>2
  <2>3. ~Clashes(j)'
    BY <1>4, <2>2 DEF Clashes, Exists
  <2> QED
    BY <2>1, <2>3 DEF Sweeps
<1> QED
  BY <1>5, <1>6

\* A statement of a start leaves it a start; and it sweeps on, unless it just has, or its
\* INSERT has failed.
LEMMA OwnStart ==
  ASSUME RegistryIInv, StartsAlone, ~meddled, ~meddled', NEW j \in Jobs, Statement(j)
  PROVE  /\ Startlike(j)' /\ byHand' = {}
         /\ Sweeps(j)' \/ DisableWave(j) \/ Clash(j)
<1>0. /\ RegistryTypeOK /\ byHand = {} /\ Startlike(j)
      /\ (step[j] # "free" => booting[j] /\ edition[j] # "manual" /\ edition[j] = Bundled)
  BY DEF RegistryIInv, StartsAlone, Startlike
<1>1. CASE Look(j)
  <2>1. step'[j] \in {"update", "insert"} /\ step[j] = "look"
    BY <1>0, <1>1 DEF Look, Move, RegistryTypeOK
  <2>2. Startlike(j)' /\ byHand' = {}
    BY <1>0, <1>1, <2>1 DEF Look, Startlike, job
  <2> QED
    BY <1>1, <2>2, LookFindsRoom
<1>2. CASE Skip(j)
  <2>1. step' = step /\ step[j] = "look"
    BY <1>2 DEF Skip
  <2> QED
    BY <1>0, <1>2, <2>1 DEF Skip, Startlike, Sweeps
<1>3. CASE InsertFeed(j) \/ UpdateRow(j)
  <2>1. step[j] # "free" /\ byHand' = {} /\ NextOutline(j)
    BY <1>0, <1>3 DEF InsertFeed, UpdateRow
  <2>2. step'[j] = "look" /\ edition' = edition /\ booting' = booting
    BY <1>0, <2>1 DEF NextOutline, Move, RegistryTypeOK
  <2> QED
    BY <1>0, <2>1, <2>2 DEF Startlike, Sweeps
<1>4. CASE Clash(j)
  <2>1. step'[j] = "free" /\ byHand' = {}
    BY <1>0, <1>4 DEF Clash, Rest, Move, RegistryTypeOK
  <2> QED
    BY <1>4, <2>1 DEF Startlike
<1>5. CASE Mark(j)
  <2>1. step'[j] = "record" /\ edition' = edition /\ booting' = booting /\ step[j] # "free"
    BY <1>0, <1>5 DEF Mark, Move, RegistryTypeOK, job
  <2> QED
    BY <1>0, <1>5, <2>1 DEF Mark, Startlike, Sweeps
<1>6. CASE Record(j)
  <2>1. step[j] # "free" /\ booting[j]
    BY <1>0, <1>6 DEF Record
  <2>2. /\ step'[j] = "enable" /\ wave'[j] = Clamp(BootWave)
        /\ edition' = edition /\ booting' = booting
    BY <1>0, <1>6, <2>1 DEF Record, Move, RegistryTypeOK
  <2> QED
    BY <1>0, <1>6, <2>1, <2>2 DEF Record, Startlike, Sweeps
<1>7. CASE EnableWave(j)
  <2>1. /\ step'[j] = "disable" /\ step[j] = "enable" /\ wave' = wave
        /\ edition' = edition /\ booting' = booting /\ byHand' = byHand
    BY <1>0, <1>7 DEF EnableWave, Move, RegistryTypeOK, job
  <2> QED
    BY <1>0, <2>1 DEF Startlike, Sweeps
<1>8. CASE DisableWave(j)
  <2>1. step'[j] = "free" /\ byHand' = {}
    BY <1>0, <1>8 DEF DisableWave, Rest, Move, RegistryTypeOK
  <2> QED
    BY <1>8, <2>1 DEF Startlike
<1>9. ~SavePatch(j) /\ ~Break(j)
  BY <1>0 DEF SavePatch, Break, Startlike
<1> QED
  BY <1>1, <1>2, <1>3, <1>4, <1>5, <1>6, <1>7, <1>8, <1>9 DEF Statement

\* No statement of one start changes the kind of another.
LEMMA OtherStart ==
  ASSUME RegistryTypeOK, NEW j \in Jobs, Statement(j), NEW i \in Jobs, i # j
  PROVE  booting'[i] = booting[i]
<1>1. Rest(j) \/ booting' = booting => booting'[i] = booting[i]
  BY DEF Rest, RegistryTypeOK
<1> QED
  BY <1>1 DEF Statement, Look, Skip, InsertFeed, Clash, UpdateRow, Mark, Record, EnableWave,
              DisableWave, SavePatch, Break, NextOutline, job

\* After the second statement of the configured wave nothing is astray.
LEMMA Swept ==
  ASSUME RegistryTypeOK, NEW j \in Jobs, DisableWave(j), wave[j] = Clamp(BootWave),
         NEW k \in Keys
  PROVE  ~Astray(k)'
<1>1. CASE Exists(k)
  <2>1. feeds[k] \in Feeds /\ Clamp(BootWave) \in 1 .. 4
    BY <1>1, RowThere DEF Clamp
  <2>2. DisableQuery(wave[j], feeds[k]) <=> ~InWave(Clamp(BootWave), feeds[k])
    BY <2>1, WaveQueries
  <2>3. CASE DisableQuery(wave[j], feeds[k])
    BY <1>1, <2>3, RowDisabled DEF Astray, Open
  <2>4. CASE ~DisableQuery(wave[j], feeds[k])
    <3>1. feeds'[k] = feeds[k]
      BY <1>1, <2>4, RowDisabled
    <3>2. InWave(Clamp(BootWave), feeds'[k])
      BY <2>2, <2>4, <3>1
    <3> QED
      BY <3>2 DEF Astray
  <2> QED
    BY <2>3, <2>4
<1>2. CASE ~Exists(k)
  <2>1. feeds'[k] = feeds[k]
    BY <1>2 DEF DisableWave
  <2> QED
    BY <1>2, <2>1 DEF Astray, Open, Exists
<1> QED
  BY <1>1, <1>2

\* A statement of a start keeps what starts alone keep.
LEMMA StartsStatement ==
  ASSUME RegistryIInv, StartsAlone, NEW j \in Jobs, Statement(j)
  PROVE  StartsAlone'
<1>0. RegistryTypeOK
  BY DEF RegistryIInv
<1>1. CASE meddled'
  BY <1>1 DEF StartsAlone
<1>2. CASE ~meddled'
  <2>1. ~meddled
    BY <1>2 DEF Statement, Look, Skip, InsertFeed, Clash, UpdateRow, Mark, Record,
                EnableWave, DisableWave, SavePatch, Break, Written
  <2>2. /\ Startlike(j)' /\ byHand' = {}
        /\ Sweeps(j)' \/ DisableWave(j) \/ Clash(j)
    BY <1>2, <2>1, OwnStart
  <2>3. ASSUME NEW i \in Jobs, i # j PROVE Startlike(i)'
    <3>1. Apart(i) /\ booting'[i] = booting[i]
      BY <1>0, <2>3, StatementApart, OtherStart
    <3> QED
      BY <2>1, <3>1 DEF StartsAlone, Startlike, Apart
  <2>4. ASSUME NEW k \in Keys, Astray(k)' PROVE \E i \in Jobs : Sweeps(i)'
    <3>1. CASE Sweeps(j)'
      BY <3>1
    <3>2. CASE DisableWave(j)
      <4>1. wave[j] = Clamp(BootWave)
        BY <2>1, <3>2 DEF StartsAlone, Startlike, DisableWave
      <4> QED
        BY <1>0, <2>4, <3>2, <4>1, Swept
    <3>3. CASE Clash(j)
      <4>1. feeds' = feeds
        BY <3>3 DEF Clash
      <4>2. Astray(k)
        BY <2>4, <4>1 DEF Astray, Open, Exists
      <4>3. PICK i \in Jobs : Sweeps(i)
        BY <2>1, <4>2 DEF StartsAlone
      <4>4. i # j
        BY <3>3, <4>3 DEF Sweeps, Clash
      <4>5. Apart(i)
        BY <1>0, <4>4, StatementApart
      <4>6. Sweeps(i)'
        BY <4>1, <4>3, <4>5 DEF Sweeps, Apart, Clashes, Exists, KeyOf, Url
      <4> QED
        BY <4>6
    <3> QED
      BY <2>2, <3>1, <3>2, <3>3
  <2> QED
    BY <2>2, <2>3, <2>4 DEF StartsAlone
<1> QED
  BY <1>1, <1>2

\* The end of a poll opens nothing and makes no row.
LEMMA StartsFinishPoll ==
  ASSUME RegistryIInv, StartsAlone, NEW c \in Keys, FinishPoll(c)
  PROVE  StartsAlone'
<1>0. RegistryTypeOK
  BY DEF RegistryIInv
<1>1. UNCHANGED <<step, edition, doc, at, booting, wave, byHand, meddled>>
  BY DEF FinishPoll, job
<1>2. ASSUME NEW k \in Keys
      PROVE  /\ feeds'[k] # NoFeed <=> Exists(k)
             /\ Exists(k) => /\ feeds'[k].id = feeds[k].id /\ feeds'[k].url = feeds[k].url
                             /\ feeds'[k].rank = feeds[k].rank
                             /\ feeds'[k].enabled = feeds[k].enabled
  <2> DEFINE f == feeds[c]
             g == Row(f.id, f.url, f.version, f.rank, f.enabled, f.review, FALSE)
  <2>1. Exists(c) /\ feeds' = [feeds EXCEPT ![c] = g]
    BY DEF FinishPoll
  <2>2. g \in Feeds
    BY <1>0, <2>1, RowThere, RowType
  <2>3. /\ g.id = f.id /\ g.url = f.url /\ g.rank = f.rank /\ g.enabled = f.enabled
    BY DEF Row
  <2>4. g # NoFeed
    BY <2>2
  <2> HIDE DEF g
  <2>5. CASE k = c
    <3>1. feeds'[k] = g
      BY <1>0, <2>1, <2>5 DEF RegistryTypeOK
    <3> QED
      BY <2>1, <2>3, <2>4, <2>5, <3>1
  <2>6. CASE k # c
    <3>1. feeds'[k] = feeds[k]
      BY <1>0, <2>1, <2>6 DEF RegistryTypeOK
    <3> QED
      BY <3>1 DEF Exists
  <2> QED
    BY <2>5, <2>6
<1>3. \A j \in Jobs : Startlike(j) => Startlike(j)'
  BY <1>1 DEF Startlike
<1>4. ASSUME NEW j \in Jobs, Sweeps(j) PROVE Sweeps(j)'
  <2>1. KeyOf(j)' = KeyOf(j) /\ Url(j)' = Url(j)
    BY <1>1 DEF KeyOf, Url
  <2>2. Clashes(j)' => Clashes(j)
    BY <1>2, <2>1 DEF Clashes, Exists
  <2> QED
    BY <1>1, <1>4, <2>2 DEF Sweeps
<1>5. ASSUME NEW k \in Keys, Astray(k)' PROVE Astray(k)
  BY <1>2, <1>5 DEF Astray, Open, Exists, InWave
<1> QED
  BY <1>1, <1>3, <1>4, <1>5 DEF StartsAlone

\* "Production activation is selective, never the whole catalog": when starts of the API
\* are all that has happened, however many at a time, and none is still at work, no feed
\* outside the configured wave is enabled.
THEOREM StartsAreSelective == RegistrySpec => []SelectiveAfterBoot
<1>1. RegistryInit => StartsAlone
  BY DEF RegistryInit, StartsAlone, Startlike, Astray, Open, Exists
<1>2. RegistryIInv /\ StartsAlone /\ [RegistryNext]_registryVars => StartsAlone'
  <2> SUFFICES ASSUME RegistryIInv, StartsAlone, [RegistryNext]_registryVars
               PROVE  StartsAlone'
    OBVIOUS
  <2>1. CASE UNCHANGED registryVars
    BY <2>1 DEF registryVars, job, StartsAlone, Startlike, Astray, Sweeps, Clashes, Open,
                Exists, KeyOf, Url
  <2> QED
    BY <2>1, StartsRequest, StartsStatement, StartsFinishPoll DEF RegistryNext
<1>3. StartsAlone => SelectiveAfterBoot
  BY DEF StartsAlone, SelectiveAfterBoot, Astray, Sweeps
<1> QED
  BY <1>1, <1>2, <1>3, RegistryInvariance, PTL DEF RegistrySpec
=============================================================================
