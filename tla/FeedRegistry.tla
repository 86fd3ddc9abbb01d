---------------------------- MODULE FeedRegistry ----------------------------
(***************************************************************************)
(* The table `feeds` as imports of a feed pack, rollout waves and editors  *)
(* write it (backend/internal/store/imports.go, feeds.go, activation.go,   *)
(* the handlers of backend/internal/httpapi/admin.go and the bootstrap in  *)
(* backend/cmd/api/main.go).                                               *)
(*                                                                         *)
(* None of these requests is a transaction: each of its statements is a    *)
(* step.  An address of a feed has three normal forms in the code, and     *)
(* they are what decides which row a request finds.  A dry run changes     *)
(* nothing here, and neither do the rows of `sources` and of               *)
(* `feed_pack_imports`, which nothing of the below reads.                  *)
(***************************************************************************)
EXTENDS Integers, FiniteSets, Sequences

CONSTANTS
  Urls,        \* addresses of feeds, as packs and editors spell them
  Identity,    \* what normalizeFeedURL of the pack's parser makes of one: the id
  Canonical,   \* what CanonicalizeURL makes of one: normalized_xml_url of an import
  Spelling,    \* what the create handler stores as normalized_xml_url: lower case only
  Rejected,    \* addresses validateOutline refuses
  Kind,        \* source type: "core" for the six direct and official ones, "topic",
               \* "search", "unknown"
  Rank,        \* priority: "high" from 3 on, or "low"
  Packs,       \* [versions -> Seq(Urls)], the outlines of each pack in their order
  Bundled,     \* the version that comes with the program
  BootWave,    \* ACTIVATION_WAVE
  NoFeed,      \* no row, no edit
  Jobs,        \* requests and starting processes at work at a time
  MaxRequests, \* bound: requests and starts in a behaviour
  MaxUpsets    \* bound: failed statements and crashes in a behaviour

Versions == DOMAIN Packs
Editions == Versions \cup {"manual"}
Ranks    == {"low", "high"}
Keys     == {Canonical[u] : u \in Urls} \cup {Spelling[u] : u \in Urls}
Ids      == {Identity[u] : u \in Urls}

\* A row: its primary key, xml_url, feed_pack_version, priority, the flags enabled and
\* needs_review, and whether next_poll_at lies a year ahead.
Feeds == [id : Ids, url : Urls, version : Editions, rank : Ranks,
          enabled : BOOLEAN, review : BOOLEAN, parked : BOOLEAN]

\* An edit that is under way: the row, what the body says of `enabled`, and what the
\* UPDATE will write.
Patches == [key : Keys, want : {"open", "shut", "keep"}, enabled : BOOLEAN, rank : Ranks]

\* CanonicalizeURL forgets all that normalizeFeedURL forgets (and the scheme and most
\* queries). So it does for addresses as packs have them: with paths in normal form and
\* without utm_ parameters that trackingParams lacks.
ASSUME RegistryAssumption ==
  /\ Identity \in [Urls -> Ids] /\ Canonical \in [Urls -> Keys] /\ Spelling \in [Urls -> Keys]
  /\ \A u, w \in Urls : Identity[u] = Identity[w] => Canonical[u] = Canonical[w]
  /\ Kind \in [Urls -> {"core", "topic", "search", "unknown"}] /\ Rank \in [Urls -> Ranks]
  /\ Packs \in [Versions -> Seq(Urls)] /\ Bundled \in Versions /\ "manual" \notin Versions
  /\ BootWave \in Int /\ NoFeed \notin Feeds /\ NoFeed \notin Patches
  /\ MaxRequests \in Nat /\ MaxUpsets \in Nat

VARIABLES
  feeds,      \* [Keys -> a row or NoFeed]: normalized_xml_url is unique
  \* a job: where it is, the version it writes, its outlines and the one it is at,
  \* whether a start of the API runs it, the wave it applies, its edit
  step, edition, doc, at, booting, wave, patch,
  calm,       \* history, by job: nobody else has written the table since it began
  byHand,     \* history: the keys of rows that the create handler inserted
  meddled,    \* history: something other than starts of the API has happened
  requests, upsets

job          == <<edition, doc, at, booting, wave, patch>>
registryVars == <<feeds, step, job, calm, byHand, meddled, requests, upsets>>

\* No job; before the SELECTs of the next outline, or, after the last, before the flags
\* of missing feeds; before an INSERT; before an UPDATE; before the row of the import;
\* before the two statements of a wave; before the UPDATE of an edit.
JobSteps == {"free", "look", "insert", "update", "record", "enable", "disable", "patch"}

RegistryTypeOK ==
  /\ feeds \in [Keys -> Feeds \cup {NoFeed}]
  /\ step \in [Jobs -> JobSteps] /\ edition \in [Jobs -> Editions]
  /\ doc \in [Jobs -> Seq(Urls)] /\ at \in [Jobs -> Nat \ {0}]
  /\ booting \in [Jobs -> BOOLEAN] /\ wave \in [Jobs -> 1 .. 4]
  /\ patch \in [Jobs -> Patches \cup {NoFeed}]
  /\ calm \in [Jobs -> BOOLEAN] /\ byHand \subseteq Keys /\ meddled \in BOOLEAN
  /\ requests \in Nat /\ upsets \in Nat

Exists(k) == feeds[k] # NoFeed
Open(k)   == Exists(k) /\ feeds[k].enabled
\* Enabled, and not due for a year.
Silent(k) == Open(k) /\ feeds[k].parked

Row(i, u, v, r, e, n, p) == [id |-> i, url |-> u, version |-> v, rank |-> r,
                             enabled |-> e, review |-> n, parked |-> p]

\* Parse: the places of the outlines that are well formed and do not repeat the identity
\* of a well-formed one before them.
Valid(d) == {i \in DOMAIN d : /\ d[i] \notin Rejected
                              /\ \A m \in 1 .. i - 1 : d[m] \notin Rejected
                                                       => Identity[d[m]] # Identity[d[i]]}

\* The outline a job is at, the key of its row, and the keys of the whole pack.
Url(j)   == doc[j][at[j]]
KeyOf(j) == IF edition[j] = "manual" THEN Spelling[Url(j)] ELSE Canonical[Url(j)]
Kept(j)  == {Canonical[doc[j][i]] : i \in Valid(doc[j])}

(***************************************************************************)
(* Rollout waves                                                           *)
(***************************************************************************)
Clamp(w) == IF w < 1 THEN 1 ELSE IF w > 4 THEN 4 ELSE w

\* The source types in the IN clause of a wave.
ToEnable(w) ==
  {"core"} \cup (IF w > 1 THEN {"topic"} ELSE {}) \cup (IF w = 4 THEN {"search"} ELSE {})

EnableQueryAnyRank(w, f) ==
  Kind[f.url] \in ToEnable(w) \/ (w = 3 /\ Kind[f.url] = "search")

\* The WHERE clauses of its two statements, without that on `enabled`.
EnableQuery(w, f) ==
  \/ Kind[f.url] \in ToEnable(w)
  \/ w = 3 /\ Kind[f.url] = "search" /\ f.rank = "high"

DisableQueryAllTypes(w, f) == Kind[f.url] \notin ToEnable(w)
DisableQuery(w, f) ==
  IF w = 4 THEN Kind[f.url] = "unknown"
  ELSE Kind[f.url] \notin ToEnable(w) /\ (w = 3 => f.rank = "low" \/ Kind[f.url] # "search")

\* What the comments on ActivationWave say a wave contains: direct and official feeds,
\* then topics, then searches of a high priority, then the long tail.
InWave(w, f) ==
  \/ Kind[f.url] = "core"
  \/ w >= 2 /\ Kind[f.url] = "topic"
  \/ w >= 3 /\ Kind[f.url] = "search" /\ (w = 4 \/ f.rank = "high")

(***************************************************************************)
(* Jobs begin and end                                                      *)
(***************************************************************************)
RegistryInit ==
  /\ feeds = [k \in Keys |-> NoFeed]
  /\ step = [j \in Jobs |-> "free"] /\ edition = [j \in Jobs |-> "manual"]
  /\ doc = [j \in Jobs |-> << >>] /\ at = [j \in Jobs |-> 1]
  /\ booting = [j \in Jobs |-> FALSE] /\ wave = [j \in Jobs |-> 1]
  /\ patch = [j \in Jobs |-> NoFeed] /\ calm = [j \in Jobs |-> TRUE]
  /\ byHand = {} /\ meddled = FALSE
  /\ requests = MaxRequests /\ upsets = MaxUpsets

Move(j, to) == step' = [step EXCEPT ![j] = to]

Begin(j, to) ==
  /\ requests > 0 /\ requests' = requests - 1
  /\ step[j] = "free" /\ Move(j, to)
  /\ calm' = [calm EXCEPT ![j] = TRUE]
  /\ UNCHANGED <<feeds, byHand, upsets>>

\* The handler has answered, the start has gone on, or either has failed.
Rest(j) ==
  /\ Move(j, "free")
  /\ edition' = [edition EXCEPT ![j] = "manual"] /\ doc' = [doc EXCEPT ![j] = << >>]
  /\ at' = [at EXCEPT ![j] = 1] /\ booting' = [booting EXCEPT ![j] = FALSE]
  /\ wave' = [wave EXCEPT ![j] = 1] /\ patch' = [patch EXCEPT ![j] = NoFeed]

Read(j, v, d) ==
  /\ edition' = [edition EXCEPT ![j] = v] /\ doc' = [doc EXCEPT ![j] = d]
  /\ UNCHANGED <<at, wave, patch>>

\* handleAdminImport, with commit.
StartImport(j, v) ==
  /\ Begin(j, "look") /\ Read(j, v, Packs[v])
  /\ meddled' = TRUE /\ UNCHANGED booting

\* A start of the API imports the bundled pack when no feed is enabled.
Boot(j) ==
  /\ Begin(j, "look") /\ Read(j, Bundled, Packs[Bundled])
  /\ \A k \in Keys : ~Open(k)
  /\ booting' = [booting EXCEPT ![j] = TRUE] /\ UNCHANGED meddled

\* handleAdminCreateFeed: a pack of one outline.
Create(j, u) ==
  /\ u \notin Rejected
  /\ Begin(j, "look") /\ Read(j, "manual", <<u>>)
  /\ meddled' = TRUE /\ UNCHANGED booting

\* handleAdminActivateWave.
StartWave(j, w) ==
  /\ Begin(j, "enable") /\ wave' = [wave EXCEPT ![j] = w]
  /\ meddled' = TRUE /\ UNCHANGED <<edition, doc, at, booting, patch>>

\* handleAdminUpdateFeed reads the row and decides what its UPDATE will say.
Edit(j, k, want, rank) ==
  /\ Exists(k)
  /\ Begin(j, "patch")
  /\ patch' = [patch EXCEPT ![j] =
       [key |-> k, want |-> want, rank |-> rank,
        enabled |-> IF want = "keep" THEN feeds[k].enabled ELSE want = "open"]]
  /\ meddled' = TRUE /\ UNCHANGED <<edition, doc, at, booting, wave>>

(***************************************************************************)
(* Statements                                                              *)
(***************************************************************************)
\* The table changes: whoever else is at work is no longer alone.
Written(j) ==
  /\ calm' = [i \in Jobs |-> IF i = j THEN calm[j] ELSE FALSE]
  /\ UNCHANGED <<meddled, requests, upsets>>

LookInVersion(j) ==
  /\ step[j] = "look" /\ at[j] \in Valid(doc[j])
  /\ Move(j, IF Exists(KeyOf(j)) /\ feeds[KeyOf(j)].version = edition[j]
             THEN "update" ELSE "insert")
  /\ UNCHANGED <<feeds, job, calm, byHand, meddled, requests, upsets>>

\* FeedByNormalizedURL, UpsertSource, SELECT COUNT.
Look(j) ==
  /\ step[j] = "look" /\ at[j] \in Valid(doc[j])
  /\ Move(j, IF Exists(KeyOf(j)) THEN "update" ELSE "insert")
  /\ UNCHANGED <<feeds, job, calm, byHand, meddled, requests, upsets>>

\* What ValidFeeds leaves out.
Skip(j) ==
  /\ step[j] = "look" /\ at[j] \in DOMAIN doc[j] \ Valid(doc[j])
  /\ at' = [at EXCEPT ![j] = @ + 1]
  /\ UNCHANGED <<feeds, step, edition, doc, booting, wave, patch, calm, byHand, meddled,
                 requests, upsets>>

\* An outline is written: the next one. The create handler has but one.
NextOutline(j) ==
  IF edition[j] = "manual" THEN Rest(j)
  ELSE /\ Move(j, "look") /\ at' = [at EXCEPT ![j] = @ + 1]
       /\ UNCHANGED <<edition, doc, booting, wave, patch>>

\* The priority of an outline; the create handler takes any from its body.
RanksOf(j) == IF edition[j] = "manual" THEN Ranks ELSE {Rank[Url(j)]}

\* A row with this id, or meanwhile one with this key.
Clashes(j) == \E k \in Keys : Exists(k) /\ (k = KeyOf(j) \/ feeds[k].id = Identity[Url(j)])

InsertFeed(j) ==
  /\ step[j] = "insert" /\ ~Clashes(j)
  /\ \E r \in RanksOf(j) : feeds' = [feeds EXCEPT ![KeyOf(j)] =
       Row(Identity[Url(j)], Url(j), edition[j], r, TRUE, FALSE, FALSE)]
  /\ byHand' = IF edition[j] = "manual" THEN byHand \cup {KeyOf(j)} ELSE byHand
  /\ NextOutline(j) /\ Written(j)

\* The INSERT violates a key: the handler answers 500, the rest of the pack is left.
Clash(j) ==
  /\ step[j] = "insert" /\ Clashes(j)
  /\ Rest(j)
  /\ UNCHANGED <<feeds, calm, byHand, meddled, requests, upsets>>

UpdateRowShut(j) ==
  /\ step[j] = "update"
  /\ LET f == feeds[KeyOf(j)] IN \E r \in RanksOf(j) : feeds' = [feeds EXCEPT ![KeyOf(j)] =
       Row(f.id, Url(j), edition[j], r, f.enabled, FALSE, f.parked)]
  /\ NextOutline(j) /\ Written(j) /\ UNCHANGED byHand

\* The row keeps its id and its next_poll_at.
UpdateRow(j) ==
  /\ step[j] = "update"
  /\ LET f == feeds[KeyOf(j)] IN \E r \in RanksOf(j) : feeds' = [feeds EXCEPT ![KeyOf(j)] =
       Row(f.id, Url(j), edition[j], r, TRUE, FALSE, f.parked)]
  /\ NextOutline(j) /\ Written(j) /\ UNCHANGED byHand

\* MarkFeedsMissingFromPack.
Missing(j, k) == Exists(k) /\ feeds[k].version # edition[j] /\ k \notin Kept(j)

Mark(j) ==
  /\ step[j] = "look" /\ at[j] > Len(doc[j])
  /\ feeds' = [k \in Keys |-> LET f == feeds[k] IN IF Missing(j, k)
       THEN Row(f.id, f.url, f.version, f.rank, f.enabled, TRUE, f.parked) ELSE f]
  /\ Move(j, "record") /\ Written(j)
  /\ UNCHANGED <<job, byHand>>

RecordOnly(j) ==
  /\ step[j] = "record"
  /\ Rest(j)
  /\ UNCHANGED <<feeds, calm, byHand, meddled, requests, upsets>>

\* The row in feed_pack_imports. A start goes on with its wave.
Record(j) ==
  /\ step[j] = "record"
  /\ IF booting[j]
     THEN /\ Move(j, "enable") /\ wave' = [wave EXCEPT ![j] = Clamp(BootWave)]
          /\ UNCHANGED <<edition, doc, at, booting, patch>>
     ELSE Rest(j)
  /\ UNCHANGED <<feeds, calm, byHand, meddled, requests, upsets>>

EnableWaveParked(j) ==
  /\ step[j] = "enable"
  /\ feeds' = [k \in Keys |-> LET f == feeds[k] IN
       IF Exists(k) /\ ~f.enabled /\ EnableQuery(wave[j], f)
       THEN Row(f.id, f.url, f.version, f.rank, TRUE, f.review, f.parked) ELSE f]
  /\ Move(j, "disable") /\ Written(j)
  /\ UNCHANGED <<job, byHand>>

\* The two statements of ApplyActivationWave. next_poll_at of a row is never NULL.
EnableWave(j) ==
  /\ step[j] = "enable"
  /\ feeds' = [k \in Keys |-> LET f == feeds[k] IN
       IF Exists(k) /\ ~f.enabled /\ EnableQuery(wave[j], f)
       THEN Row(f.id, f.url, f.version, f.rank, TRUE, f.review, FALSE) ELSE f]
  /\ Move(j, "disable") /\ Written(j)
  /\ UNCHANGED <<job, byHand>>

DisableWave(j) ==
  /\ step[j] = "disable"
  /\ feeds' = [k \in Keys |-> LET f == feeds[k] IN
       IF Exists(k) /\ f.enabled /\ DisableQuery(wave[j], f)
       THEN Row(f.id, f.url, f.version, f.rank, FALSE, f.review, TRUE) ELSE f]
  /\ Rest(j) /\ Written(j)
  /\ UNCHANGED byHand

\* UpdateFeedAdmin.
SavePatch(j) ==
  /\ step[j] = "patch"
  /\ LET p == patch[j]
         f == feeds[p.key] IN feeds' = [feeds EXCEPT ![p.key] =
       Row(f.id, f.url, f.version, p.rank, p.enabled, FALSE, f.parked)]
  /\ Rest(j) /\ Written(j)
  /\ UNCHANGED byHand

\* A statement fails, the client is gone, or the process dies.
Break(j) ==
  /\ upsets > 0 /\ upsets' = upsets - 1
  /\ step[j] # "free" /\ Rest(j)
  /\ meddled' = TRUE
  /\ UNCHANGED <<feeds, calm, byHand, requests>>

\* The worker ends a poll that began before the feed was put a year ahead.
FinishPoll(k) ==
  /\ Exists(k) /\ feeds[k].parked
  /\ LET f == feeds[k] IN feeds' = [feeds EXCEPT ![k] =
       Row(f.id, f.url, f.version, f.rank, f.enabled, f.review, FALSE)]
  /\ UNCHANGED <<step, job, calm, byHand, meddled, requests, upsets>>

(***************************************************************************)
(* Specification                                                           *)
(***************************************************************************)
Request(j) ==
  \/ Boot(j)
  \/ \E v \in Versions : StartImport(j, v)
  \/ \E u \in Urls : Create(j, u)
  \/ \E w \in 1 .. 4 : StartWave(j, w)
  \/ \E k \in Keys, want \in {"open", "shut", "keep"}, r \in Ranks : Edit(j, k, want, r)

Statement(j) ==
  \/ Look(j) \/ Skip(j) \/ InsertFeed(j) \/ Clash(j) \/ UpdateRow(j) \/ Mark(j) \/ Record(j)
  \/ EnableWave(j) \/ DisableWave(j) \/ SavePatch(j) \/ Break(j)

RegistryNext ==
  \/ \E j \in Jobs : Request(j) \/ Statement(j)
  \/ \E k \in Keys : FinishPoll(k)

RegistrySpec == RegistryInit /\ [][RegistryNext]_registryVars

(***************************************************************************)
(* Properties                                                              *)
(***************************************************************************)
\* The feed of a row answers to the last outline of the pack with its key.
LastOutline(j, k) ==
  CHOOSE i \in Valid(doc[j]) : /\ Canonical[doc[j][i]] = k
                               /\ \A m \in Valid(doc[j]) : Canonical[doc[j][m]] = k => m <= i

\* An import that had the table to itself and has come to the end left it reconciled
\* with its pack, whatever broken imports and edits left there before: a key of the pack
\* has a row of this version, enabled, not flagged and with the address of the last
\* outline of that key; a row of another version is flagged.
Reconciled ==
  \A j \in Jobs : (step[j] = "record" /\ calm[j]) => \A k \in Keys :
    IF k \in Kept(j)
    THEN /\ Open(k) /\ ~feeds[k].review /\ feeds[k].version = edition[j]
         /\ feeds[k].url = doc[j][LastOutline(j, k)]
    ELSE Exists(k) => feeds[k].version = edition[j] \/ feeds[k].review

\* "one bad outline must never abort an import": with the table to itself an import
\* fails on a key only where an editor has created the same feed under another key.
OnlyHandMadeClash ==
  \A j \in Jobs : (step[j] = "insert" /\ edition[j] # "manual" /\ calm[j] /\ Clashes(j)) =>
    \E k \in byHand : feeds[k].id = Identity[Url(j)]

\* "enables exactly the feeds belonging to one rollout wave": after a wave that had the
\* table to itself a feed is enabled if and only if the wave contains it.
WaveExact ==
  [][\A j \in Jobs : (step[j] = "disable" /\ step'[j] = "free" /\ calm[j] /\ upsets' = upsets)
       => \A k \in Keys : Exists(k) => (feeds'[k].enabled <=> InWave(wave[j], feeds[k]))]_registryVars

\* A feed that was shut opens by an outline that lists it, by a wave that contains it or
\* by an edit; an edit that does not ask for it opens it only with what it read before
\* somebody else wrote.
OpenedWithReason ==
  [][\A k \in Keys : (~Open(k) /\ Open(k)') => \E j \in Jobs :
       \/ step[j] \in {"insert", "update"} /\ KeyOf(j) = k
       \/ step[j] = "enable" /\ Exists(k) /\ InWave(wave[j], feeds[k])
       \/ /\ step[j] = "patch" /\ patch[j].key = k
          /\ patch[j].want = "open" \/ (patch[j].want = "keep" /\ ~calm[j])]_registryVars

\* A feed becomes enabled and due in a year only by an import or an edit that enables a
\* feed which a wave has put to rest, never by a wave.
SilentByReopening ==
  [][\A k \in Keys : (~Silent(k) /\ Silent(k)') => \E j \in Jobs :
       \/ step[j] = "update" /\ KeyOf(j) = k
       \/ step[j] = "patch" /\ patch[j].key = k]_registryVars

\* "Production activation is selective, never the whole catalog": when starts of the API,
\* two of them at a time included, are all that has happened, no feed outside the wave
\* stays enabled.
SelectiveAfterBoot ==
  (~meddled /\ \A j \in Jobs : step[j] = "free") =>
    \A k \in Keys : Open(k) => InWave(Clamp(BootWave), feeds[k])

\* "outlines reconciled into the feed registry": after an import that had the table to
\* itself each of its well-formed outlines is the address of a feed.
EveryOutlinePolled ==
  \A j \in Jobs : (step[j] = "record" /\ calm[j]) =>
    \A i \in Valid(doc[j]) : \E k \in Keys : Exists(k) /\ feeds[k].url = doc[j][i]
=============================================================================
