------------------------------- MODULE Digest -------------------------------
(***************************************************************************)
(* A section of the home page: the candidates the query gives, rearranged  *)
(* so that no source has too many cards in a row, and cut to size; from    *)
(* the section of the jobs HomePayload then takes the cards whose deadline *)
(* has passed (backend/internal/store/articles_query.go).  A list sorted   *)
(* "top" is rearranged in the same way, and neither cut nor filtered.      *)
(*                                                                         *)
(* A card is named by its place among the candidates.  A step is a turn of *)
(* the loop of ApplySourceDiversity.                                       *)
(***************************************************************************)
EXTENDS Integers, Sequences, FiniteSets

CONSTANTS
  Sources,   \* publishers
  Sizes,     \* of sections: 3, 5 and 8 cards
  JobsSize,  \* of that of the jobs: 5
  Runs,      \* maxConsecutive: 1 or 2 cards, 0 for no limit
  Widen,     \* candidates asked for, for each card of a section (6)
  Widest,    \* at most (60)
  NoSource   \* lastSource before the first card

ASSUME DigestAssumption ==
  /\ Sizes \subseteq Nat \ {0} /\ Runs \subseteq Nat /\ NoSource \notin Sources
  /\ Widen \in Nat \ {0} /\ Widest \in Nat /\ JobsSize \in Nat

VARIABLES
  source,     \* of the candidates, in the order of the query
  size,       \* of the section
  most,       \* maxConsecutive
  expired,    \* candidates for a job whose deadline has passed
  pending,    \* cards not yet put out
  out,        \* cards put out
  lastSource,
  run         \* cards of lastSource at the end of out

digestVars == <<source, size, most, expired, pending, out, lastSource, run>>

Cards == DOMAIN source

DigestTypeOK ==
  /\ source \in Seq(Sources) /\ size \in Sizes /\ most \in Runs /\ expired \subseteq Cards
  /\ pending \subseteq Cards /\ out \in Seq(Cards)
  /\ lastSource \in Sources \cup {NoSource} /\ run \in Nat
  /\ Len(out) + Cardinality(pending) = Len(source)

\* How many candidates the query is asked for.
Window(n, m) ==
  IF m = 0 THEN n ELSE IF n * Widen > Widest THEN Widest ELSE n * Widen

InOrder(n) == [i \in 1 .. n |-> i]

\* With no limit, or with fewer than three cards, the order stays.  Only the section of the
\* jobs, one card in a row, asks for deadlines.
DigestInit ==
  /\ size \in Sizes /\ most \in Runs
  /\ \E n \in 0 .. Window(size, most) : source \in [1 .. n -> Sources]
  /\ expired = {} \/ (size = JobsSize /\ most = 1 /\ expired \in SUBSET Cards)
  /\ IF most = 0 \/ Len(source) < 3
     THEN pending = {} /\ out = InOrder(Len(source))
     ELSE pending = Cards /\ out = <<>>
  /\ lastSource = NoSource /\ run = 0

\* A card that would make the run of its source too long waits.
WaitsLate(c) == source[c] = lastSource /\ run > most
Waits(c) == source[c] = lastSource /\ run >= most

\* The first card that need not wait, or the first of all.
Picked(c) ==
  /\ c \in pending
  /\ \/ ~Waits(c) /\ \A d \in pending : d < c => Waits(d)
     \/ (\A d \in pending : Waits(d)) /\ \A d \in pending : c <= d

Put(c) ==
  /\ Picked(c)
  /\ pending' = pending \ {c} /\ out' = Append(out, c)
  /\ IF source[c] = lastSource
     THEN run' = run + 1 /\ UNCHANGED lastSource
     ELSE run' = 1 /\ lastSource' = source[c]
  /\ UNCHANGED <<source, size, most, expired>>

DigestNext == \E c \in pending : Put(c)

DigestSpec == DigestInit /\ [][DigestNext]_digestVars

(***************************************************************************)
(* Properties                                                              *)
(***************************************************************************)
SourceAt(i) == source[out[i]]

\* cards = cards[:limit].
Section == SubSeq(out, 1, IF Len(out) > size THEN size ELSE Len(out))

\* The places of the section that the home page shows: HomePayload takes the expired jobs
\* out after the mixing and the cut.
ShownPlaces == {p \in 1 .. Len(Section) : out[p] \notin expired}

\* A source has more cards in a row on the home page than it may only when every candidate
\* that was left for the last of them is its own, or when a card of another source stood
\* between them and was taken out as expired.
Varied ==
  most > 0 =>
    \A a, b \in ShownPlaces :
      /\ \A p \in ShownPlaces \cap (a .. b) : SourceAt(p) = SourceAt(b)
      /\ Cardinality(ShownPlaces \cap (a .. b)) > most
      => \/ \A c \in Cards : (\A p \in 1 .. b : out[p] # c) => source[c] = SourceAt(b)
         \/ \E p \in a .. b : out[p] \in expired /\ SourceAt(p) # SourceAt(b)

\* A card is overtaken only for variety: one that ranks below it comes before it only
\* right after as many cards of its own source as there may be in a row.
OvertakenForVariety ==
  \A p, q \in DOMAIN out : p < q /\ out[p] > out[q] =>
    /\ most > 0 /\ p > most
    /\ \A k \in p - most .. p - 1 : SourceAt(k) = SourceAt(q)

\* The rearranged list is no less faithful to the ranking than variety asks for, and the
\* section shown as varied as its candidates allow, but for the jobs taken out of it, whose
\* places are not filled and whose neighbours may be of one source (ApplySourceDiversity,
\* HomePayload).
WellMixed == Varied /\ OvertakenForVariety
=============================================================================
