------------------------------- MODULE Reading -------------------------------
(***************************************************************************)
(* Reading a list page by page (backend/internal/store/articles_query.go,  *)
(* httpapi/server.go), while articles come into the list and leave it.     *)
(*                                                                         *)
(* A page is the result of one SQL statement.  Its cursor names the time   *)
(* and the id of its last article, and the next page begins after that     *)
(* place in the order, whether or not the article is still in the list.    *)
(* The client asks for one page at a time and keeps what it got.           *)
(***************************************************************************)
EXTENDS Integers, Sequences, FiniteSets

CONSTANTS
  Articles,     \* their ids, of which only the order matters
  At,           \* [Articles -> Nat], COALESCE(published_at, discovered_at)
  Score,        \* [Articles -> Nat], scoreExpr, taken as fixed during a walk
  Limits,       \* values of the parameter limit, as numbers
  DefaultLimit, \* 30
  MaxLimit,     \* 100
  NoCursor,     \* an empty cursor
  MaxChanges,   \* bound: articles that come or go in a behaviour
  MaxPages      \* bound: pages of a walk; one by score has no end, its first page being
                \* what every cursor leads to

ASSUME ReadingAssumption ==
  /\ Articles \subseteq Int /\ At \in [Articles -> Nat] /\ Score \in [Articles -> Nat]
  /\ NoCursor \notin Articles /\ Limits \subseteq Int
  /\ DefaultLimit \in Nat \ {0} /\ MaxLimit \in Nat \ {0} /\ DefaultLimit <= MaxLimit

VARIABLES
  shown,    \* the articles the query selects: stored, ACTIVE, and of its filters
  walk,     \* "none", "open" while there is a next page, "done"
  sort,     \* "latest" or "top"
  limit,    \* the size of a page
  cursor,   \* the article the next page begins after
  pages,    \* what the client got, each page a set
  always,   \* history: articles that were in the list all through the walk
  changes   \* bound

readingVars == <<shown, walk, sort, limit, cursor, pages, always, changes>>

ReadingTypeOK ==
  /\ shown \subseteq Articles /\ always \subseteq shown
  /\ walk \in {"none", "open", "done"} /\ sort \in {"latest", "top"}
  /\ limit \in 1 .. MaxLimit /\ cursor \in Articles \cup {NoCursor}
  /\ pages \in Seq(SUBSET Articles) /\ changes \in Nat
  /\ walk = "open" => cursor # NoCursor

ReadingInit ==
  /\ shown \in SUBSET Articles
  /\ walk = "none" /\ sort = "latest" /\ limit = DefaultLimit /\ cursor = NoCursor
  /\ pages = <<>> /\ always = {} /\ changes = 0

\* The order of lists: the latest first, and the greater id first of those of a time.
Newer(a, b) == At[a] > At[b] \/ (At[a] = At[b] /\ a > b)

\* What a list of the sort begins with.
Ahead(a, b, s) ==
  IF s = "latest" THEN Newer(a, b)
  ELSE Score[a] > Score[b] \/ (Score[a] = Score[b] /\ Newer(a, b))

\* The rows the statement may return: those after the cursor, which the sort "top" ignores.
RowsFromCursor(from, s) ==
  IF from = NoCursor \/ s = "top" THEN shown ELSE {a \in shown : ~Newer(a, from)}
Rows(from, s) ==
  IF from = NoCursor \/ s = "top" THEN shown ELSE {a \in shown : Newer(from, a)}

\* parseLimit: what is no positive number asks for the default.
PageLimit(raw) == IF raw <= 0 THEN DefaultLimit ELSE IF raw > MaxLimit THEN MaxLimit ELSE raw

\* The first n of a set of rows; all of them, when there are no more.
Firsts(rows, n, s) ==
  {p \in SUBSET rows :
     /\ \A a \in p, b \in rows \ p : Ahead(a, b, s)
     /\ Cardinality(p) = n \/ (p = rows /\ Cardinality(p) < n)}

\* One more row than the page has is asked for: it tells that there is a next page, whose
\* cursor is the last article of this one.
CursorPastPage(page, rows, s, last) ==
  /\ last \in rows \ page /\ \A b \in rows \ page : b # last => Ahead(last, b, s)
CursorOf(page, rows, s, last) ==
  /\ last \in page /\ \A a \in page : a # last => Ahead(a, last, s)

\* QueryArticles, and what the client does with its answer.
Answered(from, s, n, before) ==
  LET rows == Rows(from, s) IN
  \E page \in Firsts(rows, n, s) :
    /\ pages' = Append(before, page)
    /\ \/ /\ page # rows /\ walk' = "open"
          /\ \E last \in rows : CursorOf(page, rows, s, last) /\ cursor' = last
       \/ /\ page = rows /\ walk' = "done" /\ cursor' = NoCursor
    /\ sort' = s /\ limit' = n

\* The client opens a list.
Open ==
  /\ \E s \in {"latest", "top"}, raw \in Limits : Answered(NoCursor, s, PageLimit(raw), <<>>)
  /\ always' = shown /\ UNCHANGED <<shown, changes>>

\* It asks for more.
More ==
  /\ walk = "open" /\ Len(pages) < MaxPages /\ Answered(cursor, sort, limit, pages)
  /\ UNCHANGED <<shown, always, changes>>

\* An article is stored, restored, or put under what the list is of.
Appear(a) ==
  /\ a \notin shown /\ changes < MaxChanges
  /\ shown' = shown \cup {a} /\ changes' = changes + 1
  /\ UNCHANGED <<walk, sort, limit, cursor, pages, always>>

\* An editor hides an article or takes it from under that.
Vanish(a) ==
  /\ a \in shown /\ changes < MaxChanges
  /\ shown' = shown \ {a} /\ always' = always \ {a} /\ changes' = changes + 1
  /\ UNCHANGED <<walk, sort, limit, cursor, pages>>

ReadingNext == Open \/ More \/ \E a \in Articles : Appear(a) \/ Vanish(a)

ReadingSpec == ReadingInit /\ [][ReadingNext]_readingVars

(***************************************************************************)
(* Properties                                                              *)
(***************************************************************************)
Listed == UNION {pages[i] : i \in DOMAIN pages}

\* A list by time goes back in time from page to page, whatever came in and whatever was
\* hidden meanwhile: no article is listed twice, or above one that is newer.
NoRepeat ==
  sort = "latest" =>
    \A i, j \in DOMAIN pages : i < j => \A a \in pages[i], b \in pages[j] : Newer(a, b)

\* Who reads a list by time to its end has seen every article that was in it all along,
\* though the article a cursor names may be gone when the next page is asked for.
NoGap == walk = "done" /\ sort = "latest" => always \subseteq Listed
=============================================================================
