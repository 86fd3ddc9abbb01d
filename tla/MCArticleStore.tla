--------------------------- MODULE MCArticleStore ---------------------------
(***************************************************************************)
(* A small instance of ArticleStore: x1 and y1 are one page that two feeds *)
(* list with one headline and different summaries, each under a GUID of    *)
(* its own; y2 is another page, without a GUID, whose reworded headline is *)
(* near to it.                                                             *)
(***************************************************************************)
EXTENDS ArticleStore, TLC

CONSTANTS x1, y1, y2, T1, T2

MCFeed    == (x1 :> "X") @@ (y1 :> "Y") @@ (y2 :> "Y")
MCGuid    == (x1 :> "g") @@ (y1 :> "h") @@ (y2 :> None)
MCUrl     == (x1 :> "u") @@ (y1 :> "u") @@ (y2 :> "v")
MCContent == (x1 :> "a") @@ (y1 :> "b") @@ (y2 :> "c")
MCTitle   == (x1 :> T1) @@ (y1 :> T1) @@ (y2 :> T2)
MCOneTitle == [r \in Reports |-> T1]     \* every headline the same
MCNear    == Titles \X Titles
=============================================================================
