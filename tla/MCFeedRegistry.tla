---------------------------- MODULE MCFeedRegistry ----------------------------
(***************************************************************************)
(* A pack like the bundled one: two searches of one news service, which    *)
(* differ in their query only, and a publisher's own feed.                 *)
(***************************************************************************)
EXTENDS FeedRegistry, TLC

MCIdentity  == [u \in Urls |-> u]
MCCanonical == [u \in Urls |-> IF u = "search2" THEN "search1" ELSE u]
MCKind      == [u \in Urls |-> IF u = "core" THEN "core" ELSE "search"]
MCRank      == [u \in Urls |-> "low"]
MCPacks     == "v1" :> <<"search1", "search2", "core">>
=============================================================================
