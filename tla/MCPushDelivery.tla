--------------------------- MODULE MCPushDelivery ---------------------------
(***************************************************************************)
(* A small instance of PushDelivery: two workers, an editor on an API      *)
(* process with FCM credentials and one on a process without, three        *)
(* stories of the ingest and one an editor sends.                          *)
(***************************************************************************)
EXTENDS PushDelivery, TLC

CONSTANTS w1, w2, e, d, k1, k2, k3, ek

Symmetric == Permutations({k1, k2, k3}) \cup Permutations({w1, w2})
=============================================================================
