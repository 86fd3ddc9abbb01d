-------------------------- MODULE MCPushRegistration --------------------------
(***************************************************************************)
(* Small instances of PushRegistration: two installs, ids that keep one    *)
(* group of a token; FCM gives the first install two tokens that begin     *)
(* alike.                                                                  *)
(***************************************************************************)
EXTENDS PushRegistration, TLC

CONSTANTS a, b, A, B, x, y, dev, h1, h2, breaking, world

MCFcmTokens == (a :> {<<A, x>>, <<A, y>>}) @@ (b :> {<<B, x>>})
=============================================================================
