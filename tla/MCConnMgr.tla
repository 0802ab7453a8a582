----------------------------- MODULE MCConnMgr -----------------------------
(* ConnMgr with a client that keeps its channel, two relays to one server  *)
(* and one to another.                                                     *)
EXTENDS ConnMgr, TLC

CONSTANTS a1, a2, client, relay1, relay2

MCAddrOf == client :> a1 @@ relay1 :> a2 @@ relay2 :> a2
=============================================================================
