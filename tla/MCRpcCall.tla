----------------------------- MODULE MCRpcCall -----------------------------
(* RpcCall with the scripts of the client programs, for TLC.               *)
EXTENDS RpcCall, TLC

EchoThenRelay == <<"Echo", "RelayEcho">>      \* client.cpp
AllMethods == <<"Echo", "RelayEcho", "GetData">>
RelayThenData == <<"RelayEcho", "GetData">>

Sym == Permutations(Callers)
=============================================================================
