---- MODULE MCRpcCoroMgr ----
EXTENDS RpcCoroMgr, TLC
Sym == Permutations(Coros)
====
