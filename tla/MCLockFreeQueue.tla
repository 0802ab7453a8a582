-------------------------- MODULE MCLockFreeQueue --------------------------
(* LockFreeQueue with a ring small enough to fill and to wrap around.      *)
EXTENDS LockFreeQueue
=============================================================================
