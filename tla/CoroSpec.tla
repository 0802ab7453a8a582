------------------------------ MODULE CoroSpec ------------------------------
(***************************************************************************)
(* What the coroutine manager promises about each coroutine, without call  *)
(* stack, ids, maps or timers: a suspension ends exactly once, by a resume,*)
(* a cancellation or a timeout that never comes early; the coroutine sees  *)
(* which of the three it was; it is freed only after it has returned.      *)
(***************************************************************************)
EXTENDS Naturals

CONSTANT Coros

VARIABLES
    phase,      \* none, ready, running, suspended, done, gone
    outcome,    \* how the last suspension ended: ok, timeout or cancel
    deadline,   \* when the current suspension times out, 0 if none
    clock

absVars == <<phase, outcome, deadline, clock>>

Init ==
    /\ phase = [c \in Coros |-> "none"]
    /\ outcome = [c \in Coros |-> "ok"]
    /\ deadline = [c \in Coros |-> 0]
    /\ clock = 0

Move(c, from, to) == phase[c] = from /\ phase' = [phase EXCEPT ![c] = to]

Create(c) == Move(c, "none", "ready") /\ UNCHANGED <<outcome, deadline, clock>>

Begin(c) == Move(c, "ready", "running") /\ UNCHANGED <<outcome, deadline, clock>>

Suspend(c) ==
    /\ Move(c, "running", "suspended")
    /\ outcome' = [outcome EXCEPT ![c] = "ok"]
    /\ deadline' = [deadline EXCEPT ![c] = deadline'[c]]
    /\ deadline'[c] > clock
    /\ UNCHANGED clock

Wake(c, how) ==
    /\ Move(c, "suspended", "running")
    /\ how = "timeout" => deadline[c] <= clock
    /\ outcome' = [outcome EXCEPT ![c] = how]
    /\ deadline' = [deadline EXCEPT ![c] = 0]
    /\ UNCHANGED clock

Finish(c) == Move(c, "running", "done") /\ UNCHANGED <<outcome, deadline, clock>>

\* All coroutines that are done are freed together.
Free ==
    /\ phase' = [c \in Coros |-> IF phase[c] = "done" THEN "gone" ELSE phase[c]]
    /\ UNCHANGED <<outcome, deadline, clock>>

Advance == clock' = clock + 1 /\ UNCHANGED <<phase, outcome, deadline>>

Next ==
    \/ \E c \in Coros :
         \/ Create(c) \/ Begin(c) \/ Suspend(c) \/ Finish(c)
         \/ \E how \in {"ok", "timeout", "cancel"} : Wake(c, how)
    \/ Free \/ Advance

Spec == Init /\ [][Next]_absVars
=============================================================================
