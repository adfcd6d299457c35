------------------------------ MODULE Lifecycle ------------------------------
(***************************************************************************)
(* What closing an SDK runtime promises to its callers: the runtime stops  *)
(* accepting work once, it is closed once, with one result, and every      *)
(* caller that asked for the shutdown and did not cancel its own handle    *)
(* gets that result.                                                       *)
(***************************************************************************)
CONSTANTS Callers

VARIABLES
    phase,   \* "open", "closing" or "closed"
    result,  \* "none" until closed, then "ok" or "failed"
    handle   \* what each caller's handle shows

vars == <<phase, result, handle>>

Init ==
    /\ phase = "open" /\ result = "none"
    /\ handle = [c \in Callers |-> "none"]

Begin ==
    /\ phase = "open" /\ phase' = "closing"
    /\ UNCHANGED <<result, handle>>

Finish ==
    /\ phase = "closing" /\ phase' = "closed"
    /\ result' \in {"ok", "failed"}
    /\ UNCHANGED handle

Ask(c) ==
    /\ handle[c] = "none"
    /\ handle' = [handle EXCEPT ![c] = "pending"]
    /\ UNCHANGED <<phase, result>>

Answer(c) ==
    /\ phase = "closed" /\ handle[c] = "pending"
    /\ handle' = [handle EXCEPT ![c] = result]
    /\ UNCHANGED <<phase, result>>

Cancel(c) ==
    /\ handle[c] = "pending"
    /\ handle' = [handle EXCEPT ![c] = "cancelled"]
    /\ UNCHANGED <<phase, result>>

Next == Begin \/ Finish \/ \E c \in Callers : Ask(c) \/ Answer(c) \/ Cancel(c)

Spec == Init /\ [][Next]_vars
=============================================================================
