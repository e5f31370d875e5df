---------------------------- MODULE TaskLifecycle ----------------------------
(***************************************************************************)
(* What a business application that polls GET /tasks/{id} may rely on: a   *)
(* task goes from pending to in_progress, works through the steps of its   *)
(* saga one after the other, and ends, once and for all, completed after   *)
(* its last step or failed.  Retries, timers, crashes and worker copies    *)
(* are invisible at this level.                                            *)
(***************************************************************************)
EXTENDS Naturals

CONSTANTS Tasks, LastStep

VARIABLES
    state,  \* TaskState of every task
    step    \* the step the task is at

vars == <<state, step>>

Init ==
    /\ state = [t \in Tasks |-> "absent"]
    /\ step = [t \in Tasks |-> 1]

Moves(t, from, to) ==
    /\ state[t] = from
    /\ state' = [state EXCEPT ![t] = to]
    /\ UNCHANGED step

(* POST on one of the three submit endpoints. *)
Create(t) == Moves(t, "absent", "pending")

(* First pickup by a worker. *)
Start(t) == Moves(t, "pending", "in_progress")

(* A step that is not the last one is done. *)
Advance(t) ==
    /\ state[t] = "in_progress"
    /\ step[t] < LastStep[t]
    /\ step' = [step EXCEPT ![t] = step[t] + 1]
    /\ UNCHANGED state

(* The last step is done. *)
Complete(t) ==
    /\ step[t] = LastStep[t]
    /\ Moves(t, "in_progress", "completed")

(* A terminal error, or a retry that is 24 hours too late. *)
Fail(t) == Moves(t, "in_progress", "failed")

Next == \E t \in Tasks :
    Create(t) \/ Start(t) \/ Advance(t) \/ Complete(t) \/ Fail(t)

Spec == Init /\ [][Next]_vars
=============================================================================
