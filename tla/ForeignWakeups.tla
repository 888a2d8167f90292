--------------------------- MODULE ForeignWakeups ---------------------------
(***************************************************************************)
(* A mutex in a kernel in which mutex_unlock is not the only code that     *)
(* makes a blocked task ready: task_suspend followed by task_resume, and   *)
(* scheduler_update_deadlines of the real-time policy, look at the state   *)
(* of a task and not at what it waits for.                                 *)
(***************************************************************************)
EXTENDS Mutex

\* Another task suspends t; it may be ready or blocked.
task_suspend(t) ==
    /\ state[t] # "TASK_SUSPENDED"
    /\ state' = [state EXCEPT ![t] = "TASK_SUSPENDED"]
    /\ UNCHANGED <<kind, mutex, pc, depth>>

task_resume(t) ==
    /\ state[t] = "TASK_SUSPENDED"
    /\ state' = [state EXCEPT ![t] = "TASK_READY"]
    /\ UNCHANGED <<kind, mutex, pc, depth>>

\* The real-time tick releases the tasks whose period is over, blocked or not.
scheduler_update_deadlines(released) ==
    /\ state' = [t \in Tasks |-> IF t \in released /\ state[t] = "TASK_BLOCKED"
                                 THEN "TASK_READY" ELSE state[t]]
    /\ UNCHANGED <<kind, mutex, pc, depth>>

WakeupNext ==
    \/ Next
    \/ \E t \in Tasks : task_suspend(t) \/ task_resume(t)
    \/ \E released \in SUBSET Tasks : scheduler_update_deadlines(released)

WakeupSpec == Init /\ [][WakeupNext]_vars
=============================================================================
