----------------------------- MODULE Dispatcher -----------------------------
(***************************************************************************)
(* Which task runs: task_schedule over one queue of the multi-level        *)
(* feedback queue, the only policy that switches tasks without changing    *)
(* their state behind the back of mutex.c.  It always takes the first      *)
(* ready task of the queue, and only when the running one yields: the tick *)
(* never switches.  So nothing makes it fair, and no fairness of it is     *)
(* assumed; what waits in a mutex, a condition or a pipe has to be served  *)
(* all the same.                                                           *)
(*                                                                         *)
(* A behaviour runs in one of two ways.  With an empty run_queue any ready *)
(* task may take the next step, which covers every policy and is what      *)
(* safety is checked for.  With an order in run_queue only current does.   *)
(* Demotions and boosts, which would change the order, are in Mlfq.        *)
(***************************************************************************)
EXTENDS Naturals, Sequences, FiniteSetsExt

CONSTANTS Tasks, NULL,
          RunOrders   \* the orders of the run queue to look at

VARIABLES
    state,      \* task_t.state, which the synchronisation objects change too
    run_queue,  \* queues[0] from head to tail, or <<>>: any ready task runs
    current     \* current_task, or NULL

cpuVars == <<run_queue, current>>

dispatched == run_queue # <<>>

\* The first task of the queue that is ready in the task states st.
scheduler_mlfq_next(queue, st) ==
    LET ready == {i \in DOMAIN queue : st[queue[i]] = "TASK_READY"}
    IN  IF ready = {} THEN NULL ELSE queue[Min(ready)]

\* scheduler_start.
CpuInit ==
    /\ run_queue \in RunOrders \cup {<<>>}
    /\ current = scheduler_mlfq_next(run_queue, state)

MayRun(t) == dispatched => current = t

\* After a step of t: a call that had to wait has gone on to task_yield, and
\* task_schedule has chosen the next task.
Yielded(t) ==
    /\ current' = IF dispatched /\ state'[t] # "TASK_READY"
                  THEN scheduler_mlfq_next(run_queue, state') ELSE current
    /\ UNCHANGED run_queue

\* What the running task may do between its calls.
task_yield ==
    /\ current # NULL
    /\ current' = scheduler_mlfq_next(run_queue, state)
    /\ UNCHANGED <<state, run_queue>>

\* task_suspend and task_exit, called by the task itself.
Stop(as) ==
    /\ current # NULL
    /\ state' = [state EXCEPT ![current] = as]
    /\ current' = scheduler_mlfq_next(run_queue, state')
    /\ UNCHANGED run_queue

task_suspend == Stop("TASK_SUSPENDED")
task_exit == Stop("TASK_TERMINATED")

task_resume(t) ==
    /\ current # NULL
    /\ state[t] = "TASK_SUSPENDED"
    /\ state' = [state EXCEPT ![t] = "TASK_READY"]
    /\ UNCHANGED cpuVars
=============================================================================
