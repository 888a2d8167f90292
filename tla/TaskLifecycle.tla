---------------------------- MODULE TaskLifecycle ----------------------------
(***************************************************************************)
(* task_create, task_delete and task_exit of task.c together with the      *)
(* multi-level feedback queue: Tasks are the slots of task_list, and a     *)
(* slot is used again after its task was deleted.  Callers do not use a    *)
(* task_t after it was deleted; the code does not check that.              *)
(***************************************************************************)
EXTENDS Mlfq, FiniteSetsExt

VARIABLE task_count

lifeVars == <<vars, task_count>>

LifeInit == Init /\ task_count = Cardinality(Tasks)

-----------------------------------------------------------------------------

\* task_create takes a free slot and clears it, its links included.  Where the
\* table is full or malloc fails nothing changes.
task_create(t) ==
    /\ InTask
    /\ task_count < Cardinality(Tasks)
    /\ state[t] = "TASK_TERMINATED"
    /\ state' = [state EXCEPT ![t] = "TASK_READY"]
    /\ next' = [next EXCEPT ![t] = NULL]
    /\ params' = [params EXCEPT ![t] = NULL]
    /\ sleeping' = sleeping \ {t}
    /\ task_count' = task_count + 1
    /\ damage' = IF \E i \in Levels : t \in ToSet(List(i)) THEN damage \cup {"reuse"}
                 ELSE damage
    /\ UNCHANGED <<queues, boost_counter, busy, current, cpu, schedVars>>

\* task_delete, and task_exit, in which t is the current task.
task_delete(t) ==
    /\ InTask
    /\ state[t] # "TASK_TERMINATED"
    /\ state' = [state EXCEPT ![t] = "TASK_TERMINATED"]
    /\ task_count' = task_count - 1
    /\ IF t = current THEN task_schedule(state') ELSE UNCHANGED <<current, cpu>>
    /\ UNCHANGED <<listVars, sleeping, schedVars>>

\* The other operations are called with tasks that exist.
LiveHandles ==
    \A t \in Tasks : state[t] = "TASK_TERMINATED" =>
        state'[t] = state[t] /\ (params[t] = NULL => params'[t] = NULL)

LifeNext ==
    \/ \E t \in Tasks : task_create(t) \/ task_delete(t)
    \/ Next /\ LiveHandles /\ UNCHANGED task_count

LifeSpec == LifeInit /\ [][LifeNext]_lifeVars
=============================================================================
