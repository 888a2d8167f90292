------------------------------ MODULE MCTasks ------------------------------
(***************************************************************************)
(* Model-checking instance of the two structures that link tasks: the      *)
(* multi-level feedback queue through the life of its tasks, and the wait  *)
(* queues.  They use different fields of task_t and share no state; a      *)
(* behaviour is one of one of them, and the other stays as it starts.      *)
(***************************************************************************)
EXTENDS TaskLifecycle, WaitQueue

VARIABLE part    \* the part that takes the steps

allVars == <<lifeVars, waitVars, part>>

TasksInit == part \in {"scheduler", "wait queues"} /\ LifeInit /\ WaitInit

TasksNext ==
    /\ \/ part = "scheduler"   /\ LifeNext /\ UNCHANGED waitVars
       \/ part = "wait queues" /\ WaitNext /\ UNCHANGED lifeVars
    /\ UNCHANGED part

TasksSpec == TasksInit /\ [][TasksNext]_allVars

\* Slots are interchangeable (used for safety only).
Symmetry == Permutations(Tasks)

\* Look no further than the first event that spoils the lists.
Intact == damage = {}
=============================================================================
