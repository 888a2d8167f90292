------------------------------- MODULE MCMutex -------------------------------
(***************************************************************************)
(* One mutex under the dispatcher of module Dispatcher: its tasks run in   *)
(* any interleaving, or in the order of a run queue.  The tasks are alike, *)
(* so one order of the queue stands for all.                               *)
(***************************************************************************)
EXTENDS Mutex

CONSTANT QueuedTasks   \* the tasks on the run queue, in behaviours that have one

VARIABLES run_queue, current

LOCAL INSTANCE SequencesExt

RunOrders == {SetToSeq(QueuedTasks)}

Cpu == INSTANCE Dispatcher

allVars == <<vars, run_queue, current>>

CpuSpecInit == Init /\ Cpu!CpuInit

\* A step of mutex.c by a task that may run.
Runs(t) == Cpu!MayRun(t) /\ StepOf(t) /\ Cpu!Yielded(t)

\* What the running task does between two calls: it may yield inside its
\* critical section, but stops only outside.
Elsewhere ==
    /\ current # NULL
    /\ pc[current] = "run"
    /\ \/ Cpu!task_yield
       \/ depth[current] = 0 /\ (Cpu!task_suspend \/ Cpu!task_exit)
       \/ \E t \in Tasks : Cpu!task_resume(t)
    /\ UNCHANGED <<kind, mutex, pc, depth>>

CpuNext == (\E t \in Tasks : Runs(t)) \/ Elsewhere

\* Fairness.  Of the processor: the running task goes on inside a call.  Of the
\* programs: a task that runs outside its critical section locks the mutex or
\* exits in the end, and one that runs inside leaves every level of it, however
\* often it re-enters a recursive mutex in between.
Asks(t) == mutex.owner # t /\ (mutex_lock(t) \/ recursive_mutex_lock(t)) /\ Cpu!Yielded(t)

Exits(t) ==
    /\ pc[t] = "run" /\ mutex.owner # t
    /\ Cpu!task_exit
    /\ UNCHANGED <<kind, mutex, pc, depth>>

Leaves(t, level) ==
    /\ \/ mutex_unlock(t)
       \/ recursive_mutex_unlock(t) /\ mutex.recursive_count = level
    /\ Cpu!Yielded(t)

Fairness ==
    /\ WF_allVars(\E t \in Tasks : current = t /\ ReturnFromYield(t) /\ Cpu!Yielded(t))
    /\ \A t \in QueuedTasks, level \in 1..MaxDepth :
           SF_allVars(current = t /\ (Asks(t) \/ Exits(t) \/ Leaves(t, level)))

CpuSpec == CpuSpecInit /\ [][CpuNext]_allVars /\ Fairness

\* A task that waits for the mutex gets it, unless the owner deadlocked itself,
\* although task_schedule always prefers the head of its queue: mutex_unlock
\* hands the mutex over, so a task the dispatcher prefers cannot keep it.
WaiterIsServed ==
    \A t \in QueuedTasks :
        Cpu!dispatched /\ t \in Waiting ~> (mutex.owner = t \/ SelfDeadlock)
=============================================================================
