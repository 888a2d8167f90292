------------------------------ MODULE MCRwLock ------------------------------
(***************************************************************************)
(* One read/write lock under the dispatcher of module Dispatcher.  The     *)
(* tasks are alike, so one order of the run queue stands for all.          *)
(***************************************************************************)
EXTENDS RwLock

CONSTANT QueuedTasks   \* the tasks on the run queue, in behaviours that have one

VARIABLES run_queue, current

LOCAL INSTANCE SequencesExt

RunOrders == {SetToSeq(QueuedTasks)}

Cpu == INSTANCE Dispatcher

allVars == <<vars, run_queue, current>>

CpuSpecInit == Init /\ Cpu!CpuInit

RunsOn(t) == Cpu!MayRun(t) /\ (Call(t) \/ Continue(t)) /\ Cpu!Yielded(t)

\* Between two calls; a task that holds the lock may yield but does not stop.
Elsewhere ==
    /\ current # NULL
    /\ at[current] = "idle"
    /\ \/ Cpu!task_yield
       \/ holds[current] = "nothing" /\ (Cpu!task_suspend \/ Cpu!task_exit)
       \/ \E t \in Tasks : Cpu!task_resume(t)
    /\ UNCHANGED <<lock, cond, at, rwVars>>

\* Nobody is ready: the processor stands still.
Halted == Cpu!dispatched /\ current = NULL /\ UNCHANGED allVars

CpuNext == (\E t \in Tasks : RunsOn(t)) \/ Elsewhere \/ Halted

\* Fairness.  Of the processor: the running task goes on inside a call.  Of the
\* programs: a task that runs outside does not do so for ever, but gives the lock
\* back if it holds it, and asks for it or exits if not.
Asks(t) ==
    /\ Call(t)
    /\ op'[t] \in CASE holds[t] = "nothing" -> {"read_lock", "write_lock"}
                   [] holds[t] = "read" -> {"read_unlock"}
                   [] holds[t] = "write" -> {"write_unlock"}
    /\ Cpu!Yielded(t)

Exits(t) ==
    /\ at[t] = "idle" /\ holds[t] = "nothing"
    /\ Cpu!task_exit
    /\ UNCHANGED <<lock, cond, at, rwVars>>

Fairness ==
    /\ WF_allVars(\E t \in Tasks : current = t /\ Continue(t) /\ Cpu!Yielded(t))
    /\ \A t \in QueuedTasks : SF_allVars(current = t /\ (Asks(t) \/ Exits(t)))

CpuSpec == CpuSpecInit /\ [][CpuNext]_allVars /\ Fairness

\* When tasks are inside rwlock_read_lock or rwlock_write_lock, one of them gets
\* the lock, whoever task_schedule prefers: no deadlock among the mutex, the two
\* conditions, the holders and the order of the run queue.
SomeoneGetsIt ==
    (Cpu!dispatched /\ \E t \in Tasks : op[t] \in {"read_lock", "write_lock"})
        ~> (\E t \in Tasks : holds[t] # "nothing")
=============================================================================
