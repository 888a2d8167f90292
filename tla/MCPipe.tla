------------------------------- MODULE MCPipe -------------------------------
(***************************************************************************)
(* One pipe under the dispatcher of module Dispatcher, with its tasks in   *)
(* every order of the run queue.                                           *)
(***************************************************************************)
EXTENDS Pipe

VARIABLES run_queue, current

LOCAL INSTANCE SequencesExt

RunOrders == SetToSeqs(Tasks)

Cpu == INSTANCE Dispatcher

allVars == <<vars, run_queue, current>>

CpuSpecInit == Init /\ Cpu!CpuInit

RunsOn(t) == Cpu!MayRun(t) /\ (Call(t) \/ Continue(t)) /\ Cpu!Yielded(t)

\* Between two calls.
Elsewhere ==
    /\ current # NULL
    /\ at[current] = "idle"
    /\ \/ Cpu!task_yield
       \/ Cpu!task_suspend
       \/ Cpu!task_exit
       \/ \E t \in Tasks : Cpu!task_resume(t)
    /\ UNCHANGED <<lock, cond, at, pipeVars>>

CpuNext == (\E t \in Tasks : RunsOn(t)) \/ Elsewhere

\* Fairness.  Of the processor: the running task goes on inside a call.  Of the
\* programs: a task that runs outside makes its next call or exits in the end.
CallsOrExits(t) ==
    /\ current = t
    /\ \/ Call(t) /\ Cpu!Yielded(t)
       \/ at[t] = "idle" /\ Cpu!task_exit /\ UNCHANGED <<lock, cond, at, pipeVars>>

Fairness ==
    /\ WF_allVars(\E t \in Tasks : current = t /\ Continue(t) /\ Cpu!Yielded(t))
    /\ \A t \in Tasks : SF_allVars(CallsOrExits(t))

CpuSpec == CpuSpecInit /\ [][CpuNext]_allVars /\ Fairness

\* A call that the other side serves ends, whoever task_schedule prefers: the
\* single reader gets its bytes once the writers have written enough, although
\* pipe_write only makes it ready and runs on.
ReaderServed ==
    \A r \in Readers :
        Cpu!dispatched /\ todo[r] > 0 /\ count >= todo[r] ~> todo[r] = 0
=============================================================================
