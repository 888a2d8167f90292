--------------------------- MODULE SyncPrimitives ---------------------------
(***************************************************************************)
(* The kernel's synchronisation objects as values: what one call of        *)
(* mutex.c / condition.c does to the object, between interrupt_disable()   *)
(* and interrupt_enable().  The state machines (Mutex, RwLock, MsgQueue,   *)
(* Pipe) apply these operators in their actions, so that every one of them *)
(* runs the same mutex and the same condition variable.                    *)
(*                                                                         *)
(* A wait queue is the sequence of the tasks linked through next_wait;     *)
(* module WaitQueue checks that the linked list behaves as that sequence.  *)
(* The statistics counters (sync_stats) are write-only and left out.       *)
(***************************************************************************)
EXTENDS Naturals, Sequences

CONSTANTS Tasks,  \* the task_t's that call the primitives
          NULL    \* the null pointer

ASSUME SyncAssumption == NULL \notin Tasks

\* task_t.state.  TASK_RUNNING is never assigned by the code: the task that
\* runs keeps the state TASK_READY.
TaskState == {"TASK_READY", "TASK_BLOCKED", "TASK_SUSPENDED"}

\* mutex_t without its name.
MutexType == [locked          : BOOLEAN,
              owner           : Tasks \cup {NULL},
              waiting_tasks   : Seq(Tasks),
              recursive_count : Nat]

\* mutex_init and recursive_mutex_init, which only calls it.
mutex_init == [locked |-> FALSE, owner |-> NULL,
               waiting_tasks |-> <<>>, recursive_count |-> 0]

-----------------------------------------------------------------------------
(* The wait queue shared by all primitives. *)

add_to_wait_queue(queue, task) == Append(queue, task)

\* The task remove_from_wait_queue returns and the queue it leaves behind.
FirstWaiting(queue) == Head(queue)
remove_from_wait_queue(queue) == Tail(queue)

\* waiting->state = TASK_READY; task_resume(waiting) (a no-op by then).
SetReady(state, woken) ==
    [t \in Tasks |-> IF t \in woken THEN "TASK_READY" ELSE state[t]]

\* current->state = TASK_BLOCKED.
SetBlocked(state, task) == [state EXCEPT ![task] = "TASK_BLOCKED"]

-----------------------------------------------------------------------------
(* mutex_lock, mutex_trylock: the two branches on mutex->locked. *)

MutexTake(m, t) == [m EXCEPT !.locked = TRUE, !.owner = t]

MutexWait(m, t) == [m EXCEPT !.waiting_tasks = add_to_wait_queue(@, t)]

\* mutex_unlock by task t; a caller that is not the owner changes nothing.
\* Ownership passes straight to the first waiting task.
MutexUnlock(m, t) ==
    IF m.owner # t THEN m
    ELSE IF m.waiting_tasks # <<>>
         THEN [m EXCEPT !.owner         = FirstWaiting(m.waiting_tasks),
                        !.waiting_tasks = remove_from_wait_queue(@)]
         ELSE [m EXCEPT !.locked = FALSE, !.owner = NULL]

\* The tasks that MutexUnlock makes ready.
UnlockWakes(m, t) ==
    IF m.owner = t /\ m.waiting_tasks # <<>>
    THEN {FirstWaiting(m.waiting_tasks)} ELSE {}
=============================================================================
