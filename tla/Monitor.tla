------------------------------- MODULE Monitor -------------------------------
(***************************************************************************)
(* How rwlock.c, msg_queue.c and pipe.c use mutex.c and condition.c: an    *)
(* object with one mutex and two condition variables, entered by           *)
(* mutex_lock at the start of an operation and left by mutex_unlock at its *)
(* end.  The modules RwLock, MsgQueue and Pipe add the object's own data   *)
(* and one action per stretch of an operation between two of these calls.  *)
(*                                                                         *)
(* Where a task is (at):                                                   *)
(*   "idle"    outside the object                                          *)
(*   "lock"    in task_yield() inside mutex_lock                           *)
(*   "body"    holds the mutex and runs the code of the operation          *)
(*   "wait"    in task_yield() inside condition_wait or condition_timedwait*)
(*   "unlock"  done, about to call mutex_unlock                            *)
(*                                                                         *)
(* The two condition calls are one step up to their task_yield(): the      *)
(* mutex_unlock inside them re-enables interrupts, but all that is left    *)
(* then is to yield.                                                       *)
(***************************************************************************)
EXTENDS SyncPrimitives

CONSTANT Conds  \* the condition variables of the object

VARIABLES
    lock,   \* the object's mutex_t
    cond,   \* waiting_tasks of each condition_t
    state,  \* task_t.state
    at      \* where each task is, see above

monitorVars == <<lock, cond, state, at>>

Places == {"idle", "lock", "body", "wait", "unlock"}

MonitorTypeOK ==
    /\ lock \in MutexType
    /\ cond \in [Conds -> Seq(Tasks)]
    /\ state \in [Tasks -> TaskState]
    /\ at \in [Tasks -> Places]

\* mutex_init and condition_init.
MonitorInit ==
    /\ lock = mutex_init
    /\ cond = [c \in Conds |-> <<>>]
    /\ state = [t \in Tasks |-> "TASK_READY"]
    /\ at = [t \in Tasks |-> "idle"]

Runs(t, place) == state[t] = "TASK_READY" /\ at[t] = place

Queued(queue) == {queue[i] : i \in DOMAIN queue}

-----------------------------------------------------------------------------
(* mutex_lock, mutex_trylock and mutex_unlock on the object's mutex. *)

\* mutex_lock called by t: take the mutex, or queue up for it.
Lock(t) ==
    \/ /\ ~lock.locked
       /\ lock' = MutexTake(lock, t)
       /\ at' = [at EXCEPT ![t] = "body"]
       /\ UNCHANGED state
    \/ /\ lock.locked
       /\ lock' = MutexWait(lock, t)
       /\ state' = SetBlocked(state, t)
       /\ at' = [at EXCEPT ![t] = "lock"]

\* The first call of an operation.
Enter(t) == Runs(t, "idle") /\ Lock(t) /\ UNCHANGED cond

\* mutex_trylock with result true.
TryEnter(t) == Runs(t, "idle") /\ ~lock.locked /\ Lock(t) /\ UNCHANGED cond

\* mutex_lock returns to a task that was handed the mutex.
Granted(t) ==
    /\ Runs(t, "lock")
    /\ at' = [at EXCEPT ![t] = "body"]
    /\ UNCHANGED <<lock, cond, state>>

\* The mutex_unlock at the end of an operation.
Leave(t) ==
    /\ Runs(t, "unlock")
    /\ lock' = MutexUnlock(lock, t)
    /\ state' = SetReady(state, UnlockWakes(lock, t))
    /\ at' = [at EXCEPT ![t] = "idle"]
    /\ UNCHANGED cond

-----------------------------------------------------------------------------
(* condition.c *)

\* condition_wait(c, lock), up to its task_yield().
condition_wait(t, c) ==
    /\ cond' = [cond EXCEPT ![c] = add_to_wait_queue(@, t)]
    /\ lock' = MutexUnlock(lock, t)
    /\ state' = SetReady(SetBlocked(state, t), UnlockWakes(lock, t))
    /\ at' = [at EXCEPT ![t] = "wait"]

\* The rest of condition_wait once t was signalled: mutex_lock again.
Relock(t) == Runs(t, "wait") /\ Lock(t) /\ UNCHANGED cond

\* What condition_signal(c) wakes, and the queue it leaves.
SignalWakes(c) == IF cond[c] = <<>> THEN {} ELSE {FirstWaiting(cond[c])}
condition_signal(c) ==
    IF cond[c] = <<>> THEN <<>> ELSE remove_from_wait_queue(cond[c])

\* condition_broadcast(c) wakes everybody and leaves an empty queue.
BroadcastWakes(c) == Queued(cond[c])
condition_broadcast(c) == <<>>

\* The operation of t is over but for mutex_unlock, and has signalled condition
\* c (NULL: none).
Finish(t, c) ==
    /\ at' = [at EXCEPT ![t] = "unlock"]
    /\ IF c = NULL THEN UNCHANGED <<cond, state>>
       ELSE /\ cond' = [cond EXCEPT ![c] = condition_signal(c)]
            /\ state' = SetReady(state, SignalWakes(c))
    /\ UNCHANGED lock
=============================================================================
