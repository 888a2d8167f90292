-------------------------------- MODULE Mutex --------------------------------
(***************************************************************************)
(* mutex.c: one mutex used by preemptible tasks on one CPU.                *)
(*                                                                         *)
(* The body of every call runs with interrupts disabled, so it is one      *)
(* step.  A task whose call has to wait is left in task_yield(), inside    *)
(* the call (pc = "yield"), and runs again once its state is TASK_READY:   *)
(* the call then returns at once, without looking at the mutex again.      *)
(* Any ready task may run next, which covers every policy that only        *)
(* dispatches ready tasks.                                                 *)
(***************************************************************************)
EXTENDS SyncPrimitives

CONSTANT MaxDepth   \* bound on the nesting of recursive_mutex_lock

ASSUME MaxDepthAssumption == MaxDepth \in Nat \ {0}

VARIABLES
    kind,   \* "plain" or "recursive": which of the two APIs the mutex is used with
    mutex,  \* the mutex_t
    state,  \* task_t.state of every task
    pc,     \* "run": outside the API; "yield": in task_yield() inside a lock call
    depth   \* history: lock calls that returned to the task and are not undone yet

vars == <<kind, mutex, state, pc, depth>>

Kinds == {"plain", "recursive"}

TypeOK ==
    /\ kind \in Kinds
    /\ mutex \in MutexType
    /\ state \in [Tasks -> TaskState]
    /\ pc \in [Tasks -> {"run", "yield"}]
    /\ depth \in [Tasks -> Nat]

Init ==
    /\ kind \in Kinds
    /\ mutex = mutex_init
    /\ state = [t \in Tasks |-> "TASK_READY"]
    /\ pc = [t \in Tasks |-> "run"]
    /\ depth = [t \in Tasks |-> 0]

\* Task t is dispatched and about to call the API of a mutex of kind k.
Calls(t, k) == kind = k /\ state[t] = "TASK_READY" /\ pc[t] = "run"

-----------------------------------------------------------------------------
(* Mutated forms of the definitions below: plausible slips, each of which   *)
(* has to violate the property it is listed with.                           *)

\* The unlock path frees the mutex although it also wakes the first waiter.
HandoverFreesMutex(t) ==
    /\ mutex' = [mutex EXCEPT !.locked = FALSE, !.owner = NULL,
                              !.waiting_tasks = IF @ = <<>> THEN @ ELSE Tail(@)]
    /\ state' = SetReady(state, UnlockWakes(mutex, t))

\* The new owner is not made ready.
HandoverWithoutWakeup(t) ==
    /\ mutex' = MutexUnlock(mutex, t)
    /\ state' = state

\* The newest waiter is served instead of the oldest.
HandoverToLast(t) ==
    LET q == mutex.waiting_tasks
    IN  IF q = <<>>
        THEN mutex' = MutexUnlock(mutex, t) /\ state' = state
        ELSE /\ mutex' = [mutex EXCEPT !.owner = q[Len(q)],
                                       !.waiting_tasks = SubSeq(@, 1, Len(q) - 1)]
             /\ state' = SetReady(state, {q[Len(q)]})

\* The waiter is queued but its state is left alone.
BlockStaysReady(t) ==
    /\ mutex' = MutexWait(mutex, t)
    /\ state' = state
    /\ pc' = [pc EXCEPT ![t] = "yield"]

\* The count is cleared although the mutex is handed over.
FullUnlockClearsCount(t) ==
    /\ mutex' = [MutexUnlock(mutex, t) EXCEPT !.recursive_count = 0]
    /\ state' = SetReady(state, UnlockWakes(mutex, t))

-----------------------------------------------------------------------------
(* The branches shared by the lock and unlock functions. *)

\* The mutex is locked by somebody else: queue the caller and yield.
Block(t) ==
    /\ mutex' = MutexWait(mutex, t)
    /\ state' = SetBlocked(state, t)
    /\ pc' = [pc EXCEPT ![t] = "yield"]

\* The owner t gives the plain mutex up: hand it over or free it.
Handover(t) ==
    /\ mutex' = MutexUnlock(mutex, t)
    /\ state' = SetReady(state, UnlockWakes(mutex, t))

\* The owner t gives the recursive mutex up; the count belongs to the new owner.
FullUnlock(t) ==
    /\ mutex' = [MutexUnlock(mutex, t) EXCEPT
                    !.recursive_count = IF mutex.waiting_tasks # <<>> THEN 1 ELSE 0]
    /\ state' = SetReady(state, UnlockWakes(mutex, t))

-----------------------------------------------------------------------------
(* The operations. *)

mutex_lock(t) ==
    /\ Calls(t, "plain")
    /\ \/ /\ ~mutex.locked
          /\ mutex' = MutexTake(mutex, t)
          /\ depth' = [depth EXCEPT ![t] = @ + 1]
          /\ UNCHANGED <<state, pc>>
       \/ /\ mutex.locked
          /\ Block(t)
          /\ UNCHANGED depth
    /\ UNCHANGED kind

\* A failed attempt changes nothing, so only the successful one is a step.
mutex_trylock(t) ==
    /\ Calls(t, "plain")
    /\ ~mutex.locked
    /\ mutex' = MutexTake(mutex, t)
    /\ depth' = [depth EXCEPT ![t] = @ + 1]
    /\ UNCHANGED <<kind, state, pc>>

\* A caller that is not the owner returns at once.
mutex_unlock(t) ==
    /\ Calls(t, "plain")
    /\ mutex.owner = t
    /\ Handover(t)
    /\ depth' = [depth EXCEPT ![t] = @ - 1]
    /\ UNCHANGED <<kind, pc>>

recursive_mutex_lock(t) ==
    /\ Calls(t, "recursive")
    /\ \/ /\ mutex.owner = t
          /\ mutex.recursive_count < MaxDepth
          /\ mutex' = [mutex EXCEPT !.recursive_count = @ + 1]
          /\ depth' = [depth EXCEPT ![t] = @ + 1]
          /\ UNCHANGED <<state, pc>>
       \/ /\ mutex.owner # t
          /\ ~mutex.locked
          /\ mutex' = [MutexTake(mutex, t) EXCEPT !.recursive_count = 1]
          /\ depth' = [depth EXCEPT ![t] = @ + 1]
          /\ UNCHANGED <<state, pc>>
       \/ /\ mutex.owner # t
          /\ mutex.locked
          /\ Block(t)
          /\ UNCHANGED depth
    /\ UNCHANGED kind

\* The count is at least 1 here (RecursionBalanced), so --recursive_count does
\* not wrap around.
recursive_mutex_unlock(t) ==
    /\ Calls(t, "recursive")
    /\ mutex.owner = t
    /\ \/ /\ mutex.recursive_count > 1
          /\ mutex' = [mutex EXCEPT !.recursive_count = @ - 1]
          /\ UNCHANGED state
       \/ /\ mutex.recursive_count = 1
          /\ FullUnlock(t)
    /\ depth' = [depth EXCEPT ![t] = @ - 1]
    /\ UNCHANGED <<kind, pc>>

\* task_yield() returns to a task that is ready again, and with it the lock call.
ReturnFromYield(t) ==
    /\ pc[t] = "yield"
    /\ state[t] = "TASK_READY"
    /\ pc' = [pc EXCEPT ![t] = "run"]
    /\ depth' = [depth EXCEPT ![t] = @ + 1]
    /\ UNCHANGED <<kind, mutex, state>>

StepOf(t) ==
    \/ mutex_lock(t)
    \/ mutex_trylock(t)
    \/ mutex_unlock(t)
    \/ recursive_mutex_lock(t)
    \/ recursive_mutex_unlock(t)
    \/ ReturnFromYield(t)

Next == \E t \in Tasks : StepOf(t)

Spec == Init /\ [][Next]_vars

-----------------------------------------------------------------------------
(* Properties. *)

Waiting == {mutex.waiting_tasks[i] : i \in DOMAIN mutex.waiting_tasks}

\* Between a lock call that returned (mutex_lock, recursive_mutex_lock, or
\* mutex_trylock with true) and the matching unlock, no other task is in that
\* position: what the callers of mutex.c rely on.
MutualExclusion ==
    \A t, u \in Tasks : depth[t] > 0 /\ depth[u] > 0 => t = u

\* A blocked task is on the wait queue, once, and waits for a mutex somebody
\* owns; a queued task is blocked.  So no wake-up in mutex_unlock is lost, and
\* none is given to a task that still runs.
NoForgottenWaiter ==
    /\ \A t \in Tasks : state[t] = "TASK_BLOCKED" <=> t \in Waiting
    /\ \A i, j \in DOMAIN mutex.waiting_tasks :
           mutex.waiting_tasks[i] = mutex.waiting_tasks[j] => i = j
    /\ Waiting # {} => mutex.locked /\ mutex.owner \in Tasks

\* recursive_count is the nesting depth of the owner, counting the lock call of
\* an owner that took the mutex over and has not returned from task_yield yet.
RecursionBalanced ==
    kind = "recursive" =>
        IF mutex.owner = NULL THEN mutex.recursive_count = 0
        ELSE mutex.recursive_count =
                depth[mutex.owner] + (IF pc[mutex.owner] = "yield" THEN 1 ELSE 0)

\* Waiting tasks get the mutex in the order in which they queued up, and no
\* lock or trylock call gets ahead of them.
NoOvertaking ==
    [][ Waiting # {} =>
          mutex'.owner \in {mutex.owner, FirstWaiting(mutex.waiting_tasks)} ]_vars

\* A task that locks a plain mutex it owns waits for itself: nothing in
\* mutex_lock detects it.
SelfDeadlock == mutex.owner \in Waiting

-----------------------------------------------------------------------------
(* mutex.c implements a lock: see LockService.  What a caller sees of task  *)
(* t is whether its lock call is still blocked or has (all but) returned.   *)

status ==
    [t \in Tasks |->
        IF depth[t] > 0 \/ (pc[t] = "yield" /\ state[t] = "TASK_READY") THEN "in"
        ELSE IF pc[t] = "yield" THEN "waiting" ELSE "out"]

Lock == INSTANCE LockService

\* Every step of the mutex is a step of the lock service, or invisible to callers.
ImplementsLockService == Lock!LockSpec
=============================================================================
