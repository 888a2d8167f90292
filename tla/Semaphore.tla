------------------------------ MODULE Semaphore ------------------------------
(***************************************************************************)
(* semaphore.c: one counting semaphore used by preemptible tasks.  As in   *)
(* Mutex, each call body is one step (interrupts are disabled) and a task  *)
(* that waits is left in task_yield() until a post makes it ready; the     *)
(* permit is then its own, although no variable says so.                   *)
(***************************************************************************)
EXTENDS SyncPrimitives, FiniteSets

CONSTANTS Initial,    \* initial_count
          MaxPosts    \* bound on the number of semaphore_post calls

ASSUME SemaphoreAssumption ==
    Initial \in Nat /\ MaxPosts \in Nat /\ IsFiniteSet(Tasks)

VARIABLES
    count,          \* sem->count
    waiting_tasks,  \* sem->waiting_tasks
    state,          \* task_t.state
    pc,             \* "run" or "yield"
    posted,         \* history: posts so far
    acquired        \* history: waits and trywaits that returned with a permit

vars == <<count, waiting_tasks, state, pc, posted, acquired>>

TypeOK ==
    /\ count \in Nat
    /\ waiting_tasks \in Seq(Tasks)
    /\ state \in [Tasks -> TaskState]
    /\ pc \in [Tasks -> {"run", "yield"}]
    /\ posted \in 0..MaxPosts
    /\ acquired \in Nat

\* semaphore_init.
Init ==
    /\ count = Initial
    /\ waiting_tasks = <<>>
    /\ state = [t \in Tasks |-> "TASK_READY"]
    /\ pc = [t \in Tasks |-> "run"]
    /\ posted = 0
    /\ acquired = 0

Runs(t) == state[t] = "TASK_READY" /\ pc[t] = "run"

-----------------------------------------------------------------------------
(* Mutated forms of the actions below. *)

\* Counts the permit although it wakes a waiter with it.
semaphore_post_always_counts(t) ==
    /\ Runs(t)
    /\ posted < MaxPosts
    /\ posted' = posted + 1
    /\ count' = count + 1
    /\ IF waiting_tasks = <<>> THEN UNCHANGED <<waiting_tasks, state>>
       ELSE /\ waiting_tasks' = remove_from_wait_queue(waiting_tasks)
            /\ state' = SetReady(state, {FirstWaiting(waiting_tasks)})
    /\ UNCHANGED <<pc, acquired>>

\* Never looks at the queue: the waiters stay asleep.
semaphore_post_no_wakeup(t) ==
    /\ Runs(t)
    /\ posted < MaxPosts
    /\ posted' = posted + 1
    /\ count' = count + 1
    /\ UNCHANGED <<waiting_tasks, state, pc, acquired>>

\* Serves the task that came last.
semaphore_post_wakes_last(t) ==
    /\ Runs(t)
    /\ posted < MaxPosts
    /\ posted' = posted + 1
    /\ IF waiting_tasks = <<>> THEN count' = count + 1 /\ UNCHANGED <<waiting_tasks, state>>
       ELSE /\ waiting_tasks' = SubSeq(waiting_tasks, 1, Len(waiting_tasks) - 1)
            /\ state' = SetReady(state, {waiting_tasks[Len(waiting_tasks)]})
            /\ UNCHANGED count
    /\ UNCHANGED <<pc, acquired>>

-----------------------------------------------------------------------------
(* The operations. *)

semaphore_wait(t) ==
    /\ Runs(t)
    /\ \/ /\ count > 0
          /\ count' = count - 1
          /\ acquired' = acquired + 1
          /\ UNCHANGED <<waiting_tasks, state, pc>>
       \/ /\ count <= 0
          /\ waiting_tasks' = add_to_wait_queue(waiting_tasks, t)
          /\ state' = SetBlocked(state, t)
          /\ pc' = [pc EXCEPT ![t] = "yield"]
          /\ UNCHANGED <<count, acquired>>
    /\ UNCHANGED posted

\* A failed attempt changes nothing, so only the successful one is a step.
semaphore_trywait(t) ==
    /\ Runs(t)
    /\ count > 0
    /\ count' = count - 1
    /\ acquired' = acquired + 1
    /\ UNCHANGED <<waiting_tasks, state, pc, posted>>

semaphore_post(t) ==
    /\ Runs(t)
    /\ posted < MaxPosts
    /\ posted' = posted + 1
    /\ \/ /\ waiting_tasks # <<>>
          /\ waiting_tasks' = remove_from_wait_queue(waiting_tasks)
          /\ state' = SetReady(state, {FirstWaiting(waiting_tasks)})
          /\ UNCHANGED count
       \/ /\ waiting_tasks = <<>>
          /\ count' = count + 1
          /\ UNCHANGED <<waiting_tasks, state>>
    /\ UNCHANGED <<pc, acquired>>

\* task_yield() returns to a woken task, and semaphore_wait with it.
ReturnFromYield(t) ==
    /\ pc[t] = "yield"
    /\ state[t] = "TASK_READY"
    /\ pc' = [pc EXCEPT ![t] = "run"]
    /\ acquired' = acquired + 1
    /\ UNCHANGED <<count, waiting_tasks, state, posted>>

Next ==
    \E t \in Tasks :
        \/ semaphore_wait(t)
        \/ semaphore_trywait(t)
        \/ semaphore_post(t)
        \/ ReturnFromYield(t)

Spec == Init /\ [][Next]_vars

-----------------------------------------------------------------------------
(* Properties. *)

Waiting == {waiting_tasks[i] : i \in DOMAIN waiting_tasks}

\* Tasks a post has woken that have not returned from task_yield yet.
Woken == {t \in Tasks : pc[t] = "yield" /\ state[t] = "TASK_READY"}

\* No permit is lost and none is made up: every permit (initial_count and one
\* per post) is in count, was returned by a wait, or belongs to a task that a
\* post has woken and that has yet to return.
PermitsConserved == count + acquired + Cardinality(Woken) = Initial + posted

\* No task sleeps in semaphore_wait while a permit is available, so a post is
\* never lost on a waiter.
NoSleepOnPermit == count > 0 => Waiting = {}

\* The tasks in semaphore_wait's task_yield() are the queued ones, each queued
\* once and blocked, and the woken ones, which are on no queue.
SleepersAreQueued ==
    /\ \A i, j \in DOMAIN waiting_tasks : waiting_tasks[i] = waiting_tasks[j] => i = j
    /\ \A t \in Tasks : t \in Waiting <=> state[t] = "TASK_BLOCKED"
    /\ \A t \in Tasks : pc[t] = "yield" <=> t \in Waiting \cup Woken

\* A post wakes only the task that waits longest (remove_from_wait_queue), and
\* nothing but a post wakes a task.
FifoWakeup ==
    [][ \A t \in Tasks :
          state[t] = "TASK_BLOCKED" /\ state'[t] = "TASK_READY"
          => t = FirstWaiting(waiting_tasks) ]_vars
=============================================================================
