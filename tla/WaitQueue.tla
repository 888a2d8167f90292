----------------------------- MODULE WaitQueue -----------------------------
(***************************************************************************)
(* mutex.c, add_to_wait_queue and remove_from_wait_queue on the pointers:  *)
(* every mutex, semaphore and condition has a list of waiting tasks, all   *)
(* of them linked through the one field next_wait of task_t.  The other    *)
(* modules take such a list for a sequence; here the lists implement       *)
(* FifoQueues as long as a task is added to a queue only while it is on    *)
(* none: the callers add themselves and yield until they were taken off.   *)
(***************************************************************************)
EXTENDS TaskLinks, FiniteSets

CONSTANTS Waiters,  \* the tasks
          Queues,   \* the mutexes, semaphores and conditions
          Nil       \* the null pointer

ASSUME WaitAssumption == IsFiniteSet(Waiters) /\ Nil \notin Waiters \cup Queues

VARIABLES
    first,      \* the head pointer of each queue (waiting_tasks)
    next_wait,  \* the link of each task
    waits       \* history: the queue each task is on, or Nil

waitVars == <<first, next_wait, waits>>

WaitInit ==
    /\ first = [q \in Queues |-> Nil]
    /\ next_wait = [t \in Waiters |-> Nil]
    /\ waits = [t \in Waiters |-> Nil]

\* The tasks that the loop of add_to_wait_queue meets, in order.
WaitList(q) == Walk(Waiters, Nil, next_wait, first[q], Cardinality(Waiters))

-----------------------------------------------------------------------------
(* Mutated forms of the actions below. *)

\* The new task is linked in behind the head: the rest of the list is lost.
add_to_wait_queue_behind_head(q, t) ==
    /\ waits[t] = Nil
    /\ waits' = [waits EXCEPT ![t] = q]
    /\ IF first[q] = Nil
       THEN first' = [first EXCEPT ![q] = t] /\ next_wait' = [next_wait EXCEPT ![t] = Nil]
       ELSE /\ next_wait' = [next_wait EXCEPT ![t] = Nil, ![first[q]] = t]
            /\ UNCHANGED first

-----------------------------------------------------------------------------
(* The operations. *)

\* Walk to the last task of the list and link the new one behind it.
add_to_wait_queue(q, t) ==
    /\ waits[t] = Nil
    /\ waits' = [waits EXCEPT ![t] = q]
    /\ \/ /\ first[q] = Nil
          /\ first' = [first EXCEPT ![q] = t]
          /\ next_wait' = [next_wait EXCEPT ![t] = Nil]
       \/ /\ first[q] # Nil
          /\ next_wait' = [next_wait EXCEPT ![t] = Nil, ![WaitList(q)[Len(WaitList(q))]] = t]
          /\ UNCHANGED first

remove_from_wait_queue(q) ==
    /\ first[q] # Nil
    /\ first' = [first EXCEPT ![q] = next_wait[first[q]]]
    /\ next_wait' = [next_wait EXCEPT ![first[q]] = Nil]
    /\ waits' = [waits EXCEPT ![first[q]] = Nil]

WaitNext ==
    \E q \in Queues : remove_from_wait_queue(q) \/ \E t \in Waiters : add_to_wait_queue(q, t)

WaitSpec == WaitInit /\ [][WaitNext]_waitVars

-----------------------------------------------------------------------------
(* Properties. *)

lists == [q \in Queues |-> WaitList(q)]

Fifo == INSTANCE FifoQueues WITH Tasks <- Waiters, queues <- lists

(***************************************************************************)
(* The lists that add_to_wait_queue and remove_from_wait_queue link through *)
(* next_wait behave as first-in-first-out queues, although every mutex,    *)
(* semaphore and condition uses the same link of a task.                   *)
(***************************************************************************)
ImplementsFifoQueues == Fifo!QueuesSpec
=============================================================================
