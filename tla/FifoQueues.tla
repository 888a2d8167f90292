----------------------------- MODULE FifoQueues -----------------------------
(***************************************************************************)
(* The wait queues as the rest of the project sees them: one sequence of   *)
(* tasks per queue, a task on at most one of them.                         *)
(***************************************************************************)
EXTENDS Naturals, Sequences

CONSTANTS Tasks, Queues

VARIABLE queues

QueuesInit == queues = [q \in Queues |-> <<>>]

OnSome(t) == \E q \in Queues : \E i \in DOMAIN queues[q] : queues[q][i] = t

Add(q, t) == ~OnSome(t) /\ queues' = [queues EXCEPT ![q] = Append(@, t)]

Remove(q) == queues[q] # <<>> /\ queues' = [queues EXCEPT ![q] = Tail(@)]

QueuesNext == \E q \in Queues : Remove(q) \/ \E t \in Tasks : Add(q, t)

QueuesSpec == QueuesInit /\ [][QueuesNext]_queues
=============================================================================
