------------------------------ MODULE MsgQueue ------------------------------
(***************************************************************************)
(* msg_queue.c: msgq_send and msgq_receive on one message queue, a ring    *)
(* buffer under a mutex with the conditions not_full and not_empty.        *)
(*                                                                         *)
(* Time: condition_timedwait compares the clock with its start when it     *)
(* returns, and how late a task runs is up to the scheduler, so the result *)
(* is a nondeterministic choice from MayBeLate.  Nothing in the code reads *)
(* wake_time, so nothing but a signal ends the wait.                       *)
(***************************************************************************)
EXTENDS Monitor, FiniteSets

CONSTANTS Messages,    \* records with a field type in Nat \ {0}
          WantedTypes, \* the types receivers ask for; 0 is any type
          Timeouts,    \* the timeouts of callers; 0 is do not wait
          MayBeLate,   \* possible outcomes of "timed out" after a wake-up
          max_msgs     \* capacity of the queue

ASSUME MsgQueueAssumption ==
    /\ max_msgs \in Nat \ {0} /\ IsFiniteSet(Tasks)
    /\ Conds = {"not_full", "not_empty"} /\ NULL \notin Conds
    /\ \A m \in Messages : m.type \in Nat \ {0}
    /\ WantedTypes \subseteq Nat /\ Timeouts \subseteq Nat /\ MayBeLate \subseteq BOOLEAN

VARIABLES
    buffer, head, tail, msg_count,  \* msg_queue_t
    op,     \* the call each task is in: operation, argument and timeout
    timed,  \* tasks that have yet to look at the result of condition_timedwait
    swallowed  \* history: a task that was signalled has given up, and the signal with it

mqVars == <<buffer, head, tail, msg_count>>
vars == <<monitorVars, mqVars, op, timed, swallowed>>

Slots == 0..(max_msgs - 1)
NoOp == [fn |-> "none"]
\* What a task has in its hands when msgq_receive has copied a message out.
Received == [fn : {"received"}, type : WantedTypes, msg : Messages]
Calls == [fn : {"send"}, msg : Messages, timeout : Timeouts]
         \cup [fn : {"receive"}, type : WantedTypes, timeout : Timeouts]

TypeOK ==
    /\ MonitorTypeOK
    /\ buffer \in [Slots -> Messages \cup {NULL}]
    /\ head \in Slots /\ tail \in Slots
    /\ msg_count \in 0..max_msgs
    /\ op \in [Tasks -> Calls \cup Received \cup {NoOp}]
    /\ timed \subseteq Tasks
    /\ swallowed \in BOOLEAN

\* msgq_create.  The buffer is not cleared: NULL stands for what malloc left.
Init ==
    /\ MonitorInit
    /\ buffer = [s \in Slots |-> NULL]
    /\ head = 0 /\ tail = 0 /\ msg_count = 0
    /\ op = [t \in Tasks |-> NoOp]
    /\ timed = {}
    /\ swallowed = FALSE

-----------------------------------------------------------------------------
(* Mutated forms of the definitions below. *)

\* A message is taken out by moving the head only.
DequeueMovesHeadOnly(i) ==
    /\ head' = (head + 1) % max_msgs
    /\ UNCHANGED buffer

\* The sender tells nobody about the message.
msgq_send_silent(t) ==
    \/ /\ msg_count >= max_msgs /\ UNCHANGED mqVars
       /\ IF op[t].timeout = 0 THEN Finish(t, NULL) ELSE condition_wait(t, "not_full")
    \/ /\ msg_count < max_msgs
       /\ buffer' = [buffer EXCEPT ![tail] = op[t].msg]
       /\ tail' = (tail + 1) % max_msgs
       /\ msg_count' = msg_count + 1
       /\ UNCHANGED head
       /\ Finish(t, NULL)

-----------------------------------------------------------------------------
(* The operations. *)

Call(t) ==
    /\ op[t] = NoOp
    /\ \E call \in Calls : op' = [op EXCEPT ![t] = call]
    /\ Enter(t)
    /\ UNCHANGED <<mqVars, timed, swallowed>>

\* The loop conditions of msgq_send and msgq_receive.
Full == msg_count >= max_msgs
Empty == msg_count = 0

\* The loop body: give up if the caller does not want to wait.
Wait(t, c) ==
    /\ UNCHANGED mqVars
    /\ \/ op[t].timeout = 0 /\ Finish(t, NULL)
       \/ op[t].timeout > 0 /\ condition_wait(t, c)

\* The buffer index of the i-th oldest message.
Slot(i) == (head + i - 1) % max_msgs

\* The oldest message of the wanted type, or 0.
Find(type) ==
    LET hits == {i \in 1..msg_count : type = 0 \/ buffer[Slot(i)].type = type}
    IN  IF hits = {} THEN 0 ELSE CHOOSE i \in hits : \A j \in hits : i <= j

\* Taking the i-th message out: the i - 1 older ones move up one slot.
Dequeue(i) ==
    /\ buffer' = [s \in Slots |->
                     IF \E j \in 2..i : s = Slot(j)
                     THEN buffer[(s - 1 + max_msgs) % max_msgs] ELSE buffer[s]]
    /\ head' = (head + 1) % max_msgs

msgq_send(t) ==
    \/ Full /\ Wait(t, "not_full")
    \/ /\ ~Full
       /\ buffer' = [buffer EXCEPT ![tail] = op[t].msg]
       /\ tail' = (tail + 1) % max_msgs
       /\ msg_count' = msg_count + 1
       /\ UNCHANGED head
       /\ Finish(t, "not_empty")

\* The message is copied out before the older ones move up.
msgq_receive(t) ==
    \/ Empty /\ Wait(t, "not_empty") /\ UNCHANGED op
    \/ ~Empty /\ Find(op[t].type) = 0 /\ Finish(t, NULL) /\ UNCHANGED <<mqVars, op>>
    \/ /\ ~Empty /\ Find(op[t].type) # 0
       /\ op' = [op EXCEPT ![t] = [fn |-> "received", type |-> op[t].type,
                                   msg |-> buffer[Slot(Find(op[t].type))]]]
       /\ Dequeue(Find(op[t].type))
       /\ msg_count' = msg_count - 1
       /\ UNCHANGED tail
       /\ Finish(t, "not_full")

\* A task that comes from condition_timedwait too late gives up; the others run
\* the loop test (again).
Body(t) ==
    /\ Runs(t, "body")
    /\ \/ t \in timed /\ TRUE \in MayBeLate /\ Finish(t, NULL) /\ UNCHANGED <<mqVars, op>>
       \/ /\ t \in timed => FALSE \in MayBeLate
          /\ \/ op[t].fn = "send" /\ msgq_send(t) /\ UNCHANGED op
             \/ op[t].fn = "receive" /\ msgq_receive(t)
    /\ timed' = timed \ {t}
    /\ swallowed' = (swallowed \/ (t \in timed /\ at'[t] = "unlock" /\ UNCHANGED msg_count))

\* The end of condition_timedwait for a signalled task: mutex_lock again.
Rewait(t) ==
    /\ Relock(t)
    /\ timed' = timed \cup {t}
    /\ UNCHANGED <<mqVars, op, swallowed>>

Return(t) ==
    /\ Leave(t)
    /\ op' = [op EXCEPT ![t] = NoOp]
    /\ UNCHANGED <<mqVars, timed, swallowed>>

Continue(t) == \/ Granted(t) /\ UNCHANGED <<mqVars, op, timed, swallowed>>
               \/ Rewait(t)
               \/ Body(t)
               \/ Return(t)

Next == \E t \in Tasks : Call(t) \/ Continue(t)

Spec == Init /\ [][Next]_vars

-----------------------------------------------------------------------------
(* Properties. *)

\* The messages in the queue, oldest first.
chan == [i \in 1..msg_count |-> buffer[Slot(i)]]

\* What each task has received and not returned with yet.
got == [t \in Tasks |-> IF op[t].fn = "received" THEN [type |-> op[t].type, msg |-> op[t].msg]
                        ELSE NULL]

Channel == INSTANCE MsgChannel WITH Capacity <- max_msgs

\* The ring buffer behaves as the bounded channel of ipc.h: messages are neither
\* lost, duplicated nor reordered, and a receiver gets, and takes out, the oldest
\* message of the type it asked for.
ImplementsMsgChannel == Channel!ChanSpec

\* Tasks that will look at the queue before they sleep (again) or leave.
Active(fn) == {t \in Tasks : op[t].fn = fn /\ state[t] = "TASK_READY"
                               /\ at[t] \in {"wait", "lock", "body"}}
              \cup {t \in Tasks : op[t].fn = fn /\ t \in Queued(lock.waiting_tasks)}

\* Nobody sleeps on a condition that holds, unless somebody who was woken for it
\* is still on the way: no wake-up of condition_signal is lost.
NoStrandedReceiver ==
    cond["not_empty"] # <<>> /\ ~Empty => Active("receive") # {}
NoStrandedSender ==
    cond["not_full"] # <<>> /\ ~Full => Active("send") # {}

\* The same for both sides as long as no signalled task has given up, be it late
\* or be it a receiver that finds no message of its type: these are the only
\* ways in which msgq_send and msgq_receive lose a wake-up.
WakeupsReachWaiters == ~swallowed => NoStrandedReceiver /\ NoStrandedSender
=============================================================================
