-------------------------------- MODULE Mlfq --------------------------------
(***************************************************************************)
(* scheduler_mlfq.c, the multi-level feedback queue, with the parts of     *)
(* scheduler.c and task.c that drive it: the tick of the timer interrupt,  *)
(* scheduler_start, scheduler_stop, scheduler_set_policy, task_yield,      *)
(* task_sleep, task_suspend, task_resume and task_schedule.  The queues    *)
(* are modelled on their pointers, because what may go wrong with them is  *)
(* losing a task.                                                          *)
(*                                                                         *)
(* Nothing masks the timer interrupt while a task works on the lists, and  *)
(* its handler may run scheduler_mlfq_boost on them: the demotion of       *)
(* scheduler_set_policy and every mlfq_enqueue of a task are sequences of  *)
(* steps, and the timer may tick between any two of them.  A boost that    *)
(* finds the lists half changed, or changes what the task has read of      *)
(* them, is recorded in damage, and nothing is claimed afterwards; a boost *)
(* between the unlinking and the enqueue is not, and must do no harm.      *)
(***************************************************************************)
EXTENDS TaskLinks, SequencesExt, FiniteSetsExt

CONSTANTS
    Tasks, NULL,
    MLFQ_QUEUE_COUNT,
    BASE_QUANTUM,   \* quantum of queue 0 in ticks
    boost_period

Levels == 0..(MLFQ_QUEUE_COUNT - 1)

time_quantum(i) == 2^i * BASE_QUANTUM

\* The running task works on the lists, and what it remembers: the locals prev and
\* next_queue of scheduler_mlfq_update_queue (or the queue_index of mlfq_enqueue), the
\* outcome of the test of queue->head, and whether this is a demotion or a new task.
Windows == {"search", "found", "cut", "out", "enqueue", "linking", "linked", "return"}
Operations == [task : Tasks, pc : Windows, prev : Tasks \cup {NULL}, to : Levels,
               occupied : BOOLEAN, demotion : BOOLEAN]

\* NULL is no task and none of the structures below.
ASSUME MlfqAssumption ==
    /\ IsFiniteSet(Tasks) /\ NULL \notin Tasks
    /\ NULL \notin [current_queue : Levels, time_slice : Nat]
    /\ NULL \notin Operations
    /\ MLFQ_QUEUE_COUNT \in Nat \ {0} /\ BASE_QUANTUM \in Nat \ {0}
    /\ boost_period \in Nat \ {0}
    /\ \A i \in Levels : time_quantum(i) \in Nat

VARIABLES
    queues,          \* per queue: head, tail, task_count
    next,            \* task_t.next
    params,          \* task_t.scheduler_data: current_queue, time_slice; NULL before init_task
    state,           \* task_t.state
    current,         \* current_task
    scheduler_state,
    policy,          \* current_policy: MLFQ, or ROUND_ROBIN, which no switch has a case for
    boost_counter,
    busy,            \* the list operation the running task is in the middle of, or NULL
    sleeping,        \* tasks in task_sleep
    cpu,             \* "ok", or "lost" after context_switch(prev, NULL)
    damage           \* history: what has spoiled the lists.  "race": a boost in a window
                     \* of Exposed; "reuse": task_create took a slot still linked

listVars == <<queues, next, params, boost_counter, busy, damage>>
taskVars == <<state, current, sleeping, cpu>>
schedVars == <<scheduler_state, policy>>
vars == <<listVars, taskVars, schedVars>>

\* scheduler_init, after which the policy is set to MLFQ before the first task.
Init ==
    /\ queues = [i \in Levels |-> [head |-> NULL, tail |-> NULL, task_count |-> 0]]
    /\ next = [t \in Tasks |-> NULL]
    /\ params = [t \in Tasks |-> NULL]
    /\ state = [t \in Tasks |-> "TASK_READY"]
    /\ current = NULL
    /\ scheduler_state = "SCHEDULER_STOPPED"
    /\ policy = "MLFQ"
    /\ boost_counter = 0
    /\ busy = NULL
    /\ sleeping = {}
    /\ cpu = "ok"
    /\ damage = {}

\* Code that runs as a task, or as main() before the first task: not while the
\* running task is in the middle of a list operation.
InTask == cpu = "ok" /\ busy = NULL

-----------------------------------------------------------------------------
(* The lists.  A structure l holds the queues and the links, so that a      *)
(* handler that performs several list operations can pass it on.            *)

Lists == [q |-> queues, n |-> next]

MaxChain == Cardinality(Tasks) + 1   \* a cycle shows as repetition

\* The tasks on queue i, in order.
Chain(l, i) == Walk(Tasks, NULL, l.n, l.q[i].head, MaxChain)
List(i) == Chain(Lists, i)

\* What mlfq_enqueue tests first.
Occupied(l, i) == l.q[i].head # NULL

\* Its first write: link the task in, by the branch the test has chosen.
LinkIn(l, i, t, occupied) ==
    IF occupied
    THEN [q |-> l.q, n |-> [l.n EXCEPT ![t] = NULL, ![l.q[i].tail] = t]]
    ELSE [q |-> [l.q EXCEPT ![i].head = t, ![i].tail = t], n |-> [l.n EXCEPT ![t] = NULL]]

\* Then move the tail, unless the queue was empty, and count.
MoveTail(l, i, t, occupied) ==
    [l EXCEPT !.q[i].tail = IF occupied THEN t ELSE @, !.q[i].task_count = @ + 1]

\* All of it, as the boost runs it.
mlfq_enqueue(l, i, t) ==
    MoveTail(LinkIn(l, i, t, Occupied(l, i)), i, t, Occupied(l, i))

\* The lists after mlfq_dequeue(i); it returns the old head.
mlfq_dequeue(l, i) ==
    LET t == l.q[i].head
        h == l.n[t]
    IN  [q |-> [l.q EXCEPT ![i] = [head |-> h, tail |-> IF h = NULL THEN NULL ELSE @.tail,
                                   task_count |-> @.task_count - 1]],
         n |-> [l.n EXCEPT ![t] = NULL]]

\* The inner loop of scheduler_mlfq_boost: queue k is emptied into queue 0.
MoveUp(l, k) ==
    IF l.q[k].head = NULL THEN l ELSE mlfq_enqueue(mlfq_dequeue(l, k), 0, l.q[k].head)

Drain(l, k) ==
    LET moved[j \in 0..Len(Chain(l, k))] == IF j = 0 THEN l ELSE MoveUp(moved[j - 1], k)
    IN  moved[Len(Chain(l, k))]

-----------------------------------------------------------------------------
(* Mutated forms of the definitions below. *)

\* The tail is left pointing at the task that was taken out.
FixTailNot(l, i, t, prev) == [l EXCEPT !.q[i].task_count = @ - 1]

\* The boost leaves the last queue alone.
BoostSkipsLast ==
    LET drained[k \in 0..(MLFQ_QUEUE_COUNT - 1)] ==
            IF k = 0 THEN Lists ELSE Drain(drained[k - 1], k)
    IN  drained[MLFQ_QUEUE_COUNT - 2]

-----------------------------------------------------------------------------
(* Removing a task from the middle of a list, as scheduler_mlfq_update_queue *)
(* does by hand.                                                             *)

\* The search for t: whether it is found on queue i, and what is in front of it.
IsOn(l, i, t) == \E j \in DOMAIN Chain(l, i) : Chain(l, i)[j] = t

InFront(l, i, t) ==
    LET s == Chain(l, i)
        k == Min({j \in DOMAIN s : s[j] = t})
    IN  IF k = 1 THEN NULL ELSE s[k - 1]

\* t is taken out of the links,
CutOut(l, i, t, prev) ==
    IF prev = NULL THEN [q |-> [l.q EXCEPT ![i].head = l.n[t]], n |-> l.n]
    ELSE [q |-> l.q, n |-> [l.n EXCEPT ![prev] = l.n[t]]]

\* then out of the tail and the count.
FixTail(l, i, t, prev) ==
    [q |-> [l.q EXCEPT ![i].tail = IF @ = t THEN prev ELSE @, ![i].task_count = @ - 1],
     n |-> l.n]

SetLists(l) == queues' = l.q /\ next' = l.n

-----------------------------------------------------------------------------
(* Operations of the running task. *)

FirstParams == [current_queue |-> 0, time_slice |-> time_quantum(0)]

\* A new task: its parameters, then mlfq_enqueue(0, task).
scheduler_mlfq_init_task(t) ==
    /\ InTask
    /\ params[t] = NULL
    /\ params' = [params EXCEPT ![t] = FirstParams]
    /\ busy' = [task |-> t, pc |-> "enqueue", prev |-> NULL, to |-> 0,
                occupied |-> FALSE, demotion |-> FALSE]
    /\ UNCHANGED <<queues, next, boost_counter, damage, taskVars, schedVars>>

\* scheduler_mlfq_update_queue moves a task that has used up its slice one queue down.
UsedUp(t) == params[t] # NULL /\ params[t].time_slice = 0
NextQueue(cq) == IF cq + 1 >= MLFQ_QUEUE_COUNT THEN MLFQ_QUEUE_COUNT - 1 ELSE cq + 1

\* Leaving MLFQ updates the queue of the caller; leaving ROUND_ROBIN does nothing.
OtherPolicy == IF policy = "MLFQ" THEN "ROUND_ROBIN" ELSE "MLFQ"
Demotes == policy = "MLFQ" /\ current # NULL /\ UsedUp(current)

scheduler_set_policy ==
    /\ InTask
    /\ IF Demotes
       THEN /\ busy' = [task |-> current, pc |-> "search", prev |-> NULL,
                        to |-> NextQueue(params[current].current_queue),
                        occupied |-> FALSE, demotion |-> TRUE]
            /\ UNCHANGED policy
       ELSE policy' = OtherPolicy /\ UNCHANGED busy
    /\ UNCHANGED <<queues, next, params, boost_counter, damage, taskVars, scheduler_state>>

\* The step of the operation under way at pc, to the next one.
Step(pc, after) ==
    /\ busy # NULL /\ busy.pc = pc
    /\ busy' = after
    /\ UNCHANGED <<boost_counter, damage, taskVars, scheduler_state>>

At(pc) == [busy EXCEPT !.pc = pc]

\* params->current_queue is read again at every use.
Here == params[busy.task].current_queue

Search ==
    /\ Step("search", IF IsOn(Lists, Here, busy.task)
                      THEN [busy EXCEPT !.pc = "found", !.prev = InFront(Lists, Here, busy.task)]
                      ELSE At("out"))
    /\ UNCHANGED <<queues, next, params, policy>>

UnlinkTask ==
    /\ Step("found", At("cut"))
    /\ SetLists(CutOut(Lists, Here, busy.task, busy.prev))
    /\ UNCHANGED <<params, policy>>

UnlinkTail ==
    /\ Step("cut", At("out"))
    /\ SetLists(FixTail(Lists, Here, busy.task, busy.prev))
    /\ UNCHANGED <<params, policy>>

NewParams ==
    /\ Step("out", At("enqueue"))
    /\ params' = [params EXCEPT ![busy.task] = [current_queue |-> busy.to,
                                                time_slice |-> time_quantum(busy.to)]]
    /\ UNCHANGED <<queues, next, policy>>

TestHead ==
    /\ Step("enqueue", [busy EXCEPT !.pc = "linking", !.occupied = Occupied(Lists, busy.to)])
    /\ UNCHANGED <<queues, next, params, policy>>

LinkTask ==
    /\ Step("linking", At("linked"))
    /\ SetLists(LinkIn(Lists, busy.to, busy.task, busy.occupied))
    /\ UNCHANGED <<params, policy>>

FinishEnqueue ==
    /\ Step("linked", IF busy.demotion THEN At("return") ELSE NULL)
    /\ SetLists(MoveTail(Lists, busy.to, busy.task, busy.occupied))
    /\ UNCHANGED <<params, policy>>

FinishSetPolicy ==
    /\ Step("return", NULL)
    /\ policy' = OtherPolicy
    /\ UNCHANGED <<queues, next, params>>

Continue ==
    Search \/ UnlinkTask \/ UnlinkTail \/ NewParams \/ TestHead \/ LinkTask
        \/ FinishEnqueue \/ FinishSetPolicy

-----------------------------------------------------------------------------
(* The timer interrupt: timer_irq_handler, scheduler_tick. *)

Below == UNION {ToSet(List(k)) : k \in 1..(MLFQ_QUEUE_COUNT - 1)}

\* scheduler_mlfq_boost: every task on the queues 1, 2, ... goes to the end of
\* queue 0, with a new slice.
Boost ==
    LET drained[k \in 0..(MLFQ_QUEUE_COUNT - 1)] ==
            IF k = 0 THEN Lists ELSE Drain(drained[k - 1], k)
    IN  drained[MLFQ_QUEUE_COUNT - 1]

\* Where a boost does harm: from the search through the lists until the task is out of
\* them, and from the test of queue->head until it is linked in and counted.
Exposed == busy # NULL /\ busy.pc \in {"found", "cut", "linking", "linked"}

scheduler_mlfq_tick ==
    /\ current # NULL /\ params[current] # NULL
    /\ LET used == [params EXCEPT ![current].time_slice = IF @ > 0 THEN @ - 1 ELSE 0]
       IN  \/ /\ boost_counter + 1 >= boost_period
              /\ params' = [t \in Tasks |-> IF t \in Below THEN FirstParams ELSE used[t]]
              /\ SetLists(Boost)
              /\ boost_counter' = 0
              /\ damage' = IF Exposed THEN damage \cup {"race"} ELSE damage
           \/ /\ boost_counter + 1 < boost_period
              /\ params' = used
              /\ boost_counter' = boost_counter + 1
              /\ UNCHANGED <<queues, next, damage>>
    /\ UNCHANGED <<busy, taskVars, schedVars>>

\* The timer interrupt; under a policy without an implementation it does nothing.
scheduler_tick ==
    /\ cpu = "ok"
    /\ scheduler_state = "SCHEDULER_RUNNING" /\ policy = "MLFQ"
    /\ scheduler_mlfq_tick

-----------------------------------------------------------------------------
(* task.c *)

\* With the task states st: the first ready task of the first queue that has one.
scheduler_mlfq_next(st) ==
    LET ready(i) == {k \in DOMAIN List(i) : st[List(i)[k]] = "TASK_READY"}
        some  == {i \in Levels : ready(i) # {}}
        level == Min(some)
    IN  IF some = {} THEN NULL ELSE List(level)[Min(ready(level))]

scheduler_next_task(st) == IF policy = "MLFQ" THEN scheduler_mlfq_next(st) ELSE NULL

\* context_switch loads its stack from the task it is given, if that changes.
task_schedule(st) ==
    LET to == scheduler_next_task(st)
    IN  /\ current' = to
        /\ cpu' = IF to = NULL /\ current # NULL THEN "lost" ELSE cpu

scheduler_start ==
    /\ InTask
    /\ scheduler_state = "SCHEDULER_STOPPED"
    /\ scheduler_state' = "SCHEDULER_RUNNING"
    /\ task_schedule(state)
    /\ UNCHANGED <<listVars, state, sleeping, policy>>

scheduler_stop ==
    /\ InTask
    /\ scheduler_state' = "SCHEDULER_STOPPED"
    /\ UNCHANGED <<listVars, taskVars, policy>>

task_yield ==
    /\ InTask
    /\ current # NULL
    /\ task_schedule(state)
    /\ UNCHANGED <<listVars, state, sleeping, schedVars>>

task_sleep ==
    /\ InTask
    /\ current # NULL
    /\ state' = [state EXCEPT ![current] = "TASK_BLOCKED"]
    /\ sleeping' = sleeping \cup {current}
    /\ task_schedule(state')
    /\ UNCHANGED <<listVars, schedVars>>

\* The running task has to wait for a mutex, semaphore or condition variable.
BlockOnObject ==
    /\ InTask
    /\ current # NULL
    /\ state' = [state EXCEPT ![current] = "TASK_BLOCKED"]
    /\ task_schedule(state')
    /\ UNCHANGED <<listVars, sleeping, schedVars>>

\* That object wakes the task.  Nothing ends task_sleep: no code reads
\* ticks_remaining.
Wake(t) ==
    /\ InTask
    /\ state[t] = "TASK_BLOCKED" /\ t \notin sleeping
    /\ state' = [state EXCEPT ![t] = "TASK_READY"]
    /\ UNCHANGED <<listVars, current, sleeping, cpu, schedVars>>

task_suspend(t) ==
    /\ InTask
    /\ state' = [state EXCEPT ![t] = "TASK_SUSPENDED"]
    /\ IF t = current THEN task_schedule(state') ELSE UNCHANGED <<current, cpu>>
    /\ UNCHANGED <<listVars, sleeping, schedVars>>

\* Also ends the sleep of a task that was suspended meanwhile.
task_resume(t) ==
    /\ InTask
    /\ state[t] = "TASK_SUSPENDED"
    /\ state' = [state EXCEPT ![t] = "TASK_READY"]
    /\ sleeping' = sleeping \ {t}
    /\ UNCHANGED <<listVars, current, cpu, schedVars>>

Next ==
    \/ \E t \in Tasks : \/ scheduler_mlfq_init_task(t)
                        \/ Wake(t)
                        \/ task_suspend(t)
                        \/ task_resume(t)
    \/ scheduler_set_policy
    \/ Continue
    \/ scheduler_tick
    \/ scheduler_start
    \/ scheduler_stop
    \/ task_yield
    \/ task_sleep
    \/ BlockOnObject

Spec == Init /\ [][Next]_vars

-----------------------------------------------------------------------------
(* Properties. *)

\* Every initialised task is on exactly one queue, once: the one its parameters
\* name.  No boost, demotion or enqueue loses or duplicates a task, as long as no
\* boost falls into an exposed window and no linked slot is used again.
TasksOnTheirQueue ==
    \A t \in Tasks : damage = {} /\ params[t] # NULL /\ busy = NULL =>
        \A i \in Levels :
            Cardinality({k \in DOMAIN List(i) : List(i)[k] = t}) =
                IF params[t].current_queue = i THEN 1 ELSE 0

\* head, tail, the links and task_count agree, so that the next enqueue appends
\* behind the last task and cuts nothing off; under the same condition, but also
\* in the middle of a demotion, between the unlinking and the enqueue.
QueuesWellFormed ==
    damage = {} /\ ~Exposed =>
        \A i \in Levels :
            /\ queues[i].task_count = Len(List(i))
            /\ queues[i].tail = IF List(i) = <<>> THEN NULL ELSE Last(List(i))

\* No task is on the queues twice and no queue is a cycle, so that the loops of
\* scheduler_mlfq_next and of the boost end.
NoTaskTwice ==
    \A t \in Tasks :
        FoldLeft(LAMBDA n, i : n + Len(SelectSeq(List(i - 1), LAMBDA u : u = t)), 0,
                 [i \in 1..MLFQ_QUEUE_COUNT |-> i]) <= 1
=============================================================================
