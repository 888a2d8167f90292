---------------------------- MODULE RtScheduler ----------------------------
(***************************************************************************)
(* scheduler_rt.c: periodic tasks that the timer tick releases, charges    *)
(* and blocks.  scheduler_yield and scheduler_rt_next are called and       *)
(* defined nowhere: they are external, and take what edf_schedule or       *)
(* rm_schedule chooses.  realtime_params_t lacks the field execution_time  *)
(* that the tick increments; it is taken to start at 0, and no code resets *)
(* it.  Tasks are given parameters once: a second call would link a task   *)
(* to itself.                                                              *)
(***************************************************************************)
EXTENDS Integers, Sequences, SequencesExt

CONSTANTS
    RtTasks,
    NoTask,         \* nothing but the idle loop runs
    Periods, Executions,
    TickWrap,       \* the tick counter counts modulo this
    MaxDelay,       \* the handler may run this many ticks after the last time
    MaxTime         \* bound: ticks in a behaviour

\* Periods and execution times are unsigned numbers, and a task asks for at least
\* one tick of execution.
ASSUME RtAssumption ==
    /\ Periods \subseteq Nat /\ Executions \subseteq Nat \ {0}
    /\ TickWrap \in Nat \ {0} /\ MaxDelay \in Nat /\ MaxTime \in Nat
    /\ NoTask \notin RtTasks
    /\ NoTask \notin [period : Nat, deadline : Nat, execution : Nat \ {0},
                      execution_time : Nat, next_release : Nat]

VARIABLES
    rt_tasks,       \* the list, last added first
    params,         \* task -> realtime_params_t
    rtstate,        \* task -> "ready", "running", "blocked"
    rtcurrent,
    discipline,     \* which of the two functions scheduler_rt_next calls
    time,           \* ticks since the start; timer_get_ticks is its remainder
    job             \* history: task -> [start, releases, ran since the last one]

rtvars == <<rt_tasks, params, rtstate, rtcurrent, discipline, time, job>>

timer_get_ticks == time % TickWrap

RtInit ==
    /\ rt_tasks = <<>> /\ params = [t \in RtTasks |-> NoTask]
    /\ rtstate = [t \in RtTasks |-> "ready"]
    /\ rtcurrent = NoTask /\ time = 0
    /\ discipline \in {"edf", "rm"}
    /\ job = [t \in RtTasks |-> [start |-> 0, releases |-> 0, ran |-> 0]]

(***************************************************************************)
(* The first task of the list with the least key, if that is below the     *)
(* initial UINT32_MAX.                                                     *)
(***************************************************************************)
LeastReady(key, state) ==
    LET can   == {i \in DOMAIN rt_tasks : /\ state[rt_tasks[i]] = "ready"
                                          /\ key[rt_tasks[i]] < TickWrap - 1}
        first == CHOOSE i \in can : \A j \in can :
                    \/ key[rt_tasks[i]] < key[rt_tasks[j]]
                    \/ key[rt_tasks[i]] = key[rt_tasks[j]] /\ i <= j
    IN  IF can = {} THEN NoTask ELSE rt_tasks[first]

edf_schedule(state, p) == LeastReady([t \in ToSet(rt_tasks) |-> p[t].deadline], state)
rm_schedule(state, p)  == LeastReady([t \in ToSet(rt_tasks) |-> p[t].period], state)

\* External: the task that runs, if it is not blocked, is ready again.
scheduler_yield(state, p) ==
    LET waiting == [t \in RtTasks |-> IF state[t] = "running" THEN "ready" ELSE state[t]]
        next    == IF discipline = "edf" THEN edf_schedule(waiting, p) ELSE rm_schedule(waiting, p)
    IN  /\ rtcurrent' = next
        /\ rtstate' = [t \in RtTasks |-> IF t = next THEN "running" ELSE waiting[t]]

scheduler_set_realtime_params(t, period, deadline, execution) ==
    /\ params[t] = NoTask
    /\ params' = [params EXCEPT ![t] =
         [period |-> period, deadline |-> deadline, execution |-> execution, execution_time |-> 0,
          next_release |-> (timer_get_ticks + period) % TickWrap]]
    /\ rt_tasks' = <<t>> \o rt_tasks
    /\ job' = [job EXCEPT ![t].start = time]
    /\ UNCHANGED <<rtstate, rtcurrent, discipline, time>>

\* A task is due when the counter has reached its release time.
Due(t, now) == now >= params[t].next_release

\* Released with the new deadline, the old release time kept.
ReleaseForgetsNext(p, now) == [p EXCEPT !.deadline = (now + p.period) % TickWrap]

Release(p, now) == [p EXCEPT !.next_release = (@ + p.period) % TickWrap,
                             !.deadline = (now + p.period) % TickWrap]

(***************************************************************************)
(* scheduler_update_deadlines at tick now: the tasks it releases, their    *)
(* parameters, and the states it leaves.                                   *)
(***************************************************************************)
Released(now) == {t \in ToSet(rt_tasks) : Due(t, now)}
UpdatedParams(now) ==
    [t \in RtTasks |-> IF t \in Released(now) THEN Release(params[t], now) ELSE params[t]]
UpdatedStates(now) ==
    [t \in RtTasks |-> IF t \in Released(now) /\ rtstate[t] = "blocked" THEN "ready" ELSE rtstate[t]]

(***************************************************************************)
(* The timer interrupt, perhaps late: scheduler_rt_tick.                   *)
(***************************************************************************)
scheduler_rt_tick(delay) ==
    LET now     == (time + delay) % TickWrap
        p       == UpdatedParams(now)
        states  == UpdatedStates(now)
        charged == [p EXCEPT ![rtcurrent].execution_time = @ + 1]
        over    == charged[rtcurrent].execution_time >= p[rtcurrent].execution
    IN  /\ time + delay <= MaxTime
        /\ time' = time + delay
        /\ job' = [t \in RtTasks |->
                     [job[t] EXCEPT !.releases = @ + (IF t \in Released(now) THEN 1 ELSE 0),
                                    !.ran = (IF t \in Released(now) THEN 0 ELSE @)
                                            + (IF t = rtcurrent THEN 1 ELSE 0)]]
        /\ IF rtcurrent = NoTask
           THEN params' = p /\ rtstate' = states /\ UNCHANGED rtcurrent
           ELSE /\ params' = charged
                /\ IF over THEN scheduler_yield([states EXCEPT ![rtcurrent] = "blocked"], charged)
                   ELSE rtstate' = states /\ UNCHANGED rtcurrent
        /\ UNCHANGED <<rt_tasks, discipline>>

\* The running task, or the idle loop, gives up the processor.
task_yield ==
    /\ scheduler_yield(rtstate, params)
    /\ UNCHANGED <<rt_tasks, params, discipline, time, job>>

RtNext ==
    \/ \E t \in RtTasks, period \in Periods, execution \in Executions :
          scheduler_set_realtime_params(t, period, (time + period) % TickWrap, execution)
    \/ \E delay \in 1..MaxDelay : scheduler_rt_tick(delay)
    \/ task_yield

RtSpec == RtInit /\ [][RtNext]_rtvars

(***************************************************************************)
(* Until the release times reach the end of the tick counter, a task is    *)
(* released no more often than once a period, also when ticks come late    *)
(* and the releases are caught up one per tick; and from one release to    *)
(* the next it is charged no more than its execution time.  (Execution     *)
(* times are at least one tick.)                                           *)
(***************************************************************************)
RtPaced ==
    \A t \in ToSet(rt_tasks) :
        LET p == params[t]
        IN  time + p.period < TickWrap =>
               /\ job[t].releases * p.period <= time - job[t].start
               /\ job[t].ran <= p.execution
=============================================================================
