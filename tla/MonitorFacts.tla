---------------------------- MODULE MonitorFacts ----------------------------
(***************************************************************************)
(* What holds of every object that rwlock.c, msg_queue.c and pipe.c build  *)
(* from one mutex and its conditions, whatever data it guards: the         *)
(* invariant of Monitor, and that each step of Monitor keeps it.  The      *)
(* proofs about RwLock, MsgQueue and Pipe rest on these lemmas.            *)
(***************************************************************************)
EXTENDS Monitor, TLAPS

\* add_to_wait_queue keeps the queue and puts the new task last.
LEMMA AppendFacts ==
    ASSUME NEW s \in Seq(Tasks), NEW t \in Tasks
    PROVE  /\ add_to_wait_queue(s, t) \in Seq(Tasks)
           /\ DOMAIN add_to_wait_queue(s, t) = 1..(Len(s) + 1)
           /\ Len(s) \in Nat
           /\ DOMAIN s = 1..Len(s)
           /\ \A i \in 1..Len(s) : add_to_wait_queue(s, t)[i] = s[i]
           /\ add_to_wait_queue(s, t)[Len(s) + 1] = t
BY DEF add_to_wait_queue

\* remove_from_wait_queue returns the first task and shifts the others down.
LEMMA TailFacts ==
    ASSUME NEW s \in Seq(Tasks), s # <<>>
    PROVE  /\ FirstWaiting(s) = s[1]
           /\ s[1] \in Tasks
           /\ remove_from_wait_queue(s) \in Seq(Tasks)
           /\ Len(s) \in Nat \ {0}
           /\ DOMAIN s = 1..Len(s)
           /\ DOMAIN remove_from_wait_queue(s) = 1..(Len(s) - 1)
           /\ \A i \in 1..(Len(s) - 1) : remove_from_wait_queue(s)[i] = s[i + 1]
BY DEF FirstWaiting, remove_from_wait_queue

Distinct(queue) == \A i, j \in DOMAIN queue : queue[i] = queue[j] => i = j

\* Task t has the mutex, or was handed it and has yet to return from mutex_lock.
Inside(t) == \/ at[t] \in {"body", "unlock"}
             \/ at[t] = "lock" /\ state[t] = "TASK_READY"

\* The mutex: its queue holds each of the tasks that sleep in mutex_lock once.
LockInv ==
    /\ lock.locked <=> lock.owner # NULL
    /\ ~lock.locked => lock.waiting_tasks = <<>>
    /\ Distinct(lock.waiting_tasks)
    /\ \A t \in Tasks : t \in Queued(lock.waiting_tasks)
                          <=> at[t] = "lock" /\ state[t] = "TASK_BLOCKED"

\* The conditions: a task sleeps on one of them exactly if it is blocked in
\* condition_wait.
CondInv ==
    /\ \A c \in Conds : Distinct(cond[c])
    /\ \A c, d \in Conds, t \in Tasks :
          t \in Queued(cond[c]) /\ t \in Queued(cond[d]) => c = d
    /\ \A t \in Tasks : (\E c \in Conds : t \in Queued(cond[c]))
                          <=> at[t] = "wait" /\ state[t] = "TASK_BLOCKED"

\* The task inside is the owner of the mutex, and all others are outside.
PlaceInv ==
    /\ \A t \in Tasks : /\ state[t] # "TASK_SUSPENDED"
                        /\ state[t] = "TASK_BLOCKED" => at[t] \in {"lock", "wait"}
    /\ \A t \in Tasks : Inside(t) <=> lock.owner = t

MonitorInv == MonitorTypeOK /\ LockInv /\ CondInv /\ PlaceInv

\* At most one task runs the code between mutex_lock and mutex_unlock: why a body
\* may be one step of the model.
OneInside == \A t, u \in Tasks : Inside(t) /\ Inside(u) => t = u

-----------------------------------------------------------------------------
(* Queues as sets. *)

\* add_to_wait_queue adds the task to the tasks queued.
LEMMA AppendQueued ==
    ASSUME NEW s \in Seq(Tasks), NEW t \in Tasks
    PROVE  /\ add_to_wait_queue(s, t) \in Seq(Tasks)
           /\ add_to_wait_queue(s, t) # <<>>
           /\ Queued(add_to_wait_queue(s, t)) = Queued(s) \cup {t}
           /\ Distinct(s) /\ t \notin Queued(s) => Distinct(add_to_wait_queue(s, t))
<1> DEFINE r == add_to_wait_queue(s, t)
<1>1. /\ r \in Seq(Tasks) /\ DOMAIN r = 1..(Len(s) + 1) /\ Len(s) \in Nat
      /\ DOMAIN s = 1..Len(s)
      /\ \A i \in 1..Len(s) : r[i] = s[i]
      /\ r[Len(s) + 1] = t
  BY AppendFacts
<1> HIDE DEF r
<1>2. Queued(r) = Queued(s) \cup {t}
  <2>1. \A x \in Queued(r) : x \in Queued(s) \cup {t}
    BY <1>1 DEF Queued
  <2>2. \A x \in Queued(s) : x \in Queued(r)
    BY <1>1 DEF Queued
  <2>3. t \in Queued(r)
    BY <1>1 DEF Queued
  <2>4. QED
    BY <2>1, <2>2, <2>3
<1>3. ASSUME Distinct(s), t \notin Queued(s) PROVE Distinct(r)
  BY <1>1, <1>3 DEF Distinct, Queued
<1>4. r # <<>>
  BY <1>1
<1>5. QED
  BY <1>1, <1>2, <1>3, <1>4 DEF r

\* remove_from_wait_queue takes its first task, and no other, off the queue.
LEMMA TailQueued ==
    ASSUME NEW s \in Seq(Tasks), s # <<>>
    PROVE  /\ FirstWaiting(s) \in Tasks
           /\ FirstWaiting(s) \in Queued(s)
           /\ remove_from_wait_queue(s) \in Seq(Tasks)
           /\ Distinct(s) => /\ Distinct(remove_from_wait_queue(s))
                             /\ Queued(remove_from_wait_queue(s)) = Queued(s) \ {FirstWaiting(s)}
<1> DEFINE r == remove_from_wait_queue(s)
<1>1. /\ FirstWaiting(s) = s[1] /\ s[1] \in Tasks /\ r \in Seq(Tasks)
      /\ Len(s) \in Nat \ {0} /\ DOMAIN s = 1..Len(s) /\ DOMAIN r = 1..(Len(s) - 1)
      /\ \A i \in 1..(Len(s) - 1) : r[i] = s[i + 1]
  BY TailFacts
<1> HIDE DEF r
<1>2. FirstWaiting(s) \in Queued(s)
  BY <1>1 DEF Queued
<1>3. ASSUME Distinct(s)
      PROVE  Distinct(r) /\ Queued(r) = Queued(s) \ {FirstWaiting(s)}
  <2>1. Distinct(r)
    <3> SUFFICES ASSUME NEW i \in DOMAIN r, NEW j \in DOMAIN r, r[i] = r[j]
                 PROVE  i = j
      BY DEF Distinct
    <3>1. i + 1 \in DOMAIN s /\ j + 1 \in DOMAIN s /\ s[i + 1] = s[j + 1]
      BY <1>1
    <3>2. i + 1 = j + 1
      BY <3>1, <1>3 DEF Distinct
    <3>3. QED
      BY <3>2, <1>1
  <2>2. ASSUME NEW x \in Queued(r) PROVE x \in Queued(s) /\ x # s[1]
    <3>1. PICK i \in DOMAIN r : x = r[i]
      BY DEF Queued
    <3>2. i + 1 \in DOMAIN s /\ x = s[i + 1] /\ i + 1 # 1 /\ 1 \in DOMAIN s
      BY <3>1, <1>1
    <3>3. QED
      BY <3>2, <1>3 DEF Distinct, Queued
  <2>3. ASSUME NEW x \in Queued(s), x # s[1] PROVE x \in Queued(r)
    <3>1. PICK i \in DOMAIN s : x = s[i]
      BY DEF Queued
    <3>2. i - 1 \in DOMAIN r /\ x = r[i - 1]
      BY <3>1, <2>3, <1>1
    <3>3. QED
      BY <3>2 DEF Queued
  <2>4. QED
    BY <1>1, <2>1, <2>2, <2>3
<1>4. QED
  BY <1>1, <1>2, <1>3 DEF r

\* The empty queue, and queues of tasks in general.
LEMMA QueuedBasics ==
    /\ <<>> \in Seq(Tasks) /\ Queued(<<>>) = {} /\ Distinct(<<>>)
    /\ \A s \in Seq(Tasks) : Queued(s) \subseteq Tasks /\ (Queued(s) = {} => s = <<>>)
<1>1. <<>> \in Seq(Tasks) /\ Queued(<<>>) = {} /\ Distinct(<<>>)
  BY DEF Queued, Distinct
<1>2. ASSUME NEW s \in Seq(Tasks) PROVE Queued(s) \subseteq Tasks /\ (Queued(s) = {} => s = <<>>)
  <2>1. DOMAIN s = 1..Len(s) /\ Len(s) \in Nat /\ \A i \in DOMAIN s : s[i] \in Tasks
    OBVIOUS
  <2>2. Queued(s) \subseteq Tasks
    BY <2>1 DEF Queued
  <2>3. ASSUME Queued(s) = {} PROVE s = <<>>
    <3>1. 1 \notin DOMAIN s
      BY <2>3 DEF Queued
    <3>2. Len(s) = 0
      BY <3>1, <2>1
    <3>3. QED
      BY <3>2
  <2>4. QED
    BY <2>2, <2>3
<1>3. QED
  BY <1>1, <1>2

-----------------------------------------------------------------------------
(* The invariant, and that the steps of Monitor keep it. *)

\* The mutex has one owner, and that is the task inside.
LEMMA OwnerInside == MonitorInv => OneInside
BY DEF MonitorInv, PlaceInv, OneInside

\* A mutex and conditions that were just set up satisfy the invariant.
LEMMA MonitorInitInv == MonitorInit => MonitorInv
<1> SUFFICES ASSUME MonitorInit PROVE MonitorInv
  OBVIOUS
<1> USE SyncAssumption, QueuedBasics DEF MonitorInit, mutex_init
<1>1. MonitorTypeOK
  BY DEF MonitorTypeOK, MutexType, TaskState, Places
<1>2. LockInv
  BY DEF LockInv
<1>3. CondInv
  BY DEF CondInv
<1>4. PlaceInv
  BY DEF PlaceInv, Inside
<1>5. QED
  BY <1>1, <1>2, <1>3, <1>4 DEF MonitorInv

\* mutex_lock, called at the start of an operation or again by a task that was
\* signalled: the mutex is taken, or the task joins its queue.
LEMMA LockKeeps ==
    ASSUME MonitorInv, NEW t \in Tasks, Runs(t, "idle") \/ Runs(t, "wait"),
           Lock(t), UNCHANGED cond
    PROVE  MonitorInv'
<1> USE SyncAssumption DEF MonitorInv, Runs
<1> DEFINE w == lock.waiting_tasks
<1>1. /\ lock \in MutexType /\ w \in Seq(Tasks)
      /\ state \in [Tasks -> TaskState] /\ at \in [Tasks -> Places]
      /\ cond \in [Conds -> Seq(Tasks)]
      /\ state[t] = "TASK_READY" /\ at[t] \in {"idle", "wait"}
  BY DEF MonitorTypeOK, MutexType
<1>2. CASE ~lock.locked
  <2>1. /\ lock' = [lock EXCEPT !.locked = TRUE, !.owner = t]
        /\ at' = [at EXCEPT ![t] = "body"] /\ state' = state
    BY <1>2 DEF Lock, MutexTake
  <2>2. /\ lock' \in MutexType /\ lock'.owner = t /\ lock'.locked
        /\ lock'.waiting_tasks = w
    BY <1>1, <2>1 DEF MutexType
  <2>3. \A u \in Tasks : ~Inside(u)
    BY <1>2 DEF LockInv, PlaceInv
  <2>4. MonitorTypeOK'
    BY <1>1, <2>1, <2>2 DEF MonitorTypeOK, Places
  <2>5. LockInv'
    BY <1>1, <2>1, <2>2 DEF LockInv
  <2>6. CondInv'
    BY <1>1, <2>1 DEF CondInv
  <2>7. PlaceInv'
    BY <1>1, <2>1, <2>2, <2>3 DEF PlaceInv, Inside
  <2>8. QED
    BY <2>4, <2>5, <2>6, <2>7
<1>3. CASE lock.locked
  <2>1. /\ lock' = [lock EXCEPT !.waiting_tasks = add_to_wait_queue(w, t)]
        /\ at' = [at EXCEPT ![t] = "lock"]
        /\ state' = [state EXCEPT ![t] = "TASK_BLOCKED"]
    BY <1>1, <1>3 DEF Lock, MutexWait, SetBlocked, MutexType
  <2>2. t \notin Queued(w)
    BY <1>1 DEF LockInv
  <2>3. /\ add_to_wait_queue(w, t) \in Seq(Tasks)
        /\ Queued(add_to_wait_queue(w, t)) = Queued(w) \cup {t}
        /\ Distinct(w) => Distinct(add_to_wait_queue(w, t))
    BY <1>1, <2>2, AppendQueued
  <2>4. /\ lock' \in MutexType /\ lock'.owner = lock.owner /\ lock'.locked = lock.locked
        /\ lock'.waiting_tasks = add_to_wait_queue(w, t)
    BY <1>1, <2>1, <2>3 DEF MutexType
  <2>5. MonitorTypeOK'
    BY <1>1, <2>1, <2>4 DEF MonitorTypeOK, Places, TaskState
  <2>6. LockInv'
    BY <1>1, <1>3, <2>1, <2>3, <2>4 DEF LockInv
  <2>7. CondInv'
    BY <1>1, <2>1 DEF CondInv
  <2>8. PlaceInv'
    BY <1>1, <2>1, <2>4 DEF PlaceInv, Inside
  <2>9. QED
    BY <2>5, <2>6, <2>7, <2>8
<1>4. QED
  BY <1>2, <1>3

\* mutex_lock returns to the task that was handed the mutex.
LEMMA GrantedKeeps ==
    ASSUME MonitorInv, NEW t \in Tasks, Granted(t)
    PROVE  MonitorInv'
<1> USE SyncAssumption DEF MonitorInv, Granted, Runs
<1>1. MonitorTypeOK'
  BY DEF MonitorTypeOK, Places
<1>2. LockInv'
  BY DEF LockInv, MonitorTypeOK
<1>3. CondInv'
  BY DEF CondInv, MonitorTypeOK
<1>4. PlaceInv'
  BY DEF PlaceInv, Inside, MonitorTypeOK
<1>5. QED
  BY <1>1, <1>2, <1>3, <1>4

\* What mutex_unlock by its owner does: the first of the queue gets the mutex.
LEMMA UnlockFacts ==
    ASSUME MonitorInv, NEW t \in Tasks, lock.owner = t
    PROVE  LET new  == MutexUnlock(lock, t)
               woke == UnlockWakes(lock, t)
           IN  /\ new \in MutexType
               /\ new.locked <=> new.owner # NULL
               /\ ~new.locked => new.waiting_tasks = <<>>
               /\ Distinct(new.waiting_tasks)
               /\ Queued(new.waiting_tasks) = Queued(lock.waiting_tasks) \ woke
               /\ woke \subseteq Queued(lock.waiting_tasks) \cap Tasks
               /\ \A u \in Tasks : new.owner = u <=> u \in woke
<1> USE SyncAssumption DEF MonitorInv
<1> DEFINE w == lock.waiting_tasks
<1>1. lock \in MutexType /\ w \in Seq(Tasks) /\ Distinct(w) /\ lock.locked
  BY DEF MonitorTypeOK, MutexType, LockInv
<1>2. CASE w = <<>>
  <2>1. /\ MutexUnlock(lock, t) = [lock EXCEPT !.locked = FALSE, !.owner = NULL]
        /\ UnlockWakes(lock, t) = {}
    BY <1>2 DEF MutexUnlock, UnlockWakes
  <2>2. QED
    BY <1>1, <1>2, <2>1, QueuedBasics DEF MutexType
<1>3. CASE w # <<>>
  <2> DEFINE f == FirstWaiting(w)
             r == remove_from_wait_queue(w)
  <2>1. /\ MutexUnlock(lock, t) = [lock EXCEPT !.owner = f, !.waiting_tasks = r]
        /\ UnlockWakes(lock, t) = {f}
    BY <1>1, <1>3 DEF MutexUnlock, UnlockWakes, MutexType
  <2>2. /\ f \in Tasks /\ f \in Queued(w) /\ r \in Seq(Tasks) /\ Distinct(r)
        /\ Queued(r) = Queued(w) \ {f}
    BY <1>1, <1>3, TailQueued
  <2> HIDE DEF f, r
  <2>3. QED
    BY <1>1, <2>1, <2>2 DEF MutexType
<1>4. QED
  BY <1>2, <1>3

\* mutex_unlock at the end of an operation.
LEMMA LeaveKeeps ==
    ASSUME MonitorInv, NEW t \in Tasks, Leave(t)
    PROVE  MonitorInv'
<1> USE SyncAssumption DEF MonitorInv, Runs
<1> DEFINE woke == UnlockWakes(lock, t)
<1>1. /\ state[t] = "TASK_READY" /\ at[t] = "unlock" /\ lock.owner = t
      /\ state \in [Tasks -> TaskState] /\ at \in [Tasks -> Places]
      /\ cond \in [Conds -> Seq(Tasks)]
  BY DEF Leave, PlaceInv, Inside, MonitorTypeOK
<1>2. /\ lock' \in MutexType /\ (lock'.locked <=> lock'.owner # NULL)
      /\ ~lock'.locked => lock'.waiting_tasks = <<>>
      /\ Distinct(lock'.waiting_tasks)
      /\ Queued(lock'.waiting_tasks) = Queued(lock.waiting_tasks) \ woke
      /\ woke \subseteq Queued(lock.waiting_tasks) \cap Tasks
      /\ \A u \in Tasks : lock'.owner = u <=> u \in woke
  BY <1>1, UnlockFacts DEF Leave
<1>3. /\ state' = [u \in Tasks |-> IF u \in woke THEN "TASK_READY" ELSE state[u]]
      /\ at' = [at EXCEPT ![t] = "idle"] /\ cond' = cond
  BY DEF Leave, SetReady
<1> HIDE DEF woke
<1>4. \A u \in woke : u \in Tasks /\ at[u] = "lock" /\ state[u] = "TASK_BLOCKED"
  BY <1>2 DEF LockInv
<1>5. MonitorTypeOK'
  BY <1>1, <1>2, <1>3 DEF MonitorTypeOK, Places, TaskState
<1>6. LockInv'
  BY <1>1, <1>2, <1>3, <1>4 DEF LockInv
<1>7. CondInv'
  BY <1>1, <1>3, <1>4 DEF CondInv
<1>8. PlaceInv'
  BY <1>1, <1>2, <1>3, <1>4 DEF PlaceInv, Inside
<1>9. QED
  BY <1>5, <1>6, <1>7, <1>8

\* condition_wait up to its task_yield: the task joins the queue of the condition
\* and gives the mutex up.
LEMMA WaitKeeps ==
    ASSUME MonitorInv, NEW t \in Tasks, NEW c \in Conds,
           Runs(t, "body"), condition_wait(t, c)
    PROVE  /\ MonitorInv'
           /\ cond'[c] # <<>> /\ Queued(cond'[c]) = Queued(cond[c]) \cup {t}
           /\ \A d \in Conds \ {c} : cond'[d] = cond[d]
<1> USE SyncAssumption DEF MonitorInv, Runs
<1> DEFINE woke == UnlockWakes(lock, t)
           r    == add_to_wait_queue(cond[c], t)
<1>1. /\ state[t] = "TASK_READY" /\ at[t] = "body" /\ lock.owner = t
      /\ state \in [Tasks -> TaskState] /\ at \in [Tasks -> Places]
      /\ cond \in [Conds -> Seq(Tasks)] /\ cond[c] \in Seq(Tasks)
  BY DEF PlaceInv, Inside, MonitorTypeOK
<1>2. /\ lock' \in MutexType /\ (lock'.locked <=> lock'.owner # NULL)
      /\ ~lock'.locked => lock'.waiting_tasks = <<>>
      /\ Distinct(lock'.waiting_tasks)
      /\ Queued(lock'.waiting_tasks) = Queued(lock.waiting_tasks) \ woke
      /\ woke \subseteq Queued(lock.waiting_tasks) \cap Tasks
      /\ \A u \in Tasks : lock'.owner = u <=> u \in woke
  BY <1>1, UnlockFacts DEF condition_wait
<1>3. /\ state' = [u \in Tasks |-> IF u \in woke THEN "TASK_READY"
                                   ELSE IF u = t THEN "TASK_BLOCKED" ELSE state[u]]
      /\ at' = [at EXCEPT ![t] = "wait"]
      /\ cond' = [cond EXCEPT ![c] = r]
  BY <1>1 DEF condition_wait, SetReady, SetBlocked
<1>4. t \notin Queued(cond[c]) /\ Distinct(cond[c])
  BY <1>1 DEF CondInv
<1>5. r \in Seq(Tasks) /\ r # <<>> /\ Queued(r) = Queued(cond[c]) \cup {t} /\ Distinct(r)
  BY <1>1, <1>4, AppendQueued
<1> HIDE DEF woke, r
<1>6. \A u \in woke : u \in Tasks /\ at[u] = "lock" /\ state[u] = "TASK_BLOCKED"
  BY <1>2 DEF LockInv
<1>7. /\ cond'[c] = r /\ \A d \in Conds \ {c} : cond'[d] = cond[d]
      /\ cond' \in [Conds -> Seq(Tasks)]
  BY <1>1, <1>3, <1>5
<1>8. MonitorTypeOK'
  BY <1>1, <1>2, <1>3, <1>7 DEF MonitorTypeOK, Places, TaskState
<1>9. LockInv'
  BY <1>1, <1>2, <1>3, <1>6 DEF LockInv
<1>10. \A d \in Conds, u \in Tasks :
          u \in Queued(cond'[d]) <=> u \in Queued(cond[d]) \/ (d = c /\ u = t)
  BY <1>5, <1>7
<1>11. CondInv'
  <2>1. \A d \in Conds : Distinct(cond'[d])
    BY <1>5, <1>7 DEF CondInv
  <2>2. \A d, e \in Conds, u \in Tasks :
          u \in Queued(cond'[d]) /\ u \in Queued(cond'[e]) => d = e
    BY <1>1, <1>10 DEF CondInv
  <2>3. \A u \in Tasks : (\E d \in Conds : u \in Queued(cond'[d]))
                          <=> at'[u] = "wait" /\ state'[u] = "TASK_BLOCKED"
    BY <1>1, <1>3, <1>6, <1>10 DEF CondInv
  <2>4. QED
    BY <2>1, <2>2, <2>3 DEF CondInv
<1>12. PlaceInv'
  BY <1>1, <1>2, <1>3, <1>6 DEF PlaceInv, Inside
<1>13. QED
  BY <1>5, <1>7, <1>8, <1>9, <1>11, <1>12

\* Waking tasks W by signals and broadcasts takes them off their conditions.
LEMMA WakeKeeps ==
    ASSUME MonitorInv, NEW t \in Tasks, Runs(t, "body"),
           NEW W \in SUBSET Tasks,
           \A u \in W : \E c \in Conds : u \in Queued(cond[c]),
           cond' \in [Conds -> Seq(Tasks)],
           \A c \in Conds : Queued(cond'[c]) = Queued(cond[c]) \ W /\ Distinct(cond'[c]),
           state' = SetReady(state, W), lock' = lock,
           at' = at \/ at' = [at EXCEPT ![t] = "unlock"]
    PROVE  MonitorInv'
<1> USE SyncAssumption DEF MonitorInv, Runs
<1>1. /\ state[t] = "TASK_READY" /\ at[t] = "body" /\ lock.owner = t
      /\ state \in [Tasks -> TaskState] /\ at \in [Tasks -> Places]
  BY DEF PlaceInv, Inside, MonitorTypeOK
<1>2. state' = [u \in Tasks |-> IF u \in W THEN "TASK_READY" ELSE state[u]]
  BY DEF SetReady
<1>3. \A u \in W : at[u] = "wait" /\ state[u] = "TASK_BLOCKED"
  BY DEF CondInv
<1>4. \A u \in Tasks : at'[u] = IF u = t /\ at' # at THEN "unlock" ELSE at[u]
  BY <1>1
<1>5. MonitorTypeOK'
  BY <1>1, <1>2 DEF MonitorTypeOK, Places, TaskState
<1>6. LockInv'
  BY <1>1, <1>2, <1>3, <1>4 DEF LockInv
<1>7. CondInv'
  BY <1>1, <1>2, <1>3, <1>4 DEF CondInv
<1>8. PlaceInv'
  BY <1>1, <1>2, <1>3, <1>4 DEF PlaceInv, Inside
<1>9. QED
  BY <1>5, <1>6, <1>7, <1>8

\* condition_signal takes the first task off the queue, if there is one.
LEMMA SignalFacts ==
    ASSUME MonitorInv, NEW c \in Conds
    PROVE  /\ cond[c] \in Seq(Tasks)
           /\ condition_signal(c) \in Seq(Tasks)
           /\ Distinct(condition_signal(c))
           /\ SignalWakes(c) \subseteq Queued(cond[c]) \cap Tasks
           /\ Queued(condition_signal(c)) = Queued(cond[c]) \ SignalWakes(c)
           /\ cond[c] = <<>> => SignalWakes(c) = {}
           /\ cond[c] # <<>> => SignalWakes(c) = {FirstWaiting(cond[c])}
<1>1. cond[c] \in Seq(Tasks) /\ Distinct(cond[c])
  BY DEF MonitorInv, MonitorTypeOK, CondInv
<1>2. CASE cond[c] = <<>>
  BY <1>1, <1>2, QueuedBasics DEF SignalWakes, condition_signal
<1>3. CASE cond[c] # <<>>
  BY <1>1, <1>3, TailQueued DEF SignalWakes, condition_signal
<1>4. QED
  BY <1>2, <1>3

\* A signal to condition c as part of an operation, and what it leaves of the queues.
LEMMA SignalKeeps ==
    ASSUME MonitorInv, NEW t \in Tasks, Runs(t, "body"), NEW c \in Conds,
           cond' = [cond EXCEPT ![c] = condition_signal(c)],
           state' = SetReady(state, SignalWakes(c)), lock' = lock,
           at' = at \/ at' = [at EXCEPT ![t] = "unlock"]
    PROVE  /\ MonitorInv'
           /\ Queued(cond'[c]) = Queued(cond[c]) \ SignalWakes(c)
           /\ \A d \in Conds \ {c} : cond'[d] = cond[d]
<1> DEFINE W == SignalWakes(c)
<1>1. /\ cond \in [Conds -> Seq(Tasks)]
      /\ \A d \in Conds : Distinct(cond[d])
      /\ \A d, e \in Conds, u \in Tasks : u \in Queued(cond[d]) /\ u \in Queued(cond[e]) => d = e
      /\ \A d \in Conds : Queued(cond[d]) \subseteq Tasks
  BY QueuedBasics DEF MonitorInv, MonitorTypeOK, CondInv
<1>2. /\ condition_signal(c) \in Seq(Tasks) /\ Distinct(condition_signal(c))
      /\ W \subseteq Queued(cond[c]) \cap Tasks
      /\ Queued(condition_signal(c)) = Queued(cond[c]) \ W
  BY SignalFacts
<1>3. /\ cond' \in [Conds -> Seq(Tasks)] /\ cond'[c] = condition_signal(c)
      /\ \A d \in Conds \ {c} : cond'[d] = cond[d]
  BY <1>1, <1>2
<1>4. \A d \in Conds : Queued(cond'[d]) = Queued(cond[d]) \ W /\ Distinct(cond'[d])
  <2> SUFFICES ASSUME NEW d \in Conds
               PROVE  Queued(cond'[d]) = Queued(cond[d]) \ W /\ Distinct(cond'[d])
    OBVIOUS
  <2>1. CASE d = c
    BY <2>1, <1>2, <1>3
  <2>2. CASE d # c
    <3>1. Queued(cond[d]) \cap W = {}
      BY <2>2, <1>1, <1>2
    <3>2. QED
      BY <2>2, <3>1, <1>1, <1>3
  <2>3. QED
    BY <2>1, <2>2
<1> HIDE DEF W
<1>5. W \in SUBSET Tasks /\ \A u \in W : \E d \in Conds : u \in Queued(cond[d])
  BY <1>2
<1>6. state' = SetReady(state, W)
  BY DEF W
<1>7. MonitorInv'
  BY <1>3, <1>4, <1>5, <1>6, WakeKeeps
<1>8. QED
  BY <1>3, <1>4, <1>7 DEF W

\* The end of an operation, with or without a signal.
LEMMA FinishKeeps ==
    ASSUME MonitorInv, NEW t \in Tasks, Runs(t, "body"),
           NEW c \in Conds \cup {NULL}, NULL \notin Conds, Finish(t, c)
    PROVE  /\ MonitorInv'
           /\ at' = [at EXCEPT ![t] = "unlock"]
           /\ c = NULL => cond' = cond /\ state' = state
           /\ c # NULL => /\ Queued(cond'[c]) = Queued(cond[c]) \ SignalWakes(c)
                          /\ \A d \in Conds \ {c} : cond'[d] = cond[d]
                          /\ state' = SetReady(state, SignalWakes(c))
<1>1. CASE c = NULL
  <2>1. /\ at' = [at EXCEPT ![t] = "unlock"] /\ cond' = cond /\ state' = state /\ lock' = lock
    BY <1>1 DEF Finish
  <2>2. state \in [Tasks -> TaskState]
    BY DEF MonitorInv, MonitorTypeOK
  <2>3. state' = SetReady(state, {})
    BY <2>1, <2>2 DEF SetReady
  <2>4. /\ cond' \in [Conds -> Seq(Tasks)]
        /\ \A d \in Conds : Queued(cond'[d]) = Queued(cond[d]) \ {} /\ Distinct(cond'[d])
    BY <2>1 DEF MonitorInv, MonitorTypeOK, CondInv
  <2>5. MonitorInv'
    BY <2>1, <2>3, <2>4, WakeKeeps
  <2>6. QED
    BY <1>1, <2>1, <2>5
<1>2. CASE c # NULL
  <2>1. /\ at' = [at EXCEPT ![t] = "unlock"] /\ lock' = lock /\ c \in Conds
        /\ cond' = [cond EXCEPT ![c] = condition_signal(c)]
        /\ state' = SetReady(state, SignalWakes(c))
    BY <1>2 DEF Finish
  <2>2. QED
    BY <1>2, <2>1, SignalKeeps
<1>3. QED
  BY <1>1, <1>2
=============================================================================
