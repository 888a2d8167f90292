----------------------------- MODULE MutexProofs -----------------------------
(***************************************************************************)
(* Proofs about mutex.c for any number of tasks and any nesting depth:     *)
(* mutual exclusion, no forgotten waiter, balanced recursion, FIFO         *)
(* hand-over, and that the mutex implements LockService.                   *)
(***************************************************************************)
EXTENDS Mutex, TLAPS

\* add_to_wait_queue keeps the queue and puts the new task last.
LEMMA AppendFacts ==
    ASSUME NEW s \in Seq(Tasks), NEW t \in Tasks
    PROVE  /\ add_to_wait_queue(s, t) \in Seq(Tasks)
           /\ DOMAIN add_to_wait_queue(s, t) = 1..(Len(s) + 1)
           /\ Len(s) \in Nat
           /\ DOMAIN s = 1..Len(s)
           /\ \A i \in 1..Len(s) : add_to_wait_queue(s, t)[i] = s[i]
           /\ add_to_wait_queue(s, t)[Len(s) + 1] = t
BY DEF add_to_wait_queue

\* remove_from_wait_queue returns the first task and shifts the others down.
LEMMA TailFacts ==
    ASSUME NEW s \in Seq(Tasks), s # <<>>
    PROVE  /\ FirstWaiting(s) = s[1]
           /\ s[1] \in Tasks
           /\ remove_from_wait_queue(s) \in Seq(Tasks)
           /\ Len(s) \in Nat \ {0}
           /\ DOMAIN s = 1..Len(s)
           /\ DOMAIN remove_from_wait_queue(s) = 1..(Len(s) - 1)
           /\ \A i \in 1..(Len(s) - 1) : remove_from_wait_queue(s)[i] = s[i + 1]
BY DEF FirstWaiting, remove_from_wait_queue

q == mutex.waiting_tasks

\* Task t took the mutex over in an unlock of another task and has yet to
\* return from task_yield.
TookOver(t) == pc[t] = "yield" /\ state[t] = "TASK_READY"

\* The queue holds exactly the blocked tasks, each once.
QueueInv ==
    /\ \A i, j \in DOMAIN q : q[i] = q[j] => i = j
    /\ \A t \in Tasks : state[t] = "TASK_BLOCKED" <=> \E i \in DOMAIN q : q[i] = t
    /\ \A t \in Tasks : state[t] = "TASK_BLOCKED" => pc[t] = "yield"
    /\ \A t \in Tasks : state[t] # "TASK_SUSPENDED"

\* locked, owner and the queue agree.
OwnerInv ==
    /\ mutex.locked <=> mutex.owner \in Tasks
    /\ ~mutex.locked => q = <<>>

\* What the tasks believe is what the owner field says.
BeliefInv ==
    /\ \A t \in Tasks : depth[t] > 0 => mutex.owner = t
    /\ \A t \in Tasks : TookOver(t) => mutex.owner = t /\ depth[t] = 0
    /\ \A t \in Tasks : mutex.owner = t => depth[t] > 0 \/ TookOver(t)

CountInv ==
    /\ kind = "plain" => \A t \in Tasks : depth[t] <= 1
    /\ kind = "recursive" =>
         /\ mutex.owner = NULL => mutex.recursive_count = 0
         /\ \A t \in Tasks : mutex.owner = t =>
              mutex.recursive_count = depth[t] + (IF pc[t] = "yield" THEN 1 ELSE 0)

\* The inductive invariant.
IInv == TypeOK /\ QueueInv /\ OwnerInv /\ BeliefInv /\ CountInv

-----------------------------------------------------------------------------
(* The invariant holds initially and is kept by every action. *)

\* A mutex that mutex_init has just set up satisfies the invariant.
LEMMA InitIInv == Init => IInv
<1> SUFFICES ASSUME Init PROVE IInv
  OBVIOUS
<1> USE SyncAssumption DEF Init, mutex_init
<1>1. TypeOK
  BY DEF TypeOK, Kinds, MutexType, TaskState
<1>2. QueueInv /\ OwnerInv /\ BeliefInv /\ CountInv
  BY DEF QueueInv, OwnerInv, BeliefInv, CountInv, TookOver, q
<1>3. QED
  BY <1>1, <1>2 DEF IInv

\* Taking the free mutex (mutex_lock, mutex_trylock, recursive_mutex_lock).
LEMMA TakeKeepsIInv ==
    ASSUME IInv, NEW t \in Tasks, NEW n \in Nat,
           state[t] = "TASK_READY", pc[t] = "run", ~mutex.locked,
           mutex' = [MutexTake(mutex, t) EXCEPT !.recursive_count = n],
           kind = "recursive" => n = 1,
           depth' = [depth EXCEPT ![t] = @ + 1],
           UNCHANGED <<kind, state, pc>>
    PROVE  IInv'
<1> USE SyncAssumption DEF IInv, MutexTake
<1>1. /\ mutex' = [mutex EXCEPT !.locked = TRUE, !.owner = t, !.recursive_count = n]
      /\ q' = q /\ mutex'.owner = t /\ mutex'.locked = TRUE
      /\ mutex'.recursive_count = n
  BY DEF TypeOK, MutexType, q
<1>2. TypeOK'
  <2>1. mutex' \in MutexType
    BY <1>1 DEF TypeOK, MutexType
  <2>2. depth' \in [Tasks -> Nat]
    BY DEF TypeOK
  <2>3. QED
    BY <2>1, <2>2 DEF TypeOK
<1>3. depth[t] = 0 /\ \A u \in Tasks : depth[u] = 0 /\ ~TookOver(u)
  BY DEF OwnerInv, BeliefInv, TypeOK
<1>4. QueueInv'
  BY <1>1 DEF QueueInv, q
<1>5. OwnerInv'
  BY <1>1 DEF OwnerInv
<1>6. BeliefInv'
  BY <1>1, <1>3 DEF BeliefInv, TookOver, TypeOK
<1>7. CountInv'
  BY <1>1, <1>3 DEF CountInv, TypeOK
<1>8. QED
  BY <1>2, <1>4, <1>5, <1>6, <1>7

\* Waiting for the locked mutex; on a recursive mutex only a non-owner waits.
LEMMA BlockKeepsIInv ==
    ASSUME IInv, NEW t \in Tasks,
           state[t] = "TASK_READY", pc[t] = "run", mutex.locked,
           kind = "recursive" => mutex.owner # t,
           Block(t), UNCHANGED <<kind, depth>>
    PROVE  IInv'
<1> USE SyncAssumption DEF IInv, Block, MutexWait, SetBlocked
<1>1. /\ q \in Seq(Tasks)
      /\ q' = add_to_wait_queue(q, t)
      /\ mutex' = [mutex EXCEPT !.waiting_tasks = q']
      /\ mutex'.owner = mutex.owner /\ mutex'.locked = mutex.locked
      /\ mutex'.recursive_count = mutex.recursive_count
  BY DEF TypeOK, MutexType, q
<1>2. /\ q' \in Seq(Tasks)
      /\ DOMAIN q = 1..Len(q) /\ DOMAIN q' = 1..(Len(q) + 1) /\ Len(q) \in Nat
      /\ \A i \in 1..Len(q) : q'[i] = q[i]
      /\ q'[Len(q) + 1] = t
  <2> HIDE DEF IInv, Block, MutexWait, SetBlocked
  <2>1. \A s \in Seq(Tasks) :
          /\ add_to_wait_queue(s, t) \in Seq(Tasks)
          /\ DOMAIN add_to_wait_queue(s, t) = 1..(Len(s) + 1)
          /\ Len(s) \in Nat
          /\ DOMAIN s = 1..Len(s)
          /\ \A i \in 1..Len(s) : add_to_wait_queue(s, t)[i] = s[i]
          /\ add_to_wait_queue(s, t)[Len(s) + 1] = t
    BY AppendFacts
  <2>2. QED
    BY <1>1, <2>1
<1>3. TypeOK'
  <2>1. mutex' \in MutexType
    BY <1>1, <1>2 DEF TypeOK, MutexType
  <2>2. state' \in [Tasks -> TaskState] /\ pc' \in [Tasks -> {"run", "yield"}]
    BY DEF TypeOK, TaskState
  <2>3. QED
    BY <2>1, <2>2 DEF TypeOK
<1>4. state' = [state EXCEPT ![t] = "TASK_BLOCKED"] /\ pc' = [pc EXCEPT ![t] = "yield"]
  OBVIOUS
<1>5. \A i \in 1..Len(q) : q[i] # t
  BY <1>2 DEF QueueInv
<1>6. QueueInv'
  <2>1. \A i, j \in DOMAIN q' : q'[i] = q'[j] => i = j
    BY <1>2, <1>5 DEF QueueInv
  <2>2. ASSUME NEW u \in Tasks
        PROVE  state'[u] = "TASK_BLOCKED" <=> \E i \in DOMAIN q' : q'[i] = u
    <3>1. CASE u = t
      <4>1. Len(q) + 1 \in DOMAIN q' /\ q'[Len(q) + 1] = u
        BY <3>1, <1>2
      <4>2. state'[u] = "TASK_BLOCKED"
        BY <3>1, <1>4 DEF TypeOK
      <4>3. QED
        BY <4>1, <4>2
    <3>2. CASE u # t
      <4>1. (\E i \in DOMAIN q' : q'[i] = u) <=> \E i \in DOMAIN q : q[i] = u
        BY <3>2, <1>2
      <4>2. state'[u] = state[u]
        BY <3>2, <1>4 DEF TypeOK
      <4>3. QED
        BY <4>1, <4>2 DEF QueueInv
    <3>3. QED
      BY <3>1, <3>2
  <2>3. \A u \in Tasks : /\ state'[u] = "TASK_BLOCKED" => pc'[u] = "yield"
                         /\ state'[u] # "TASK_SUSPENDED"
    BY <1>4 DEF QueueInv, TypeOK
  <2>4. QED
    BY <2>1, <2>2, <2>3 DEF QueueInv
<1>7. OwnerInv'
  BY <1>1 DEF OwnerInv
<1>8. BeliefInv'
  BY <1>1, <1>4 DEF BeliefInv, TookOver, TypeOK
<1>9. CountInv'
  BY <1>1, <1>4 DEF CountInv, TypeOK
<1>10. QED
  BY <1>3, <1>6, <1>7, <1>8, <1>9

\* Giving the mutex up, to the first waiting task if there is one.
LEMMA ReleaseKeepsIInv ==
    ASSUME IInv, NEW t \in Tasks, NEW n \in Nat,
           state[t] = "TASK_READY", pc[t] = "run", mutex.owner = t,
           depth[t] = 1,
           mutex' = [MutexUnlock(mutex, t) EXCEPT !.recursive_count = n],
           kind = "recursive" => n = (IF mutex.waiting_tasks # <<>> THEN 1 ELSE 0),
           state' = SetReady(state, UnlockWakes(mutex, t)),
           depth' = [depth EXCEPT ![t] = @ - 1],
           UNCHANGED <<kind, pc>>
    PROVE  IInv'
<1> USE SyncAssumption DEF IInv
<1>1. q \in Seq(Tasks) /\ mutex \in MutexType /\ q = mutex.waiting_tasks
  BY DEF TypeOK, MutexType, q
<1>2. depth' \in [Tasks -> Nat] /\ depth'[t] = 0
      /\ \A u \in Tasks : depth'[u] = 0
  BY DEF TypeOK, BeliefInv
<1>3. CASE q = <<>>
  <2>1. /\ mutex' = [mutex EXCEPT !.locked = FALSE, !.owner = NULL, !.recursive_count = n]
        /\ state' = state
        /\ q' = q /\ mutex'.owner = NULL /\ mutex'.locked = FALSE
        /\ mutex'.recursive_count = n
    BY <1>1, <1>3 DEF MutexUnlock, UnlockWakes, SetReady, TypeOK, MutexType, q
  <2>2. TypeOK'
    BY <2>1, <1>2 DEF TypeOK, Kinds, MutexType
  <2>3. QueueInv' /\ OwnerInv'
    BY <2>1, <1>3 DEF QueueInv, OwnerInv, q
  <2>4. BeliefInv'
    BY <2>1, <1>2 DEF BeliefInv, TookOver, TypeOK
  <2>5. CountInv'
    BY <2>1, <1>2, <1>1, <1>3 DEF CountInv
  <2>6. QED
    BY <2>2, <2>3, <2>4, <2>5
<1>4. CASE q # <<>>
  <2> DEFINE w == q[1]
  <2>1. /\ FirstWaiting(q) = w /\ w \in Tasks
        /\ remove_from_wait_queue(q) \in Seq(Tasks)
        /\ Len(q) \in Nat \ {0} /\ DOMAIN q = 1..Len(q)
        /\ DOMAIN remove_from_wait_queue(q) = 1..(Len(q) - 1)
        /\ \A i \in 1..(Len(q) - 1) : remove_from_wait_queue(q)[i] = q[i + 1]
    BY <1>1, <1>4, TailFacts
  <2>2. /\ mutex' = [mutex EXCEPT !.owner = w,
                                  !.waiting_tasks = remove_from_wait_queue(q),
                                  !.recursive_count = n]
        /\ UnlockWakes(mutex, t) = {w}
    BY <1>1, <1>4, <2>1 DEF MutexUnlock, UnlockWakes, MutexType
  <2>3. /\ q' = remove_from_wait_queue(q) /\ mutex'.owner = w
        /\ mutex'.locked = mutex.locked /\ mutex'.recursive_count = n
    BY <1>1, <2>2 DEF q, MutexType
  <2>4. state' = [u \in Tasks |-> IF u = w THEN "TASK_READY" ELSE state[u]]
    BY <2>2 DEF SetReady
  <2>5. TypeOK'
    <3>1. mutex' \in MutexType
      BY <1>1, <2>1, <2>2 DEF MutexType
    <3>2. state' \in [Tasks -> TaskState]
      BY <2>4 DEF TypeOK, TaskState
    <3>3. QED
      BY <3>1, <3>2, <1>2 DEF TypeOK
  <2>6. w # t /\ state[w] = "TASK_BLOCKED" /\ pc[w] = "yield"
    BY <2>1 DEF QueueInv
  <2>7. QueueInv'
    <3>1. ASSUME NEW i \in DOMAIN q', NEW j \in DOMAIN q', q'[i] = q'[j]
          PROVE  i = j
      <4>1. i \in Nat /\ j \in Nat /\ i + 1 \in DOMAIN q /\ j + 1 \in DOMAIN q
        BY <2>1, <2>3
      <4>2. q[i + 1] = q[j + 1]
        BY <3>1, <2>1, <2>3
      <4>3. QED
        BY <4>1, <4>2 DEF QueueInv
    <3>2. ASSUME NEW u \in Tasks
          PROVE  state'[u] = "TASK_BLOCKED" <=> \E i \in DOMAIN q' : q'[i] = u
      <4>1. CASE u = w
        <5>1. \A i \in DOMAIN q' : q'[i] # w
          BY <2>1, <2>3 DEF QueueInv
        <5>2. QED
          BY <4>1, <5>1, <2>4
      <4>2. CASE u # w
        <5>1. (\E i \in DOMAIN q : q[i] = u) <=> \E i \in DOMAIN q' : q'[i] = u
          <6>1. ASSUME NEW i \in DOMAIN q, q[i] = u
                PROVE  \E j \in DOMAIN q' : q'[j] = u
            <7>1. i - 1 \in DOMAIN q' /\ q'[i - 1] = u
              BY <6>1, <4>2, <2>1, <2>3
            <7>2. QED
              BY <7>1
          <6>2. ASSUME NEW i \in DOMAIN q', q'[i] = u
                PROVE  \E j \in DOMAIN q : q[j] = u
            <7>1. i + 1 \in DOMAIN q /\ q[i + 1] = u
              BY <6>2, <2>1, <2>3
            <7>2. QED
              BY <7>1
          <6>3. QED
            BY <6>1, <6>2
        <5>2. QED
          BY <4>2, <5>1, <2>4 DEF QueueInv
      <4>3. QED
        BY <4>1, <4>2
    <3>3. \A u \in Tasks : /\ state'[u] = "TASK_BLOCKED" => pc'[u] = "yield"
                           /\ state'[u] # "TASK_SUSPENDED"
      BY <2>4 DEF QueueInv
    <3>4. QED
      BY <3>1, <3>2, <3>3 DEF QueueInv
  <2>8. OwnerInv'
    BY <2>1, <2>3 DEF OwnerInv
  <2>9. BeliefInv'
    BY <2>1, <2>3, <2>4, <2>6, <1>2 DEF BeliefInv, TookOver
  <2>10. CountInv'
    <3>1. mutex'.owner # NULL
      BY <2>1, <2>3
    <3>2. pc'[w] = "yield" /\ depth'[w] = 0
      BY <2>1, <2>6, <1>2
    <3>3. kind' = kind /\ (kind = "recursive" => n = 1)
      BY <1>1, <1>4
    <3>4. QED
      BY <3>1, <3>2, <3>3, <2>1, <2>3, <1>2 DEF CountInv
  <2>11. QED
    BY <2>5, <2>7, <2>8, <2>9, <2>10
<1>5. QED
  BY <1>3, <1>4

\* The owner of a mutex that is in its critical section and not in a call.
LEMMA OwnerDepth ==
    ASSUME IInv, NEW t \in Tasks, pc[t] = "run", mutex.owner = t
    PROVE  /\ depth[t] \in Nat \ {0}
           /\ kind = "plain" => depth[t] = 1
           /\ kind = "recursive" => mutex.recursive_count = depth[t]
<1>1. depth[t] \in Nat /\ depth[t] > 0
  BY DEF IInv, TypeOK, BeliefInv, TookOver
<1>2. kind = "plain" => depth[t] <= 1
  BY DEF IInv, CountInv
<1>3. kind = "recursive" => mutex.recursive_count = depth[t]
  BY <1>1 DEF IInv, CountInv
<1>4. QED
  BY <1>1, <1>2, <1>3

\* Changing the count and the depth of the owner of a recursive mutex together.
LEMMA RecountKeepsIInv ==
    ASSUME IInv, NEW t \in Tasks, NEW n \in Nat \ {0},
           kind = "recursive", pc[t] = "run", mutex.owner = t,
           mutex' = [mutex EXCEPT !.recursive_count = n],
           depth' = [depth EXCEPT ![t] = n],
           UNCHANGED <<kind, state, pc>>
    PROVE  IInv'
<1> USE SyncAssumption DEF IInv
<1>1. /\ q' = q /\ mutex'.owner = t /\ mutex'.locked = mutex.locked
      /\ mutex'.recursive_count = n /\ mutex' \in MutexType
  BY DEF TypeOK, MutexType, q
<1>2. depth' \in [Tasks -> Nat] /\ depth'[t] = n
      /\ \A u \in Tasks : u # t => depth'[u] = depth[u]
  BY DEF TypeOK
<1>3. TypeOK'
  BY <1>1, <1>2 DEF TypeOK
<1>4. QueueInv' /\ OwnerInv'
  BY <1>1 DEF QueueInv, OwnerInv
<1>5. BeliefInv'
  BY <1>1, <1>2 DEF BeliefInv, TookOver, TypeOK
<1>6. CountInv'
  BY <1>1, <1>2 DEF CountInv
<1>7. QED
  BY <1>3, <1>4, <1>5, <1>6

\* Returning from task_yield makes the new owner's belief explicit.
LEMMA ReturnKeepsIInv ==
    ASSUME IInv, NEW t \in Tasks, ReturnFromYield(t)
    PROVE  IInv'
<1> USE SyncAssumption DEF IInv, ReturnFromYield
<1>1. mutex.owner = t /\ depth[t] = 0
  BY DEF BeliefInv, TookOver
<1>2. depth' \in [Tasks -> Nat] /\ depth'[t] = 1
      /\ \A u \in Tasks : u # t => depth'[u] = depth[u]
  BY <1>1 DEF TypeOK
<1>3. pc' \in [Tasks -> {"run", "yield"}] /\ pc'[t] = "run"
      /\ \A u \in Tasks : u # t => pc'[u] = pc[u]
  BY DEF TypeOK
<1>4. TypeOK'
  BY <1>2, <1>3 DEF TypeOK
<1>5. QueueInv' /\ OwnerInv'
  BY <1>3 DEF QueueInv, OwnerInv, q
<1>6. BeliefInv'
  BY <1>1, <1>2, <1>3 DEF BeliefInv, TookOver
<1>7. CountInv'
  BY <1>1, <1>2, <1>3 DEF CountInv, TypeOK
<1>8. QED
  BY <1>4, <1>5, <1>6, <1>7

\* Every call of mutex.c, and every return from task_yield, keeps the invariant.
LEMMA NextKeepsIInv == IInv /\ [Next]_vars => IInv'
<1> SUFFICES ASSUME IInv, [Next]_vars PROVE IInv'
  OBVIOUS
<1>0. mutex \in MutexType /\ mutex.recursive_count \in Nat
  BY DEF IInv, TypeOK, MutexType
<1>1. ASSUME NEW t \in Tasks, mutex_lock(t) PROVE IInv'
  <2> USE <1>1 DEF mutex_lock, Calls
  <2>1. CASE ~mutex.locked /\ mutex' = MutexTake(mutex, t)
             /\ depth' = [depth EXCEPT ![t] = @ + 1] /\ UNCHANGED <<state, pc>>
    <3>1. mutex' = [MutexTake(mutex, t) EXCEPT !.recursive_count = mutex.recursive_count]
      BY <1>0, <2>1 DEF MutexTake, MutexType
    <3>2. QED
      BY <1>0, <2>1, <3>1, TakeKeepsIInv
  <2>2. CASE mutex.locked /\ Block(t) /\ UNCHANGED depth
    BY <2>2, BlockKeepsIInv
  <2>3. QED
    BY <2>1, <2>2
<1>2. ASSUME NEW t \in Tasks, mutex_trylock(t) PROVE IInv'
  <2> USE <1>2 DEF mutex_trylock, Calls
  <2>1. mutex' = [MutexTake(mutex, t) EXCEPT !.recursive_count = mutex.recursive_count]
    BY <1>0 DEF MutexTake, MutexType
  <2>2. QED
    BY <1>0, <2>1, TakeKeepsIInv
<1>3. ASSUME NEW t \in Tasks, mutex_unlock(t) PROVE IInv'
  <2> USE <1>3 DEF mutex_unlock, Calls, Handover
  <2>1. depth[t] = 1
    BY OwnerDepth
  <2>2. mutex' = [MutexUnlock(mutex, t) EXCEPT !.recursive_count = mutex.recursive_count]
    BY <1>0 DEF MutexUnlock, MutexType
  <2>3. QED
    BY <1>0, <2>1, <2>2, ReleaseKeepsIInv
<1>4. ASSUME NEW t \in Tasks, recursive_mutex_lock(t) PROVE IInv'
  <2> USE <1>4 DEF recursive_mutex_lock, Calls
  <2>1. CASE mutex.owner = t /\ mutex' = [mutex EXCEPT !.recursive_count = @ + 1]
             /\ depth' = [depth EXCEPT ![t] = @ + 1] /\ UNCHANGED <<state, pc>>
    <3>1. mutex.recursive_count = depth[t] /\ depth[t] \in Nat \ {0}
      BY <2>1, OwnerDepth
    <3>2. /\ depth[t] + 1 \in Nat \ {0}
          /\ mutex' = [mutex EXCEPT !.recursive_count = depth[t] + 1]
          /\ depth' = [depth EXCEPT ![t] = depth[t] + 1]
      BY <2>1, <3>1
    <3>3. QED
      BY <2>1, <3>2, RecountKeepsIInv
  <2>2. CASE ~mutex.locked /\ mutex' = [MutexTake(mutex, t) EXCEPT !.recursive_count = 1]
             /\ depth' = [depth EXCEPT ![t] = @ + 1] /\ UNCHANGED <<state, pc>>
    BY <2>2, TakeKeepsIInv
  <2>3. CASE mutex.owner # t /\ mutex.locked /\ Block(t) /\ UNCHANGED depth
    BY <2>3, BlockKeepsIInv
  <2>4. QED
    BY <2>1, <2>2, <2>3
<1>5. ASSUME NEW t \in Tasks, recursive_mutex_unlock(t) PROVE IInv'
  <2> USE <1>5 DEF recursive_mutex_unlock, Calls
  <2>1. mutex.recursive_count = depth[t] /\ depth[t] \in Nat \ {0}
    BY OwnerDepth
  <2>2. CASE mutex.recursive_count > 1 /\ UNCHANGED state
             /\ mutex' = [mutex EXCEPT !.recursive_count = @ - 1]
    <3>1. depth[t] - 1 \in Nat \ {0}
      BY <2>1, <2>2
    <3>2. QED
      BY <2>1, <2>2, <3>1, RecountKeepsIInv
  <2>3. CASE mutex.recursive_count = 1 /\ FullUnlock(t)
    BY <2>1, <2>3, ReleaseKeepsIInv DEF FullUnlock
  <2>4. QED
    BY <2>2, <2>3
<1>6. ASSUME NEW t \in Tasks, ReturnFromYield(t) PROVE IInv'
  BY <1>6, ReturnKeepsIInv
<1>7. CASE UNCHANGED vars
  BY <1>7 DEF vars, IInv, TypeOK, QueueInv, OwnerInv, BeliefInv, CountInv, TookOver, q
<1>8. QED
  BY <1>1, <1>2, <1>3, <1>4, <1>5, <1>6, <1>7 DEF Next, StepOf

\* In every reachable state of mutex.c the queue holds the blocked tasks, the
\* owner field names the one task that is inside or was just handed the mutex,
\* and recursive_count is its nesting depth.
THEOREM Invariance == Spec => []IInv
BY InitIInv, NextKeepsIInv, PTL DEF Spec

-----------------------------------------------------------------------------
(* What the invariant gives. *)

\* mutex.c keeps its data well typed: in particular owner is NULL or a task and
\* recursive_count never wraps below zero.
THEOREM TypeCorrect == Spec => []TypeOK
<1>1. IInv => TypeOK
  BY DEF IInv
<1>2. QED
  BY <1>1, Invariance, PTL

\* Between a lock call that returned and the matching unlock a task is alone,
\* for plain and recursive mutexes.
THEOREM MutualExclusionHolds == Spec => []MutualExclusion
<1>1. IInv => MutualExclusion
  BY DEF IInv, BeliefInv, MutualExclusion
<1>2. QED
  BY <1>1, Invariance, PTL

\* A task blocked in a lock call is on the queue once, the queue holds only such
\* tasks, and somebody owns the mutex they wait for: no wake-up is lost.
THEOREM NoForgottenWaiterHolds == Spec => []NoForgottenWaiter
<1>1. IInv => NoForgottenWaiter
  <2> SUFFICES ASSUME IInv PROVE NoForgottenWaiter
    OBVIOUS
  <2> USE DEF IInv
  <2>1. \A t \in Tasks : t \in Waiting <=> \E i \in DOMAIN q : q[i] = t
    BY DEF Waiting, q
  <2>2. \A t \in Tasks : state[t] = "TASK_BLOCKED" <=> t \in Waiting
    BY <2>1 DEF QueueInv
  <2>3. \A i, j \in DOMAIN mutex.waiting_tasks :
          mutex.waiting_tasks[i] = mutex.waiting_tasks[j] => i = j
    BY DEF QueueInv, q
  <2>4. Waiting # {} => mutex.locked /\ mutex.owner \in Tasks
    BY DEF Waiting, OwnerInv, q
  <2>5. QED
    BY <2>2, <2>3, <2>4 DEF NoForgottenWaiter
<1>2. QED
  BY <1>1, Invariance, PTL

\* recursive_count is the nesting depth of the owner.
THEOREM RecursionBalancedHolds == Spec => []RecursionBalanced
<1>1. IInv => RecursionBalanced
  BY DEF IInv, TypeOK, MutexType, CountInv, RecursionBalanced
<1>2. QED
  BY <1>1, Invariance, PTL

\* While tasks wait, an unlock hands the mutex to the first of them and no other
\* call changes the owner.
THEOREM NoOvertakingHolds == Spec => NoOvertaking
<1> DEFINE Step == Waiting # {} =>
        mutex'.owner \in {mutex.owner, FirstWaiting(mutex.waiting_tasks)}
<1>1. IInv /\ [Next]_vars => [Step]_vars
  <2> SUFFICES ASSUME IInv, Next, Waiting # {}
               PROVE  mutex'.owner \in {mutex.owner, FirstWaiting(mutex.waiting_tasks)}
    OBVIOUS
  <2>1. mutex \in MutexType /\ mutex.locked /\ mutex.waiting_tasks # <<>>
    BY DEF IInv, TypeOK, MutexType, OwnerInv, Waiting, q
  <2>2. ASSUME NEW t \in Tasks, NEW m, mutex.owner = t, m = MutexUnlock(mutex, t)
        PROVE  m.owner = FirstWaiting(mutex.waiting_tasks) /\ m \in MutexType
    BY <2>1, <2>2, TailFacts DEF MutexUnlock, MutexType
  <2>3. ASSUME NEW t \in Tasks, mutex_lock(t) PROVE mutex'.owner = mutex.owner
    BY <2>1, <2>3 DEF mutex_lock, Block, MutexWait, MutexType
  <2>4. ASSUME NEW t \in Tasks PROVE ~mutex_trylock(t)
    BY <2>1 DEF mutex_trylock
  <2>5. ASSUME NEW t \in Tasks, mutex_unlock(t)
        PROVE  mutex'.owner = FirstWaiting(mutex.waiting_tasks)
    BY <2>2, <2>5 DEF mutex_unlock, Handover
  <2>6. ASSUME NEW t \in Tasks, recursive_mutex_lock(t) PROVE mutex'.owner = mutex.owner
    BY <2>1, <2>6 DEF recursive_mutex_lock, Block, MutexWait, MutexType
  <2>7. ASSUME NEW t \in Tasks, recursive_mutex_unlock(t)
        PROVE  mutex'.owner \in {mutex.owner, FirstWaiting(mutex.waiting_tasks)}
    <3>1. CASE UNCHANGED state /\ mutex' = [mutex EXCEPT !.recursive_count = @ - 1]
      BY <2>1, <3>1 DEF MutexType
    <3>2. CASE FullUnlock(t)
      <4>1. mutex.owner = t
        BY <2>7 DEF recursive_mutex_unlock
      <4>2. QED
        BY <3>2, <4>1, <2>2 DEF FullUnlock, MutexType
    <3>3. QED
      BY <2>7, <3>1, <3>2 DEF recursive_mutex_unlock
  <2>8. ASSUME NEW t \in Tasks, ReturnFromYield(t) PROVE mutex'.owner = mutex.owner
    BY <2>8 DEF ReturnFromYield
  <2>9. QED
    BY <2>3, <2>4, <2>5, <2>6, <2>7, <2>8 DEF Next, StepOf
<1>2. QED
  BY <1>1, Invariance, PTL DEF Spec, NoOvertaking

-----------------------------------------------------------------------------
(* The mutex implements the lock service. *)

\* A task is inside exactly when it owns the mutex, and waits exactly when it is
\* in a call and does not own it; then it is on the queue.
StatusOK ==
    /\ status \in [Tasks -> {"in", "waiting", "out"}]
    /\ \A t \in Tasks :
         /\ status[t] = "in" <=> mutex.owner = t
         /\ status[t] = "waiting" <=> pc[t] = "yield" /\ mutex.owner # t
         /\ status[t] = "waiting" <=> mutex.owner # t /\ \E i \in DOMAIN q : q[i] = t

\* Under the invariant, what a caller sees follows from owner and pc alone.
LEMMA StatusFacts == IInv => StatusOK
<1> SUFFICES ASSUME IInv PROVE StatusOK
  OBVIOUS
<1>1. status \in [Tasks -> {"in", "waiting", "out"}]
  BY DEF status
<1>2. ASSUME NEW t \in Tasks
      PROVE  /\ status[t] = "in" <=> mutex.owner = t
             /\ status[t] = "waiting" <=> pc[t] = "yield" /\ mutex.owner # t
  BY DEF status, IInv, BeliefInv, TookOver
<1>3. ASSUME NEW t \in Tasks, status[t] = "waiting"
      PROVE  \E i \in DOMAIN q : q[i] = t
  <2>1. pc[t] = "yield" /\ state[t] # "TASK_READY"
    BY <1>3 DEF status
  <2>2. state[t] = "TASK_BLOCKED"
    BY <2>1 DEF IInv, TypeOK, TaskState, QueueInv
  <2>3. QED
    BY <2>2 DEF IInv, QueueInv
<1>4. ASSUME NEW t \in Tasks, \E i \in DOMAIN q : q[i] = t
      PROVE  pc[t] = "yield"
  BY <1>4 DEF IInv, QueueInv
<1>5. QED
  BY <1>1, <1>2, <1>3, <1>4 DEF StatusOK

\* A step that changes neither the owner nor who else is in a call is invisible.
LEMMA InvisibleStep ==
    ASSUME StatusOK, StatusOK', mutex'.owner = mutex.owner,
           \A t \in Tasks : mutex.owner # t => pc'[t] = pc[t]
    PROVE  status' = status
<1>1. \A t \in Tasks : status'[t] = status[t]
  BY DEF StatusOK
<1>2. QED
  BY <1>1 DEF StatusOK

\* Taking the free mutex is Enter.
LEMMA TakeIsEnter ==
    ASSUME IInv, StatusOK, StatusOK', NEW t \in Tasks, ~mutex.locked, pc[t] = "run",
           mutex'.owner = t, UNCHANGED pc
    PROVE  Lock!Enter(t)
<1>1. \A u \in Tasks : status[u] # "in"
  BY DEF IInv, OwnerInv, StatusOK
<1>2. status[t] = "out"
  BY <1>1 DEF StatusOK
<1>3. \A u \in Tasks : u # t => status'[u] = status[u]
  BY <1>1 DEF StatusOK
<1>4. status' = [status EXCEPT ![t] = "in"]
  BY <1>3 DEF StatusOK
<1>5. QED
  BY <1>1, <1>2, <1>4 DEF Lock!Enter, Lock!NobodyElseIn

\* Queueing up is Wait, or invisible if the task waits for itself.
LEMMA BlockIsWait ==
    ASSUME IInv, StatusOK, StatusOK', NEW t \in Tasks, mutex.locked, pc[t] = "run", Block(t)
    PROVE  Lock!Wait(t) \/ status' = status
<1>1. mutex'.owner = mutex.owner /\ mutex.owner \in Tasks
  BY DEF IInv, TypeOK, MutexType, OwnerInv, Block, MutexWait
<1>2. pc' = [pc EXCEPT ![t] = "yield"] /\ pc \in [Tasks -> {"run", "yield"}]
  BY DEF Block, IInv, TypeOK
<1>3. CASE mutex.owner = t
  <2>1. \A u \in Tasks : mutex.owner # u => pc'[u] = pc[u]
    BY <1>2, <1>3
  <2>2. QED
    BY <1>1, <2>1, InvisibleStep
<1>4. CASE mutex.owner # t
  <2>1. status[t] = "out" /\ status[mutex.owner] = "in"
    BY <1>1, <1>4 DEF StatusOK
  <2>2. \A u \in Tasks : u # t => status'[u] = status[u]
    BY <1>1, <1>2 DEF StatusOK
  <2>3. status'[t] = "waiting"
    BY <1>1, <1>2, <1>4 DEF StatusOK
  <2>4. status' = [status EXCEPT ![t] = "waiting"]
    BY <2>2, <2>3 DEF StatusOK
  <2>5. QED
    BY <1>1, <2>1, <2>4 DEF Lock!Wait
<1>5. QED
  BY <1>3, <1>4

\* Giving the mutex up is Leave: the first waiting task, if any, is inside.
LEMMA ReleaseIsLeave ==
    ASSUME IInv, StatusOK, StatusOK', NEW t \in Tasks, state[t] = "TASK_READY", pc[t] = "run",
           mutex.owner = t, mutex'.owner = MutexUnlock(mutex, t).owner, UNCHANGED pc
    PROVE  Lock!Leave(t)
<1> USE SyncAssumption
<1>1. status[t] = "in" /\ Lock!NobodyElseIn(t)
  BY DEF StatusOK, Lock!NobodyElseIn
<1>2. mutex \in MutexType /\ q \in Seq(Tasks) /\ q = mutex.waiting_tasks
  BY DEF IInv, TypeOK, MutexType, q
<1>3. CASE q = <<>>
  <2>1. mutex'.owner = NULL
    BY <1>2, <1>3 DEF MutexUnlock, MutexType
  <2>2. \A u \in Tasks : status[u] # "waiting"
    BY <1>3 DEF StatusOK
  <2>3. \A u \in Tasks : status'[u] = IF u = t THEN "out" ELSE status[u]
    BY <2>1, <2>2 DEF StatusOK
  <2>4. status' = [status EXCEPT ![t] = "out"]
    BY <2>3 DEF StatusOK
  <2>5. QED
    BY <1>1, <2>2, <2>4 DEF Lock!Leave
<1>4. CASE q # <<>>
  <2> DEFINE w == q[1]
  <2>1. /\ w \in Tasks /\ FirstWaiting(q) = w /\ 1 \in DOMAIN q
        /\ remove_from_wait_queue(q) \in Seq(Tasks)
    BY <1>2, <1>4, TailFacts
  <2>2. mutex'.owner = w
    BY <1>2, <1>4, <2>1 DEF MutexUnlock, MutexType
  <2>3. w # t
    BY <2>1 DEF IInv, QueueInv
  <2>4. status[w] = "waiting"
    BY <2>1, <2>3 DEF StatusOK
  <2>5. status'[t] = "out" /\ status'[w] = "in"
    BY <2>1, <2>2, <2>3 DEF StatusOK
  <2>6. \A u \in Tasks : u # t /\ u # w => status'[u] = status[u]
    BY <2>2 DEF StatusOK
  <2>7. status' = [status EXCEPT ![t] = "out", ![w] = "in"]
    BY <2>1, <2>3, <2>5, <2>6 DEF StatusOK
  <2>8. QED
    BY <1>1, <2>1, <2>4, <2>7 DEF Lock!Leave
<1>5. QED
  BY <1>3, <1>4

\* Every step of mutex.c is a step of LockService, or invisible in it.
LEMMA StepRefines == IInv /\ IInv' /\ [Next]_vars => [Lock!LockNext]_status
<1> SUFFICES ASSUME IInv, IInv', [Next]_vars, StatusOK, StatusOK'
             PROVE  [Lock!LockNext]_status
  <2>1. IInv' => StatusOK'
    BY StatusFacts, PTL
  <2>2. QED
    BY <2>1, StatusFacts
<1>0. mutex \in MutexType
  BY DEF IInv, TypeOK
<1>1. ASSUME NEW t \in Tasks, mutex_lock(t) PROVE [Lock!LockNext]_status
  <2>1. CASE ~mutex.locked /\ mutex' = MutexTake(mutex, t) /\ UNCHANGED <<state, pc>>
    <3>1. mutex'.owner = t
      BY <1>0, <2>1 DEF MutexTake, MutexType
    <3>2. Lock!Enter(t)
      BY <1>1, <2>1, <3>1, TakeIsEnter DEF mutex_lock, Calls
    <3>3. QED
      BY <3>2 DEF Lock!LockNext
  <2>2. CASE mutex.locked /\ Block(t)
    BY <1>1, <2>2, BlockIsWait DEF mutex_lock, Calls, Lock!LockNext
  <2>3. QED
    BY <1>1, <2>1, <2>2 DEF mutex_lock
<1>2. ASSUME NEW t \in Tasks, mutex_trylock(t) PROVE [Lock!LockNext]_status
  <2>1. mutex'.owner = t
    BY <1>0, <1>2 DEF mutex_trylock, MutexTake, MutexType
  <2>2. Lock!Enter(t)
    BY <1>2, <2>1, TakeIsEnter DEF mutex_trylock, Calls
  <2>3. QED
    BY <2>2 DEF Lock!LockNext
<1>3. ASSUME NEW t \in Tasks, mutex_unlock(t) PROVE [Lock!LockNext]_status
  <2>1. Lock!Leave(t)
    BY <1>3, ReleaseIsLeave DEF mutex_unlock, Calls, Handover
  <2>2. QED
    BY <2>1 DEF Lock!LockNext
<1>4. ASSUME NEW t \in Tasks, recursive_mutex_lock(t) PROVE [Lock!LockNext]_status
  <2>1. CASE mutex' = [mutex EXCEPT !.recursive_count = @ + 1] /\ UNCHANGED <<state, pc>>
    <3>1. mutex'.owner = mutex.owner
      BY <1>0, <2>1 DEF MutexType
    <3>2. QED
      BY <2>1, <3>1, InvisibleStep
  <2>2. CASE ~mutex.locked /\ mutex' = [MutexTake(mutex, t) EXCEPT !.recursive_count = 1]
             /\ UNCHANGED <<state, pc>>
    <3>1. mutex'.owner = t
      BY <1>0, <2>2 DEF MutexTake, MutexType
    <3>2. Lock!Enter(t)
      BY <1>4, <2>2, <3>1, TakeIsEnter DEF recursive_mutex_lock, Calls
    <3>3. QED
      BY <3>2 DEF Lock!LockNext
  <2>3. CASE mutex.locked /\ Block(t)
    BY <1>4, <2>3, BlockIsWait DEF recursive_mutex_lock, Calls, Lock!LockNext
  <2>4. QED
    BY <1>4, <2>1, <2>2, <2>3 DEF recursive_mutex_lock
<1>5. ASSUME NEW t \in Tasks, recursive_mutex_unlock(t) PROVE [Lock!LockNext]_status
  <2>1. CASE mutex' = [mutex EXCEPT !.recursive_count = @ - 1]
    <3>1. mutex'.owner = mutex.owner
      BY <1>0, <2>1 DEF MutexType
    <3>2. QED
      BY <1>5, <3>1, InvisibleStep DEF recursive_mutex_unlock
  <2>2. CASE FullUnlock(t)
    <3>1. mutex'.owner = MutexUnlock(mutex, t).owner
      BY <1>0, <2>2 DEF FullUnlock, MutexUnlock, MutexType
    <3>2. Lock!Leave(t)
      BY <1>5, <3>1, ReleaseIsLeave DEF recursive_mutex_unlock, Calls
    <3>3. QED
      BY <3>2 DEF Lock!LockNext
  <2>3. QED
    BY <1>5, <2>1, <2>2 DEF recursive_mutex_unlock
<1>6. ASSUME NEW t \in Tasks, ReturnFromYield(t) PROVE [Lock!LockNext]_status
  <2>1. mutex.owner = t
    BY <1>6 DEF ReturnFromYield, IInv, BeliefInv, TookOver
  <2>2. mutex'.owner = mutex.owner /\ \A u \in Tasks : mutex.owner # u => pc'[u] = pc[u]
    BY <1>6, <2>1 DEF ReturnFromYield, IInv, TypeOK
  <2>3. QED
    BY <2>2, InvisibleStep
<1>7. CASE UNCHANGED vars
  BY <1>7 DEF vars, status
<1>8. QED
  BY <1>1, <1>2, <1>3, <1>4, <1>5, <1>6, <1>7 DEF Next, StepOf

\* Every behaviour of mutex.c, seen through which tasks wait and which are in
\* their critical section, is a behaviour of the lock service.
THEOREM Refinement == Spec => ImplementsLockService
<1>1. Init => Lock!LockInit
  BY DEF Init, Lock!LockInit, status
<1>2. QED
  BY <1>1, StepRefines, Invariance, PTL DEF Spec, ImplementsLockService, Lock!LockSpec

=============================================================================
