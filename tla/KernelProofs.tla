--------------------------- MODULE KernelProofs -----------------------------
(***************************************************************************)
(* Proofs about four parts of the kernel that share no state with one      *)
(* another: semaphores, page replacement with the protection of pages, the *)
(* real-time scheduler, and the tables of the IPC objects.                 *)
(***************************************************************************)
EXTENDS Semaphore, VirtualMemory, RtScheduler, IpcTables,
        FiniteSetTheorems, SequenceTheorems, WellFoundedInduction, TLAPS

\* A set of numbers has a least one, and Min finds it.
LEMMA Least ==
    ASSUME NEW H \in SUBSET Nat, H # {}
    PROVE  /\ \E i \in H : \A j \in H : i <= j
           /\ Min(H) \in H
<1>1. PICK i \in H : \A j \in H : <<j, i>> \notin OpToRel(<, Nat)
  BY NatLessThanWellFounded, WFMin
<1>2. \A j \in H : ~(j < i)
  BY <1>1 DEF OpToRel
<1>3. \E k \in H : \A j \in H : k <= j
  BY <1>2
<1>4. Min(H) \in H
  BY <1>3 DEF Min
<1>5. QED
  BY <1>3, <1>4

\* add_to_wait_queue keeps the queue and puts the new task last.
LEMMA AppendFacts ==
    ASSUME NEW s \in Seq(Tasks), NEW t \in Tasks
    PROVE  /\ add_to_wait_queue(s, t) \in Seq(Tasks)
           /\ DOMAIN add_to_wait_queue(s, t) = 1..(Len(s) + 1)
           /\ Len(s) \in Nat
           /\ DOMAIN s = 1..Len(s)
           /\ \A i \in 1..Len(s) : add_to_wait_queue(s, t)[i] = s[i]
           /\ add_to_wait_queue(s, t)[Len(s) + 1] = t
BY DEF add_to_wait_queue

\* remove_from_wait_queue returns the first task and shifts the others down.
LEMMA TailFacts ==
    ASSUME NEW s \in Seq(Tasks), s # <<>>
    PROVE  /\ FirstWaiting(s) = s[1]
           /\ s[1] \in Tasks
           /\ remove_from_wait_queue(s) \in Seq(Tasks)
           /\ Len(s) \in Nat \ {0}
           /\ DOMAIN s = 1..Len(s)
           /\ DOMAIN remove_from_wait_queue(s) = 1..(Len(s) - 1)
           /\ \A i \in 1..(Len(s) - 1) : remove_from_wait_queue(s)[i] = s[i + 1]
BY DEF FirstWaiting, remove_from_wait_queue

-----------------------------------------------------------------------------
(* Semaphores: permits are conserved, nobody sleeps while one is available. *)

\* The queue and the task states, element by element.
QueueInv ==
    /\ \A i, j \in DOMAIN waiting_tasks : waiting_tasks[i] = waiting_tasks[j] => i = j
    /\ \A t \in Tasks : state[t] = "TASK_BLOCKED" <=>
                           \E i \in DOMAIN waiting_tasks : waiting_tasks[i] = t
    /\ \A t \in Tasks : state[t] = "TASK_BLOCKED" => pc[t] = "yield"
    /\ \A t \in Tasks : state[t] # "TASK_SUSPENDED"

\* A permit is only counted when nobody waits.
CountInv == count > 0 => waiting_tasks = <<>>

\* The inductive invariant.
IInv == TypeOK /\ QueueInv /\ CountInv /\ PermitsConserved

-----------------------------------------------------------------------------
(* The woken tasks. *)

\* The woken tasks are finitely many, so that they can be counted.
LEMMA WokenFinite == IsFiniteSet(Woken) /\ Cardinality(Woken) \in Nat
<1>1. Woken \in SUBSET Tasks
  BY DEF Woken
<1>2. QED
  BY <1>1, SemaphoreAssumption, FS_Subset, FS_CardinalityType

-----------------------------------------------------------------------------
(* The invariant holds initially and is kept by every action. *)

\* A semaphore that semaphore_init has just set up satisfies the invariant.
LEMMA InitIInv == Init => IInv
<1> SUFFICES ASSUME Init PROVE IInv
  OBVIOUS
<1> USE SemaphoreAssumption DEF Init
<1>1. TypeOK
  BY DEF TypeOK, TaskState
<1>2. QueueInv /\ CountInv
  BY DEF QueueInv, CountInv
<1>3. Woken = {}
  BY DEF Woken
<1>4. PermitsConserved
  BY <1>3, FS_EmptySet DEF PermitsConserved
<1>5. QED
  BY <1>1, <1>2, <1>4 DEF IInv

\* semaphore_wait and semaphore_trywait that find a permit.
LEMMA TakeKeepsIInv ==
    ASSUME IInv, count > 0, count' = count - 1, acquired' = acquired + 1,
           UNCHANGED <<waiting_tasks, state, pc, posted>>
    PROVE  IInv'
<1> USE DEF IInv
<1>1. TypeOK'
  BY DEF TypeOK
<1>2. QueueInv' /\ CountInv'
  BY DEF QueueInv, CountInv, TypeOK
<1>3. Woken' = Woken
  BY DEF Woken
<1>4. PermitsConserved'
  BY <1>3, WokenFinite, SemaphoreAssumption DEF PermitsConserved, TypeOK
<1>5. QED
  BY <1>1, <1>2, <1>4

\* semaphore_wait that finds none: the caller queues up and blocks.
LEMMA BlockKeepsIInv ==
    ASSUME IInv, NEW t \in Tasks, Runs(t), count <= 0,
           waiting_tasks' = add_to_wait_queue(waiting_tasks, t),
           state' = SetBlocked(state, t),
           pc' = [pc EXCEPT ![t] = "yield"],
           UNCHANGED <<count, acquired, posted>>
    PROVE  IInv'
<1> USE DEF IInv
<1> DEFINE s == waiting_tasks
           n == Len(waiting_tasks)
<1>1. /\ s' \in Seq(Tasks) /\ n \in Nat
      /\ DOMAIN s = 1..n /\ DOMAIN s' = 1..(n + 1)
      /\ s'[n + 1] = t
      /\ \A i \in 1..n : s'[i] = s[i]
  BY AppendFacts DEF TypeOK
<1>2. \A u \in Tasks : /\ state'[u] = IF u = t THEN "TASK_BLOCKED" ELSE state[u]
                       /\ pc'[u] = IF u = t THEN "yield" ELSE pc[u]
  BY DEF SetBlocked, TypeOK
<1>3. TypeOK'
  BY <1>1 DEF TypeOK, SetBlocked, TaskState
<1>4. state[t] = "TASK_READY" /\ pc[t] = "run"
  BY DEF Runs
<1>5. \A i \in 1..n : s[i] # t
  BY <1>1, <1>4 DEF QueueInv
<1>6. QueueInv'
  <2>1. \A i, j \in DOMAIN s' : s'[i] = s'[j] => i = j
    <3> SUFFICES ASSUME NEW i \in 1..(n + 1), NEW j \in 1..(n + 1), s'[i] = s'[j]
                 PROVE  i = j
      BY <1>1
    <3>1. CASE i \in 1..n /\ j \in 1..n
      BY <3>1, <1>1 DEF QueueInv
    <3>2. CASE i = n + 1 \/ j = n + 1
      BY <3>2, <1>1, <1>5
    <3>3. QED
      BY <3>1, <3>2, <1>1
  <2>2. ASSUME NEW u \in Tasks
        PROVE  state'[u] = "TASK_BLOCKED" <=> \E i \in DOMAIN s' : s'[i] = u
    <3>1. CASE u = t
      BY <3>1, <1>1, <1>2
    <3>2. CASE u # t
      <4>1. (\E i \in DOMAIN s' : s'[i] = u) <=> (\E i \in DOMAIN s : s[i] = u)
        BY <3>2, <1>1
      <4>2. QED
        BY <3>2, <4>1, <1>2 DEF QueueInv
    <3>3. QED
      BY <3>1, <3>2
  <2>3. \A u \in Tasks : /\ state'[u] = "TASK_BLOCKED" => pc'[u] = "yield"
                         /\ state'[u] # "TASK_SUSPENDED"
    BY <1>2 DEF QueueInv
  <2>4. QED
    BY <2>1, <2>2, <2>3 DEF QueueInv
<1>7. CountInv'
  BY DEF CountInv, TypeOK
<1>8. Woken' = Woken
  BY <1>2, <1>4 DEF Woken
<1>9. PermitsConserved'
  BY <1>8 DEF PermitsConserved
<1>10. QED
  BY <1>3, <1>6, <1>7, <1>9

\* semaphore_post with somebody waiting: the permit goes to the first waiter.
LEMMA WakeKeepsIInv ==
    ASSUME IInv, waiting_tasks # <<>>,
           posted < MaxPosts, posted' = posted + 1,
           waiting_tasks' = remove_from_wait_queue(waiting_tasks),
           state' = SetReady(state, {FirstWaiting(waiting_tasks)}),
           UNCHANGED <<count, pc, acquired>>
    PROVE  IInv'
<1> USE DEF IInv
<1> DEFINE s == waiting_tasks
           n == Len(waiting_tasks)
           w == waiting_tasks[1]
<1>1. /\ FirstWaiting(s) = w /\ w \in Tasks
      /\ s' \in Seq(Tasks) /\ n \in Nat \ {0}
      /\ DOMAIN s = 1..n /\ DOMAIN s' = 1..(n - 1)
      /\ \A i \in 1..(n - 1) : s'[i] = s[i + 1]
  BY TailFacts DEF TypeOK
<1>2. \A u \in Tasks : state'[u] = IF u = w THEN "TASK_READY" ELSE state[u]
  BY <1>1 DEF SetReady
<1>3. TypeOK'
  <2>1. state' \in [Tasks -> TaskState]
    BY <1>1 DEF TypeOK, SetReady, TaskState
  <2>2. posted' \in 0..MaxPosts
    BY SemaphoreAssumption DEF TypeOK
  <2>3. QED
    BY <1>1, <2>1, <2>2 DEF TypeOK
<1>4. state[w] = "TASK_BLOCKED" /\ pc[w] = "yield"
  BY <1>1 DEF QueueInv
<1>5. QueueInv'
  <2>1. \A i, j \in DOMAIN s' : s'[i] = s'[j] => i = j
    <3> SUFFICES ASSUME NEW i \in 1..(n - 1), NEW j \in 1..(n - 1), s'[i] = s'[j]
                 PROVE  i = j
      BY <1>1
    <3>1. i + 1 \in DOMAIN s /\ j + 1 \in DOMAIN s /\ s[i + 1] = s[j + 1]
      BY <1>1
    <3>2. i + 1 = j + 1
      BY <3>1 DEF QueueInv
    <3>3. QED
      BY <3>2
  <2>2. ASSUME NEW u \in Tasks
        PROVE  (\E i \in DOMAIN s' : s'[i] = u) <=> (\E i \in DOMAIN s : s[i] = u) /\ u # w
    <3>1. ASSUME NEW i \in DOMAIN s', s'[i] = u
          PROVE  (\E k \in DOMAIN s : s[k] = u) /\ u # w
      <4>1. i + 1 \in DOMAIN s /\ s[i + 1] = u /\ 1 \in DOMAIN s /\ i + 1 # 1
        BY <1>1, <3>1
      <4>2. QED
        BY <4>1 DEF QueueInv
    <3>2. ASSUME NEW i \in DOMAIN s, s[i] = u, u # w
          PROVE  \E k \in DOMAIN s' : s'[k] = u
      <4>1. i - 1 \in DOMAIN s' /\ s'[i - 1] = u
        BY <1>1, <3>2
      <4>2. QED
        BY <4>1
    <3>3. QED
      BY <3>1, <3>2
  <2>3. ASSUME NEW u \in Tasks
        PROVE  state'[u] = "TASK_BLOCKED" <=> \E i \in DOMAIN s' : s'[i] = u
    <3>1. state[u] = "TASK_BLOCKED" <=> \E i \in DOMAIN s : s[i] = u
      BY DEF QueueInv
    <3>2. state'[u] = "TASK_BLOCKED" <=> state[u] = "TASK_BLOCKED" /\ u # w
      BY <1>2
    <3>3. QED
      BY <2>2, <3>1, <3>2
  <2>4. \A u \in Tasks : /\ state'[u] = "TASK_BLOCKED" => pc'[u] = "yield"
                         /\ state'[u] # "TASK_SUSPENDED"
    BY <1>2 DEF QueueInv
  <2>5. QED
    BY <2>1, <2>3, <2>4 DEF QueueInv
<1>6. CountInv'
  BY DEF CountInv
<1>7. Woken' = Woken \cup {w} /\ w \notin Woken
  BY <1>1, <1>2, <1>4 DEF Woken
<1>8. Cardinality(Woken') = Cardinality(Woken) + 1
  BY <1>7, WokenFinite, FS_AddElement
<1>9. PermitsConserved'
  BY <1>8, WokenFinite, SemaphoreAssumption DEF PermitsConserved, TypeOK
<1>10. QED
  BY <1>3, <1>5, <1>6, <1>9

\* semaphore_post with nobody waiting: the permit is counted.
LEMMA CountKeepsIInv ==
    ASSUME IInv, waiting_tasks = <<>>,
           posted < MaxPosts, posted' = posted + 1, count' = count + 1,
           UNCHANGED <<waiting_tasks, state, pc, acquired>>
    PROVE  IInv'
<1> USE SemaphoreAssumption DEF IInv
<1>1. TypeOK'
  BY DEF TypeOK
<1>2. QueueInv' /\ CountInv'
  BY DEF QueueInv, CountInv
<1>3. Woken' = Woken
  BY DEF Woken
<1>4. PermitsConserved'
  BY <1>3, WokenFinite DEF PermitsConserved, TypeOK
<1>5. QED
  BY <1>1, <1>2, <1>4

\* A woken task returns from task_yield with its permit.
LEMMA ReturnKeepsIInv ==
    ASSUME IInv, NEW t \in Tasks, ReturnFromYield(t)
    PROVE  IInv'
<1> USE DEF IInv, ReturnFromYield
<1>1. TypeOK'
  BY DEF TypeOK
<1>2. \A u \in Tasks : pc'[u] = IF u = t THEN "run" ELSE pc[u]
  BY DEF TypeOK
<1>3. QueueInv' /\ CountInv'
  BY <1>2 DEF QueueInv, CountInv
<1>4. Woken' = Woken \ {t} /\ t \in Woken
  BY <1>2 DEF Woken
<1>5. Cardinality(Woken') = Cardinality(Woken) - 1
  BY <1>4, WokenFinite, FS_RemoveElement
<1>6. PermitsConserved'
  BY <1>5, WokenFinite, SemaphoreAssumption DEF PermitsConserved, TypeOK
<1>7. QED
  BY <1>1, <1>3, <1>6

\* Every call of semaphore.c keeps the invariant.
LEMMA NextKeepsIInv == IInv /\ [Next]_vars => IInv'
<1> SUFFICES ASSUME IInv, [Next]_vars PROVE IInv'
  OBVIOUS
<1>1. ASSUME NEW t \in Tasks, semaphore_wait(t) PROVE IInv'
  BY <1>1, TakeKeepsIInv, BlockKeepsIInv DEF semaphore_wait
<1>2. ASSUME NEW t \in Tasks, semaphore_trywait(t) PROVE IInv'
  BY <1>2, TakeKeepsIInv DEF semaphore_trywait
<1>3. ASSUME NEW t \in Tasks, semaphore_post(t) PROVE IInv'
  BY <1>3, WakeKeepsIInv, CountKeepsIInv DEF semaphore_post
<1>4. ASSUME NEW t \in Tasks, ReturnFromYield(t) PROVE IInv'
  BY <1>4, ReturnKeepsIInv
<1>5. CASE UNCHANGED vars
  <2>1. Woken' = Woken
    BY <1>5 DEF vars, Woken
  <2>2. QED
    BY <1>5, <2>1 DEF vars, IInv, TypeOK, QueueInv, CountInv, PermitsConserved
<1>6. QED
  BY <1>1, <1>2, <1>3, <1>4, <1>5 DEF Next

\* In every reachable state of semaphore.c the queue holds the blocked tasks, a
\* permit is counted only when nobody waits, and permits are conserved.
THEOREM Invariance == Spec => []IInv
BY InitIInv, NextKeepsIInv, PTL DEF Spec

-----------------------------------------------------------------------------
(* What the invariant gives. *)

\* semaphore.c keeps its data well typed: count never falls below zero.
THEOREM TypeCorrect == Spec => []TypeOK
<1>1. IInv => TypeOK
  BY DEF IInv
<1>2. QED
  BY <1>1, Invariance, PTL

\* The initial permits and those of all posts are in count, were returned by a
\* wait, or belong to a woken task: none is lost and none is made up.
THEOREM PermitsConservedHolds == Spec => []PermitsConserved
<1>1. IInv => PermitsConserved
  BY DEF IInv
<1>2. QED
  BY <1>1, Invariance, PTL

\* No task sleeps in semaphore_wait while count is positive.
THEOREM NoSleepOnPermitHolds == Spec => []NoSleepOnPermit
<1>1. IInv => NoSleepOnPermit
  BY DEF IInv, CountInv, NoSleepOnPermit, Waiting
<1>2. QED
  BY <1>1, Invariance, PTL

\* The tasks in task_yield() are the queued ones, blocked and each once on the
\* queue, and the woken ones.
THEOREM SleepersAreQueuedHolds == Spec => []SleepersAreQueued
<1>1. IInv => SleepersAreQueued
  <2> SUFFICES ASSUME IInv PROVE SleepersAreQueued
    OBVIOUS
  <2> USE DEF IInv
  <2>1. ASSUME NEW t \in Tasks PROVE t \in Waiting <=> state[t] = "TASK_BLOCKED"
    <3>1. t \in Waiting <=> \E i \in DOMAIN waiting_tasks : waiting_tasks[i] = t
      BY DEF Waiting
    <3>2. QED
      BY <3>1 DEF QueueInv
  <2>2. \A t \in Tasks : state[t] \in {"TASK_READY", "TASK_BLOCKED"}
    <3>1. \A t \in Tasks : state[t] \in TaskState
      BY DEF TypeOK
    <3>2. \A t \in Tasks : state[t] # "TASK_SUSPENDED"
      BY DEF QueueInv
    <3>3. QED
      BY <3>1, <3>2 DEF TaskState
  <2>3. ASSUME NEW t \in Tasks PROVE pc[t] = "yield" <=> t \in Waiting \cup Woken
    <3>1. t \in Woken <=> pc[t] = "yield" /\ state[t] = "TASK_READY"
      BY DEF Woken
    <3>2. t \in Waiting => pc[t] = "yield"
      BY <2>1 DEF QueueInv
    <3>3. QED
      BY <2>1, <2>2, <3>1, <3>2
  <2>4. QED
    BY <2>1, <2>3 DEF SleepersAreQueued, QueueInv
<1>2. QED
  BY <1>1, Invariance, PTL

\* Only a post makes a blocked task ready, and only the one that waits longest.
THEOREM FifoWakeupHolds == Spec => FifoWakeup
<1> DEFINE Step == \A t \in Tasks :
        state[t] = "TASK_BLOCKED" /\ state'[t] = "TASK_READY"
        => t = FirstWaiting(waiting_tasks)
<1>1. IInv /\ [Next]_vars => [Step]_vars
  <2> SUFFICES ASSUME IInv, Next, NEW u \in Tasks,
                      state[u] = "TASK_BLOCKED", state'[u] = "TASK_READY"
               PROVE  u = FirstWaiting(waiting_tasks)
    OBVIOUS
  <2>1. state \in [Tasks -> TaskState]
    BY DEF IInv, TypeOK
  <2>2. ASSUME NEW t \in Tasks, semaphore_wait(t) PROVE FALSE
    BY <2>1, <2>2 DEF semaphore_wait, SetBlocked
  <2>3. ASSUME NEW t \in Tasks, semaphore_trywait(t) PROVE FALSE
    BY <2>3 DEF semaphore_trywait
  <2>4. ASSUME NEW t \in Tasks, semaphore_post(t)
        PROVE  u = FirstWaiting(waiting_tasks)
    BY <2>4 DEF semaphore_post, SetReady
  <2>5. ASSUME NEW t \in Tasks, ReturnFromYield(t) PROVE FALSE
    BY <2>5 DEF ReturnFromYield
  <2>6. QED
    BY <2>2, <2>3, <2>4, <2>5 DEF Next
<1>2. QED
  BY <1>1, Invariance, PTL DEF Spec, FifoWakeup

-----------------------------------------------------------------------------
(* Virtual memory. *)

FrameFields == {"vaddr", "accessed", "reference"}

\* The descriptors and the entries are records, and every address in them, in the
\* pool or with kernel code is a page.
VmTypes ==
    /\ DOMAIN frames = Frames
    /\ \A i \in Frames : DOMAIN frames[i] = FrameFields
    /\ pte \in [VPages -> [page : Pages \cup {None}, prot : SUBSET {"READ", "WRITE"}]]
    /\ flags \in [Regions -> SUBSET {"READ", "WRITE"}]
    /\ pool \subseteq Pages /\ held \subseteq Pages

\* A frame descriptor names a page that has been given out.
FramesGivenOut == \A i \in Frames : frames[i].vaddr \in (Pages \ pool) \cup {None}

VmInv == VmTypes /\ FramesGivenOut /\ PagesNotShared /\ ProtectionAgrees

\* A virtual page lies in one region, and RegionOf finds it.
LEMMA RegionOfPage ==
    ASSUME NEW r \in Regions, NEW v \in r
    PROVE  v \in VPages /\ RegionOf(v) = r
<1>1. \E s \in Regions : v \in s
  OBVIOUS
<1>2. RegionOf(v) \in Regions /\ v \in RegionOf(v)
  BY <1>1 DEF RegionOf
<1>3. QED
  BY <1>2, VmAssumption DEF VPages

\* Choosing a victim changes accessed and reference, and no address.
LEMMA SelectKeepsAddresses ==
    ASSUME VmTypes, NEW i \in Frames
    PROVE  /\ DOMAIN AfterSelect(i) = Frames
           /\ \A j \in Frames : /\ DOMAIN AfterSelect(i)[j] = FrameFields
                                /\ AfterSelect(i)[j].vaddr = frames[j].vaddr
<1>1. CASE type = "PRA_CLOCK"
  <2>1. AfterSelect(i) = [j \in Frames |-> IF j \in ClockPasses(i)
                             THEN [frames[j] EXCEPT !.accessed = 0] ELSE frames[j]]
    BY <1>1 DEF AfterSelect
  <2>2. \A j \in Frames : /\ DOMAIN [frames[j] EXCEPT !.accessed = 0] = FrameFields
                          /\ [frames[j] EXCEPT !.accessed = 0].vaddr = frames[j].vaddr
    BY DEF VmTypes, FrameFields
  <2>3. QED
    BY <2>1, <2>2 DEF VmTypes
<1>2. CASE type = "PRA_NFU"
  <2>1. AfterSelect(i) = [j \in Frames |-> [frames[j] EXCEPT !.reference = Aged[j]]]
    BY <1>2 DEF AfterSelect
  <2>2. \A j \in Frames : /\ DOMAIN [frames[j] EXCEPT !.reference = Aged[j]] = FrameFields
                          /\ [frames[j] EXCEPT !.reference = Aged[j]].vaddr = frames[j].vaddr
    BY DEF VmTypes, FrameFields
  <2>3. QED
    BY <2>1, <2>2 DEF VmTypes
<1>3. CASE type \notin {"PRA_CLOCK", "PRA_NFU"}
  BY <1>3 DEF AfterSelect, VmTypes
<1>4. QED
  BY <1>1, <1>2, <1>3

\* What pra_alloc_page does to the pages: with an empty pool nothing; otherwise
\* a page of the pool leaves it and one descriptor is named by it.
GivesPage(page) ==
    /\ page \in pool /\ pool' = pool \ {page}
    /\ \E i \in Frames : /\ frames'[i].vaddr = page
                         /\ \A j \in Frames \ {i} : frames'[j].vaddr = frames[j].vaddr
GivesNone(page) ==
    /\ page = None /\ pool' = pool
    /\ \A j \in Frames : frames'[j].vaddr = frames[j].vaddr

\* Every policy gives a page in that way, or none.
LEMMA AllocGives ==
    ASSUME VmTypes, NEW page, pra_alloc_page(page)
    PROVE  /\ GivesPage(page) \/ GivesNone(page)
           /\ DOMAIN frames' = Frames
           /\ \A i \in Frames : DOMAIN frames'[i] = FrameFields
           /\ "partial" \in damage' <=> "partial" \in damage
<1> DEFINE free == {i \in Frames : frames[i].vaddr = None}
           FS(i) == IF free = {} THEN AfterSelect(i) ELSE frames
<1>1. PICK i \in Frames :
        IF pool = {}
        THEN /\ page = None
             /\ frames' = FS(i)
             /\ damage' = damage \cup {"holes"}
             /\ UNCHANGED <<pool, loaded>>
        ELSE /\ page = Min(pool)
             /\ frames' = [FS(i) EXCEPT ![i] = [vaddr |-> page, accessed |-> 1, reference |-> 0]]
             /\ pool' = TakePage(i, page)
             /\ UNCHANGED damage
  BY DEF pra_alloc_page
<1>2. /\ DOMAIN FS(i) = Frames
      /\ \A j \in Frames : DOMAIN FS(i)[j] = FrameFields /\ FS(i)[j].vaddr = frames[j].vaddr
  BY SelectKeepsAddresses DEF VmTypes
<1> HIDE DEF FS
<1>3. CASE pool = {}
  BY <1>1, <1>2, <1>3 DEF GivesNone
<1>4. CASE pool # {}
  <2>1. page \in pool
    BY <1>1, <1>4, Least, VmAssumption DEF VmTypes
  <2>2. /\ pool' = pool \ {page}
        /\ damage' = damage
    BY <1>1, <1>4 DEF TakePage
  <2>3. frames' = [FS(i) EXCEPT ![i] = [vaddr |-> page, accessed |-> 1, reference |-> 0]]
    BY <1>1, <1>4
  <2>4. /\ DOMAIN frames' = Frames
        /\ \A j \in Frames : DOMAIN frames'[j] = FrameFields
        /\ frames'[i].vaddr = page
        /\ \A j \in Frames \ {i} : frames'[j].vaddr = frames[j].vaddr
    BY <1>2, <2>3 DEF FrameFields
  <2>5. QED
    BY <2>1, <2>2, <2>4 DEF GivesPage
<1>5. QED
  BY <1>3, <1>4

\* Afterwards the descriptors name pages given out, one each.
LEMMA AllocFrames ==
    ASSUME VmInv, NEW page, pra_alloc_page(page)
    PROVE  /\ FramesGivenOut'
           /\ \A i, j \in Frames :
                frames'[i].vaddr = frames'[j].vaddr /\ frames'[i].vaddr # None => i = j
           /\ pool' \subseteq pool
<1>1. GivesPage(page) \/ GivesNone(page)
  BY AllocGives DEF VmInv
<1>2. CASE GivesPage(page)
  <2>1. PICK i \in Frames : /\ frames'[i].vaddr = page
                            /\ \A j \in Frames \ {i} : frames'[j].vaddr = frames[j].vaddr
    BY <1>2 DEF GivesPage
  <2>2. page \in pool /\ pool' = pool \ {page} /\ page \in Pages
    BY <1>2 DEF GivesPage, VmInv, VmTypes
  <2>3. \A j \in Frames : frames[j].vaddr # page
    BY <2>2, VmAssumption DEF VmInv, FramesGivenOut
  <2>4. FramesGivenOut'
    BY <2>1, <2>2 DEF VmInv, FramesGivenOut
  <2>5. QED
    BY <2>1, <2>2, <2>3, <2>4 DEF VmInv, PagesNotShared
<1>3. CASE GivesNone(page)
  BY <1>3 DEF GivesNone, VmInv, FramesGivenOut, PagesNotShared
<1>4. QED
  BY <1>1, <1>2, <1>3

\* Initially no page is in use.
LEMMA VmInitially == VmInit => VmInv
<1> SUFFICES ASSUME VmInit PROVE VmInv
  OBVIOUS
<1> USE DEF VmInit
<1>1. VmTypes
  BY DEF VmTypes, EmptyFrame, FrameFields
<1>2. FramesGivenOut
  BY DEF FramesGivenOut, EmptyFrame
<1>3. \A v \in VPages : pte[v].page = None
  OBVIOUS
<1>4. \A i \in Frames : frames[i].vaddr = None
  BY DEF EmptyFrame
<1>5. PagesNotShared
  BY <1>3, <1>4 DEF PagesNotShared
<1>6. ProtectionAgrees
  BY <1>3 DEF ProtectionAgrees
<1>7. QED
  BY <1>1, <1>2, <1>5, <1>6 DEF VmInv

\* Kernel code gets a page that nobody has.
LEMMA AllocDirectKeeps ==
    ASSUME VmInv, NEW page, AllocDirect(page)
    PROVE  VmInv'
<1> USE DEF AllocDirect
<1>1. /\ GivesPage(page) \/ GivesNone(page)
      /\ DOMAIN frames' = Frames
      /\ \A i \in Frames : DOMAIN frames'[i] = FrameFields
      /\ "partial" \in damage' <=> "partial" \in damage
  BY AllocGives DEF VmInv
<1>2. \/ page \in pool /\ page # None /\ pool' = pool \ {page} /\ held' = held \cup {page}
      \/ pool' = pool /\ held' = held
  BY <1>1, VmAssumption DEF GivesPage, GivesNone, VmInv, VmTypes
<1>3. VmTypes'
  BY <1>1, <1>2 DEF VmInv, VmTypes
<1>4. PagesNotShared'
  <2>1. \A v \in VPages : pte[v].page # None => pte[v].page \notin pool' \cup held'
    BY <1>2 DEF VmInv, PagesNotShared
  <2>2. held' \cap pool' = {}
    BY <1>2 DEF VmInv, PagesNotShared
  <2>3. QED
    BY <2>1, <2>2, AllocFrames DEF VmInv, PagesNotShared
<1>5. ProtectionAgrees'
  BY <1>1 DEF VmInv, ProtectionAgrees, RegionOf
<1>6. QED
  BY <1>3, <1>4, <1>5, AllocFrames DEF VmInv

\* A page that is freed was with kernel code and no other frame names it.
LEMMA FreeKeeps ==
    ASSUME VmInv, NEW page \in Pages, pra_free_page(page)
    PROVE  VmInv'
<1>1. /\ page \in held /\ held' = held \ {page}
      /\ pte' = pte /\ flags' = flags
  BY DEF pra_free_page
<1>2. page # None
  BY VmAssumption
<1>3. CASE ~\E i \in Frames : frames[i].vaddr = page
  <2>1. frames' = frames /\ pool' = pool /\ damage' = damage
    BY <1>3 DEF pra_free_page
  <2>2. QED
    BY <1>1, <2>1 DEF VmInv, VmTypes, FramesGivenOut, PagesNotShared, ProtectionAgrees, RegionOf
<1>4. CASE \E i \in Frames : frames[i].vaddr = page
  <2> DEFINE i == CHOOSE j \in Frames : frames[j].vaddr = page
  <2>1. i \in Frames /\ frames[i].vaddr = page
    BY <1>4
  <2>2. /\ frames' = [frames EXCEPT ![i] = EmptyFrame]
        /\ pool' = pool \cup {page}
        /\ damage' = damage \cup {"holes"}
    BY <1>4 DEF pra_free_page
  <2> HIDE DEF i
  <2>3. /\ DOMAIN frames' = Frames
        /\ \A j \in Frames : DOMAIN frames'[j] = FrameFields
        /\ frames'[i].vaddr = None
        /\ \A j \in Frames \ {i} : frames'[j].vaddr = frames[j].vaddr
    BY <2>1, <2>2 DEF EmptyFrame, FrameFields, VmInv, VmTypes
  <2>4. \A j \in Frames \ {i} : frames[j].vaddr # page
    BY <1>2, <2>1 DEF VmInv, PagesNotShared
  <2>5. VmTypes'
    BY <1>1, <2>2, <2>3 DEF VmInv, VmTypes
  <2>6. FramesGivenOut'
    BY <2>2, <2>3, <2>4 DEF VmInv, FramesGivenOut
  <2>7. PagesNotShared'
    <3>1. \A v \in VPages : pte[v].page # None => pte[v].page \notin pool' \cup held'
      BY <1>1, <2>2 DEF VmInv, PagesNotShared
    <3>2. held' \cap pool' = {}
      BY <1>1, <2>2 DEF VmInv, PagesNotShared
    <3>3. \A j, k \in Frames :
            frames'[j].vaddr = frames'[k].vaddr /\ frames'[j].vaddr # None => j = k
      BY <2>3 DEF VmInv, PagesNotShared
    <3>4. QED
      BY <1>1, <3>1, <3>2, <3>3 DEF VmInv, PagesNotShared
  <2>8. ProtectionAgrees'
    BY <1>1, <2>2 DEF VmInv, ProtectionAgrees, RegionOf
  <2>9. QED
    BY <2>5, <2>6, <2>7, <2>8 DEF VmInv
<1>5. QED
  BY <1>3, <1>4

\* Use of a page changes its bits only.
LEMMA AccessKeeps ==
    ASSUME VmInv, NEW page, pra_access_page(page)
    PROVE  VmInv'
<1>1. /\ DOMAIN frames' = Frames
      /\ \A i \in Frames : DOMAIN frames'[i] = FrameFields
      /\ \A i \in Frames : frames'[i].vaddr = frames[i].vaddr
  BY DEF pra_access_page, VmInv, VmTypes, FrameFields
<1>2. UNCHANGED <<pool, held, pte, flags, damage>>
  BY DEF pra_access_page
<1>3. QED
  BY <1>1, <1>2 DEF VmInv, VmTypes, FramesGivenOut, PagesNotShared, ProtectionAgrees, RegionOf

\* The page that a fault maps is new, and the entry gets the flags of the region.
LEMMA FaultKeeps ==
    ASSUME VmInv, NEW v \in VPages, NEW access, page_fault_handler(v, access)
    PROVE  VmInv'
<1>1. CASE UNCHANGED <<pra, held, pte, flags, damage>>
  BY <1>1 DEF pra, VmInv, VmTypes, FramesGivenOut, PagesNotShared, ProtectionAgrees, RegionOf
<1>2. CASE \E page \in Pages \cup {None} :
             /\ pra_alloc_page(page)
             /\ IF page = None THEN UNCHANGED pte
                ELSE pte' = [pte EXCEPT ![v] = [page |-> page, prot |-> flags[RegionOf(v)]]]
             /\ UNCHANGED <<held, flags>>
  <2>1. PICK page \in Pages \cup {None} :
             /\ pra_alloc_page(page)
             /\ IF page = None THEN UNCHANGED pte
                ELSE pte' = [pte EXCEPT ![v] = [page |-> page, prot |-> flags[RegionOf(v)]]]
             /\ UNCHANGED <<held, flags>>
    BY <1>2
  <2>2. PICK r \in Regions : v \in r
    BY DEF VPages
  <2>3. RegionOf(v) \in Regions
    BY <2>2, RegionOfPage
  <2>4. /\ GivesPage(page) \/ GivesNone(page)
        /\ DOMAIN frames' = Frames
        /\ \A i \in Frames : DOMAIN frames'[i] = FrameFields
        /\ "partial" \in damage' <=> "partial" \in damage
    BY <2>1, AllocGives DEF VmInv
  <2>5. /\ FramesGivenOut'
        /\ \A i, j \in Frames :
             frames'[i].vaddr = frames'[j].vaddr /\ frames'[i].vaddr # None => i = j
        /\ pool' \subseteq pool
    BY <2>1, AllocFrames
  <2>6. CASE page = None
    BY <2>1, <2>4, <2>5, <2>6 DEF VmInv, VmTypes, PagesNotShared, ProtectionAgrees, RegionOf
  <2>7. CASE page # None
    <3>1. /\ page \in pool /\ pool' = pool \ {page} /\ page \in Pages
          /\ held' = held /\ flags' = flags
      BY <2>1, <2>4, <2>7 DEF GivesPage, GivesNone
    <3>2. pte' = [pte EXCEPT ![v] = [page |-> page, prot |-> flags[RegionOf(v)]]]
      BY <2>1, <2>7
    <3>3. /\ pte' \in [VPages -> [page : Pages \cup {None}, prot : SUBSET {"READ", "WRITE"}]]
          /\ pte'[v].page = page /\ pte'[v].prot = flags[RegionOf(v)]
          /\ \A w \in VPages \ {v} : pte'[w] = pte[w]
      BY <2>3, <3>1, <3>2 DEF VmInv, VmTypes
    <3>4. VmTypes'
      BY <2>4, <2>5, <3>1, <3>3 DEF VmInv, VmTypes
    <3>5. \A w \in VPages : pte[w].page # None => pte[w].page # page
      BY <3>1 DEF VmInv, PagesNotShared
    <3>6. PagesNotShared'
      <4>1. \A w, u \in VPages :
              pte'[w].page # None /\ pte'[u].page # None /\ pte'[w].page = pte'[u].page => w = u
        BY <3>3, <3>5 DEF VmInv, PagesNotShared
      <4>2. \A w \in VPages : pte'[w].page # None => pte'[w].page \notin pool' \cup held'
        BY <3>1, <3>3 DEF VmInv, PagesNotShared
      <4>3. held' \cap pool' = {}
        BY <3>1 DEF VmInv, PagesNotShared
      <4>4. QED
        BY <4>1, <4>2, <4>3, <2>5 DEF PagesNotShared
    <3>7. ProtectionAgrees'
      <4> SUFFICES ASSUME "partial" \notin damage', NEW w \in VPages, pte'[w].page # None
                   PROVE  pte'[w].prot = flags'[RegionOf(w)]
        BY DEF ProtectionAgrees, RegionOf
      <4>1. CASE w = v
        BY <3>1, <3>3, <4>1
      <4>2. CASE w # v
        BY <2>4, <3>1, <3>3, <4>2 DEF VmInv, ProtectionAgrees
      <4>3. QED
        BY <4>1, <4>2
    <3>8. QED
      BY <2>5, <3>4, <3>6, <3>7 DEF VmInv
  <2>8. QED
    BY <2>6, <2>7
<1>3. QED
  BY <1>1, <1>2 DEF page_fault_handler

\* mm_protect keeps the pages; on a whole region it changes all its entries.
LEMMA ProtectKeeps ==
    ASSUME VmInv, NEW r \in Regions, NEW prot \in Prot, NEW range, mm_protect(r, range, prot)
    PROVE  VmInv'
<1>1. /\ flags' = [flags EXCEPT ![r] = prot]
      /\ pte' = UpdateEntries(range, prot)
      /\ damage' = IF range = r THEN damage ELSE damage \cup {"partial"}
      /\ UNCHANGED <<frames, pool, held>>
      /\ range \subseteq r
  BY DEF mm_protect, pra
<1>2. prot \in SUBSET {"READ", "WRITE"}
  BY DEF Prot
<1>3. \A v \in VPages : /\ pte'[v] \in [page : Pages \cup {None}, prot : SUBSET {"READ", "WRITE"}]
                        /\ pte'[v].page = pte[v].page
                        /\ pte'[v].prot = IF v \in range /\ pte[v].page # None
                                          THEN prot ELSE pte[v].prot
  BY <1>1, <1>2 DEF UpdateEntries, VmInv, VmTypes
<1>4. VmTypes'
  <2>1. pte' \in [VPages -> [page : Pages \cup {None}, prot : SUBSET {"READ", "WRITE"}]]
    BY <1>1, <1>3 DEF UpdateEntries
  <2>2. QED
    BY <1>1, <1>2, <2>1 DEF VmInv, VmTypes
<1>5. FramesGivenOut'
  BY <1>1 DEF VmInv, FramesGivenOut
<1>6. PagesNotShared'
  BY <1>1, <1>3 DEF VmInv, PagesNotShared
<1>7. ProtectionAgrees'
  <2> SUFFICES ASSUME "partial" \notin damage', NEW v \in VPages, pte'[v].page # None
               PROVE  pte'[v].prot = flags'[RegionOf(v)]
    BY DEF ProtectionAgrees, RegionOf
  <2>1. range = r /\ "partial" \notin damage
    BY <1>1
  <2>2. PICK s \in Regions : v \in s
    BY DEF VPages
  <2>3. RegionOf(v) = s
    BY <2>2, RegionOfPage
  <2>4. pte[v].prot = flags[s]
    BY <1>3, <2>1, <2>3 DEF VmInv, ProtectionAgrees
  <2>5. CASE s = r
    BY <1>1, <1>3, <2>1, <2>2, <2>3, <2>5 DEF VmInv, VmTypes
  <2>6. CASE s # r
    <3>1. v \notin range
      BY <2>1, <2>2, <2>6, VmAssumption
    <3>2. QED
      BY <1>1, <1>3, <2>2, <2>3, <2>4, <2>6, <3>1 DEF VmInv, VmTypes
  <2>7. QED
    BY <2>5, <2>6
<1>8. QED
  BY <1>4, <1>5, <1>6, <1>7 DEF VmInv

\* VmInv holds in every state of the page replacement and of the fault handler.
THEOREM VmInvariance == VmSpec => []VmInv
<1>1. VmInv /\ [VmNext]_vmvars => VmInv'
  <2> SUFFICES ASSUME VmInv, [VmNext]_vmvars PROVE VmInv'
    OBVIOUS
  <2>1. ASSUME NEW page \in Pages \cup {None}, AllocDirect(page) PROVE VmInv'
    BY <2>1, AllocDirectKeeps
  <2>2. ASSUME NEW page \in Pages, pra_free_page(page) PROVE VmInv'
    BY <2>2, FreeKeeps
  <2>3. ASSUME NEW page \in Pages, pra_access_page(page) PROVE VmInv'
    BY <2>3, AccessKeeps
  <2>4. ASSUME NEW v \in VPages, NEW access \in {"read", "write"}, page_fault_handler(v, access)
        PROVE  VmInv'
    BY <2>4, FaultKeeps
  <2>5. ASSUME NEW r \in Regions, NEW prot \in Prot,
               NEW range \in {r} \cup {{v} : v \in r}, mm_protect(r, range, prot)
        PROVE  VmInv'
    BY <2>5, ProtectKeeps
  <2>6. CASE UNCHANGED vmvars
    BY <2>6 DEF vmvars, pra, VmInv, VmTypes, FramesGivenOut, PagesNotShared,
                ProtectionAgrees, RegionOf
  <2>7. QED
    BY <2>1, <2>2, <2>3, <2>4, <2>5, <2>6 DEF VmNext
<1>2. QED
  BY VmInitially, <1>1, PTL DEF VmSpec

\* Whatever the policy and however often frames are replaced under their users, no
\* physical page is given to two users (pra_alloc_page, page_fault_handler).
THEOREM PagesKeptApart == VmSpec => []PagesNotShared
<1>1. VmInv => PagesNotShared
  BY DEF VmInv
<1>2. QED
  BY VmInvariance, <1>1, PTL

\* As long as mm_protect is called for whole regions, the page table and the flags
\* of the regions agree (mm_protect, page_fault_handler).
THEOREM ProtectionKept == VmSpec => []ProtectionAgrees
<1>1. VmInv => ProtectionAgrees
  BY DEF VmInv
<1>2. QED
  BY VmInvariance, <1>1, PTL

\* As long as mm_protect is called for whole regions, a virtual page that is mapped
\* keeps its physical page: no fault replaces it by a fresh, empty one.
MappedPagesStay ==
    [][\A v \in VPages : "partial" \notin damage /\ pte[v].page # None
                            => pte'[v].page = pte[v].page]_vmvars

\* No later fault takes the page of a mapped virtual page away, because the entry
\* allows all that the region allows (page_fault_handler).
THEOREM MappedPagesKept == VmSpec => MappedPagesStay
<1>1. ASSUME VmInv, [VmNext]_vmvars, NEW v \in VPages,
             "partial" \notin damage, pte[v].page # None
      PROVE  pte'[v].page = pte[v].page
  <2>1. ASSUME NEW page \in Pages \cup {None}, AllocDirect(page) PROVE pte' = pte
    BY <2>1 DEF AllocDirect
  <2>2. ASSUME NEW page \in Pages, pra_free_page(page) PROVE pte' = pte
    BY <2>2 DEF pra_free_page
  <2>3. ASSUME NEW page \in Pages, pra_access_page(page) PROVE pte' = pte
    BY <2>3 DEF pra_access_page
  <2>4. ASSUME NEW w \in VPages, NEW access \in {"read", "write"}, page_fault_handler(w, access)
        PROVE  pte'[v] = pte[v]
    <3>1. pte[v].prot = flags[RegionOf(v)]
      BY <1>1 DEF VmInv, ProtectionAgrees
    <3>2. pte' = pte \/ w # v
      BY <1>1, <2>4, <3>1 DEF page_fault_handler
    <3>3. pte' = pte \/ \E page : pte' = [pte EXCEPT ![w] = [page |-> page, prot |-> flags[RegionOf(w)]]]
      BY <2>4 DEF page_fault_handler
    <3>4. QED
      BY <1>1, <3>2, <3>3 DEF VmInv, VmTypes
  <2>5. ASSUME NEW r \in Regions, NEW prot \in Prot,
               NEW range \in {r} \cup {{u} : u \in r}, mm_protect(r, range, prot)
        PROVE  pte'[v].page = pte[v].page
    BY <1>1, <2>5 DEF mm_protect, UpdateEntries, VmInv, VmTypes
  <2>6. CASE UNCHANGED vmvars
    BY <2>6 DEF vmvars
  <2>7. QED
    BY <1>1, <2>1, <2>2, <2>3, <2>4, <2>5, <2>6 DEF VmNext
<1>2. VmInv /\ [VmNext]_vmvars =>
        [\A v \in VPages : "partial" \notin damage /\ pte[v].page # None
                              => pte'[v].page = pte[v].page]_vmvars
  BY <1>1
<1>3. QED
  BY VmInvariance, <1>2, PTL DEF VmSpec, MappedPagesStay

-----------------------------------------------------------------------------
(* The real-time scheduler. *)

RtParams == [period : Nat, deadline : Nat, execution : Nat \ {0},
             execution_time : Nat, next_release : Nat]
Listed == ToSet(rt_tasks)

RtTypes ==
    /\ rt_tasks \in Seq(RtTasks) /\ time \in Nat
    /\ params \in [RtTasks -> RtParams \cup {NoTask}]
    /\ job \in [RtTasks -> [start : Nat, releases : Nat, ran : Nat]]
    /\ rtstate \in [RtTasks -> {"ready", "running", "blocked"}]
    /\ rtcurrent \in RtTasks \cup {NoTask}

\* The tasks of the list are those with parameters; the others were never released,
\* and the task that runs is in the list and not blocked.
ListInv ==
    /\ \A t \in RtTasks \ Listed : params[t] = NoTask /\ job[t].releases = 0 /\ job[t].ran = 0
    /\ \A t \in Listed : params[t] \in RtParams
    /\ rtcurrent # NoTask => rtcurrent \in Listed /\ rtstate[rtcurrent] # "blocked"

\* The release time is where the releases so far put it, until it would wrap.
ReleaseInv ==
    \A t \in Listed :
        LET p == params[t]
            done == job[t].releases * p.period
        IN  time + p.period < TickWrap =>
               /\ p.next_release = job[t].start + done + p.period
               /\ job[t].start + done <= time

\* A task that may run has budget left since its last release.
BudgetInv ==
    \A t \in Listed :
        /\ job[t].ran <= params[t].execution_time
        /\ job[t].ran <= params[t].execution
        /\ rtstate[t] # "blocked" => job[t].ran < params[t].execution

RtInv == RtTypes /\ ListInv /\ ReleaseInv /\ BudgetInv

\* A product with the next number.
LEMMA NextMultiple == \A a, b \in Nat : a * b \in Nat /\ (a + 1) * b = a * b + b
  OBVIOUS

\* Remainders by the range of the tick counter.
LEMMA Remainder ==
    ASSUME NEW n \in Nat
    PROVE  n % TickWrap \in Nat /\ (n < TickWrap => n % TickWrap = n)
  BY RtAssumption

\* What the list consists of, also after a task was put in front.
LEMMA ListFacts ==
    ASSUME NEW s \in Seq(RtTasks), NEW t \in RtTasks
    PROVE  /\ ToSet(s) \subseteq RtTasks
           /\ <<t>> \o s \in Seq(RtTasks)
           /\ ToSet(<<t>> \o s) = ToSet(s) \cup {t}
<1>1. ToSet(s) \subseteq RtTasks /\ <<t>> \o s \in Seq(RtTasks)
  BY DEF ToSet
<1> DEFINE l == <<t>> \o s
<1>2. /\ Len(l) = Len(s) + 1 /\ l[1] = t
      /\ \A i \in 1..Len(s) : l[i + 1] = s[i]
  OBVIOUS
<1>3. ToSet(l) \subseteq ToSet(s) \cup {t}
  <2> SUFFICES ASSUME NEW i \in 1..Len(l) PROVE l[i] \in ToSet(s) \cup {t}
    BY <1>1 DEF ToSet
  <2>1. CASE i = 1
    BY <1>2, <2>1
  <2>2. CASE i # 1
    <3>1. i - 1 \in 1..Len(s) /\ l[i] = s[i - 1]
      BY <1>2, <2>2
    <3>2. QED
      BY <3>1 DEF ToSet
  <2>3. QED
    BY <2>1, <2>2
<1>4. ToSet(s) \cup {t} \subseteq ToSet(l)
  <2>1. t \in ToSet(l)
    BY <1>1, <1>2 DEF ToSet
  <2>2. ASSUME NEW i \in 1..Len(s) PROVE s[i] \in ToSet(l)
    <3>1. i + 1 \in 1..Len(l) /\ l[i + 1] = s[i]
      BY <1>2
    <3>2. QED
      BY <1>1, <3>1 DEF ToSet
  <2>3. ToSet(s) = {s[i] : i \in 1..Len(s)}
    BY DEF ToSet
  <2> HIDE DEF l
  <2>4. QED
    BY <2>1, <2>2, <2>3
<1>5. QED
  BY <1>1, <1>3, <1>4

\* The search finds a task that is ready, or none.
LEMMA LeastReadyFinds ==
    ASSUME rt_tasks \in Seq(RtTasks), NEW key \in [Listed -> Nat], NEW st
    PROVE  LET next == LeastReady(key, st)
           IN  \/ next = NoTask
               \/ next \in Listed /\ st[next] = "ready"
<1> DEFINE can == {i \in DOMAIN rt_tasks : /\ st[rt_tasks[i]] = "ready"
                                           /\ key[rt_tasks[i]] < TickWrap - 1}
           Before(i, j) == \/ key[rt_tasks[i]] < key[rt_tasks[j]]
                           \/ key[rt_tasks[i]] = key[rt_tasks[j]] /\ i <= j
           first == CHOOSE i \in can : \A j \in can : Before(i, j)
<1>1. LeastReady(key, st) = IF can = {} THEN NoTask ELSE rt_tasks[first]
  BY DEF LeastReady
<1>2. ASSUME can # {} PROVE \E i \in can : \A j \in can : Before(i, j)
  <2>1. can \subseteq Nat /\ \A i \in can : key[rt_tasks[i]] \in Nat
    BY DEF Listed, ToSet
  <2>2. PICK k \in {key[rt_tasks[i]] : i \in can} : \A n \in {key[rt_tasks[i]] : i \in can} : k <= n
    <3>1. {key[rt_tasks[i]] : i \in can} \in SUBSET Nat /\ {key[rt_tasks[i]] : i \in can} # {}
      BY <1>2, <2>1
    <3>2. QED
      BY <3>1, Least
  <2>3. PICK i \in {j \in can : key[rt_tasks[j]] = k} : \A n \in {j \in can : key[rt_tasks[j]] = k} : i <= n
    <3>1. {j \in can : key[rt_tasks[j]] = k} \in SUBSET Nat /\ {j \in can : key[rt_tasks[j]] = k} # {}
      BY <2>1, <2>2
    <3>2. QED
      BY <3>1, Least
  <2>4. ASSUME NEW j \in can PROVE Before(i, j)
    <3>1. key[rt_tasks[i]] = k /\ k <= key[rt_tasks[j]] /\ k \in Nat /\ key[rt_tasks[j]] \in Nat
      BY <2>1, <2>2, <2>3
    <3>2. QED
      BY <2>3, <3>1
  <2>5. QED
    BY <2>3, <2>4
<1>3. ASSUME can # {} PROVE first \in can
  BY <1>2, <1>3
<1> HIDE DEF first
<1>4. \A i \in can : rt_tasks[i] \in Listed /\ st[rt_tasks[i]] = "ready"
  BY DEF Listed, ToSet
<1>5. QED
  BY <1>1, <1>3, <1>4

\* scheduler_yield takes a task of the list that is not blocked, and blocks and
\* releases nobody.
LEMMA YieldPicks ==
    ASSUME rt_tasks \in Seq(RtTasks), NEW p, \A t \in Listed : p[t] \in RtParams,
           NEW st \in [RtTasks -> {"ready", "running", "blocked"}], scheduler_yield(st, p)
    PROVE  /\ rtstate' \in [RtTasks -> {"ready", "running", "blocked"}]
           /\ rtcurrent' \in RtTasks \cup {NoTask}
           /\ \A t \in RtTasks : rtstate'[t] = "blocked" <=> st[t] = "blocked"
           /\ rtcurrent' # NoTask => rtcurrent' \in Listed /\ rtstate'[rtcurrent'] # "blocked"
<1> DEFINE waiting == [t \in RtTasks |-> IF st[t] = "running" THEN "ready" ELSE st[t]]
           next == IF discipline = "edf" THEN edf_schedule(waiting, p) ELSE rm_schedule(waiting, p)
<1>1. /\ rtcurrent' = next
      /\ rtstate' = [t \in RtTasks |-> IF t = next THEN "running" ELSE waiting[t]]
  BY DEF scheduler_yield
<1>2. /\ [t \in Listed |-> p[t].deadline] \in [Listed -> Nat]
      /\ [t \in Listed |-> p[t].period] \in [Listed -> Nat]
  BY DEF RtParams
<1>3. Listed \subseteq RtTasks
  BY DEF Listed, ToSet
<1>4. next = NoTask \/ (next \in Listed /\ waiting[next] = "ready")
  <2> HIDE DEF waiting
  <2>1. \A key \in [Listed -> Nat] :
          LeastReady(key, waiting) = NoTask
            \/ (LeastReady(key, waiting) \in Listed /\ waiting[LeastReady(key, waiting)] = "ready")
    BY LeastReadyFinds
  <2>2. \/ next = LeastReady([t \in Listed |-> p[t].deadline], waiting)
        \/ next = LeastReady([t \in Listed |-> p[t].period], waiting)
    BY DEF edf_schedule, rm_schedule, Listed
  <2>3. QED
    BY <1>2, <2>1, <2>2
<1> HIDE DEF next
<1>5. QED
  BY <1>1, <1>3, <1>4, RtAssumption

\* Initially the list is empty.
LEMMA RtInitially == RtInit => RtInv
<1> SUFFICES ASSUME RtInit PROVE RtInv
  OBVIOUS
<1>1. Listed = {}
  BY DEF RtInit, Listed, ToSet
<1>2. RtTypes
  BY DEF RtInit, RtTypes
<1>3. ListInv
  BY <1>1 DEF RtInit, ListInv
<1>4. QED
  BY <1>1, <1>2, <1>3 DEF RtInv, ReleaseInv, BudgetInv

\* A task enters the list with its first release one period ahead.
LEMMA SetParamsKeeps ==
    ASSUME RtInv, NEW t \in RtTasks, NEW period \in Periods, NEW execution \in Executions,
           scheduler_set_realtime_params(t, period, (time + period) % TickWrap, execution)
    PROVE  RtInv'
<1> DEFINE new == [period |-> period, deadline |-> (time + period) % TickWrap,
                   execution |-> execution, execution_time |-> 0,
                   next_release |-> ((time % TickWrap) + period) % TickWrap]
<1>1. /\ params[t] = NoTask
      /\ params' = [params EXCEPT ![t] = new]
      /\ rt_tasks' = <<t>> \o rt_tasks
      /\ job' = [job EXCEPT ![t].start = time]
      /\ UNCHANGED <<rtstate, rtcurrent, discipline, time>>
  BY DEF scheduler_set_realtime_params, timer_get_ticks
<1>2. /\ period \in Nat /\ execution \in Nat \ {0} /\ time \in Nat
      /\ rt_tasks \in Seq(RtTasks)
  BY RtAssumption DEF RtInv, RtTypes
<1>3. /\ Listed' = Listed \cup {t} /\ Listed \subseteq RtTasks
      /\ rt_tasks' \in Seq(RtTasks)
  BY <1>1, <1>2, ListFacts DEF Listed
<1>4. t \notin Listed /\ job[t].releases = 0 /\ job[t].ran = 0
  BY <1>1, RtAssumption DEF RtInv, ListInv, RtParams
<1>5. /\ (time + period) % TickWrap \in Nat
      /\ ((time % TickWrap) + period) % TickWrap \in Nat
      /\ time + period < TickWrap => ((time % TickWrap) + period) % TickWrap = time + period
  <2>1. time % TickWrap \in Nat /\ (time < TickWrap => time % TickWrap = time)
    BY <1>2, Remainder
  <2>2. \A n \in Nat : n % TickWrap \in Nat /\ (n < TickWrap => n % TickWrap = n)
    BY Remainder
  <2>3. time + period \in Nat /\ (time % TickWrap) + period \in Nat
    BY <1>2, <2>1
  <2>4. time + period < TickWrap => time < TickWrap
    BY <1>2, RtAssumption
  <2>5. QED
    BY <2>1, <2>2, <2>3, <2>4
<1>6. new \in RtParams
  BY <1>2, <1>5 DEF RtParams
<1>7. /\ params' \in [RtTasks -> RtParams \cup {NoTask}]
      /\ params'[t] = new /\ \A u \in RtTasks \ {t} : params'[u] = params[u]
  BY <1>1, <1>6 DEF RtInv, RtTypes
<1>8. /\ job' \in [RtTasks -> [start : Nat, releases : Nat, ran : Nat]]
      /\ job'[t].start = time /\ job'[t].releases = 0 /\ job'[t].ran = 0
      /\ \A u \in RtTasks \ {t} : job'[u] = job[u]
  BY <1>1, <1>2, <1>4 DEF RtInv, RtTypes
<1>9. RtTypes'
  BY <1>1, <1>3, <1>7, <1>8 DEF RtInv, RtTypes
<1>10. ListInv'
  BY <1>1, <1>3, <1>6, <1>7, <1>8 DEF RtInv, ListInv
<1>11. new.period = period /\ new.execution = execution /\ new.execution_time = 0
       /\ new.next_release = ((time % TickWrap) + period) % TickWrap
  OBVIOUS
<1> HIDE DEF new
<1>12. ReleaseInv'
  <2>1. ASSUME NEW u \in Listed, u # t
        PROVE  params'[u] = params[u] /\ job'[u] = job[u]
    BY <1>3, <1>7, <1>8, <2>1
  <2>2. 0 * period = 0
    BY <1>2
  <2>3. QED
    BY <1>1, <1>2, <1>3, <1>5, <1>7, <1>8, <1>11, <2>1, <2>2 DEF RtInv, ReleaseInv
<1>13. BudgetInv'
  BY <1>1, <1>2, <1>3, <1>7, <1>8, <1>11 DEF RtInv, BudgetInv
<1>14. QED
  BY <1>9, <1>10, <1>12, <1>13 DEF RtInv

\* Giving up the processor changes neither releases nor budgets.
LEMMA YieldKeeps ==
    ASSUME RtInv, task_yield
    PROVE  RtInv'
<1>1. scheduler_yield(rtstate, params) /\ UNCHANGED <<rt_tasks, params, discipline, time, job>>
  BY DEF task_yield
<1>2. /\ rtstate' \in [RtTasks -> {"ready", "running", "blocked"}]
      /\ rtcurrent' \in RtTasks \cup {NoTask}
      /\ \A t \in RtTasks : rtstate'[t] = "blocked" <=> rtstate[t] = "blocked"
      /\ rtcurrent' # NoTask => rtcurrent' \in Listed /\ rtstate'[rtcurrent'] # "blocked"
  BY <1>1, YieldPicks DEF RtInv, RtTypes, ListInv
<1>3. Listed' = Listed /\ Listed \subseteq RtTasks
  BY <1>1 DEF Listed, ToSet, RtInv, RtTypes
<1>4. QED
  BY <1>1, <1>2, <1>3 DEF RtInv, RtTypes, ListInv, ReleaseInv, BudgetInv

\* A tick changes two fields of a job.
LEMMA JobUpdate ==
    ASSUME NEW j \in [start : Nat, releases : Nat, ran : Nat], NEW a \in Nat, NEW b \in Nat
    PROVE  LET new == [j EXCEPT !.releases = a, !.ran = b]
           IN  /\ new \in [start : Nat, releases : Nat, ran : Nat]
               /\ new.start = j.start /\ new.releases = a /\ new.ran = b
  OBVIOUS

\* The tick releases the tasks that are due, charges the one that runs, and blocks
\* it when its time is used up.
LEMMA TickKeeps ==
    ASSUME RtInv, NEW delay \in 1..MaxDelay, scheduler_rt_tick(delay)
    PROVE  RtInv'
<1> DEFINE now == (time + delay) % TickWrap
           p == UpdatedParams(now)
           states == UpdatedStates(now)
           charged == [p EXCEPT ![rtcurrent].execution_time = @ + 1]
           over == charged[rtcurrent].execution_time >= p[rtcurrent].execution
           Rel(t) == IF t \in Released(now) THEN 1 ELSE 0
           Cur(t) == IF t = rtcurrent THEN 1 ELSE 0
<1>1. /\ time' = time + delay
      /\ job' = [t \in RtTasks |->
                   [job[t] EXCEPT !.releases = @ + Rel(t),
                                  !.ran = (IF t \in Released(now) THEN 0 ELSE @) + Cur(t)]]
      /\ rtcurrent = NoTask => params' = p /\ rtstate' = states /\ UNCHANGED rtcurrent
      /\ rtcurrent # NoTask /\ over =>
            params' = charged /\ scheduler_yield([states EXCEPT ![rtcurrent] = "blocked"], charged)
      /\ rtcurrent # NoTask /\ ~over => params' = charged /\ rtstate' = states /\ UNCHANGED rtcurrent
      /\ UNCHANGED <<rt_tasks, discipline>>
  BY DEF scheduler_rt_tick
<1>2. /\ time \in Nat /\ delay \in Nat \ {0} /\ now \in Nat
      /\ time + delay < TickWrap => now = time + delay
  <2>1. time \in Nat /\ delay \in Nat \ {0} /\ time + delay \in Nat
    BY RtAssumption DEF RtInv, RtTypes
  <2>2. QED
    BY <2>1, Remainder
<1>3. Listed' = Listed /\ Listed \subseteq RtTasks /\ Released(now) \subseteq Listed
  <2>1. rt_tasks' = rt_tasks
    BY <1>1
  <2>2. Released(now) \subseteq Listed
    BY DEF Released, Listed
  <2>3. QED
    BY <2>1, <2>2 DEF Listed, ToSet, RtInv, RtTypes
<1> HIDE DEF now
<1>4. /\ \A t \in RtTasks \ Listed : p[t] = NoTask
      /\ \A t \in Listed :
           /\ p[t] \in RtParams
           /\ p[t].period = params[t].period /\ p[t].execution = params[t].execution
           /\ p[t].execution_time = params[t].execution_time
           /\ p[t].next_release = IF t \in Released(now)
                                  THEN (params[t].next_release + params[t].period) % TickWrap
                                  ELSE params[t].next_release
      /\ p \in [RtTasks -> RtParams \cup {NoTask}]
  <2>1. p = [t \in RtTasks |-> IF t \in Released(now) THEN Release(params[t], now) ELSE params[t]]
    BY DEF UpdatedParams
  <2>2. ASSUME NEW q \in RtParams
        PROVE  /\ Release(q, now) \in RtParams
               /\ Release(q, now).period = q.period /\ Release(q, now).execution = q.execution
               /\ Release(q, now).execution_time = q.execution_time
               /\ Release(q, now).next_release = (q.next_release + q.period) % TickWrap
    <3>1. /\ (q.next_release + q.period) % TickWrap \in Nat
          /\ (now + q.period) % TickWrap \in Nat
      BY <1>2, Remainder DEF RtParams
    <3>2. QED
      BY <3>1 DEF Release, RtParams
  <2> HIDE DEF p
  <2>3. \A t \in Listed : params[t] \in RtParams
    BY DEF RtInv, ListInv
  <2>4. \A t \in RtTasks \ Listed : params[t] = NoTask
    BY DEF RtInv, ListInv
  <2>5. QED
    BY <1>3, <2>1, <2>2, <2>3, <2>4
<1> HIDE DEF p
<1>5. /\ states \in [RtTasks -> {"ready", "running", "blocked"}]
      /\ \A t \in RtTasks : states[t] = "blocked" <=> rtstate[t] = "blocked" /\ t \notin Released(now)
  BY DEF UpdatedStates, RtInv, RtTypes
<1> HIDE DEF states
<1>6. rtcurrent # NoTask =>
        /\ rtcurrent \in Listed /\ states[rtcurrent] # "blocked"
        /\ charged \in [RtTasks -> RtParams \cup {NoTask}]
        /\ \A t \in RtTasks \ {rtcurrent} : charged[t] = p[t]
        /\ charged[rtcurrent] \in RtParams
        /\ charged[rtcurrent].period = p[rtcurrent].period
        /\ charged[rtcurrent].execution = p[rtcurrent].execution
        /\ charged[rtcurrent].execution_time = p[rtcurrent].execution_time + 1
        /\ charged[rtcurrent].next_release = p[rtcurrent].next_release
  <2> SUFFICES ASSUME rtcurrent # NoTask PROVE <1>6!2
    OBVIOUS
  <2>1. rtcurrent \in Listed /\ rtcurrent \in RtTasks /\ rtstate[rtcurrent] # "blocked"
    BY <1>3 DEF RtInv, ListInv
  <2>2. p[rtcurrent] \in RtParams
    BY <1>4, <2>1
  <2>3. charged[rtcurrent] = [p[rtcurrent] EXCEPT !.execution_time = @ + 1]
    BY <1>4, <2>1
  <2>4. QED
    BY <1>4, <1>5, <2>1, <2>2, <2>3 DEF RtParams
<1>7. /\ params' \in [RtTasks -> RtParams \cup {NoTask}]
      /\ \A t \in RtTasks \ Listed : params'[t] = NoTask
      /\ \A t \in Listed :
           /\ params'[t] \in RtParams
           /\ params'[t].period = params[t].period /\ params'[t].execution = params[t].execution
           /\ params'[t].execution_time = params[t].execution_time + Cur(t)
           /\ params'[t].next_release = IF t \in Released(now)
                                        THEN (params[t].next_release + params[t].period) % TickWrap
                                        ELSE params[t].next_release
  <2>1. CASE rtcurrent = NoTask
    <3>1. \A t \in Listed : t # rtcurrent /\ params[t] \in RtParams
      BY <1>3, <2>1, RtAssumption DEF RtInv, ListInv
    <3>2. params' = p
      BY <1>1, <2>1
    <3>3. \A t \in Listed : params[t].execution_time + Cur(t) = params[t].execution_time
      BY <3>1 DEF RtParams
    <3> HIDE DEF Cur
    <3>4. QED
      BY <1>3, <1>4, <3>2, <3>3
  <2>2. CASE rtcurrent # NoTask
    <3>1. params' = charged
      BY <1>1, <2>2
    <3> HIDE DEF charged
    <3>2. \A t \in Listed : params[t] \in RtParams
      BY DEF RtInv, ListInv
    <3>3. QED
      BY <1>3, <1>4, <1>6, <2>2, <3>1, <3>2 DEF RtParams
  <2>3. QED
    BY <2>1, <2>2
<1>8. /\ rtstate' \in [RtTasks -> {"ready", "running", "blocked"}]
      /\ rtcurrent' \in RtTasks \cup {NoTask}
      /\ \A t \in Listed : rtstate'[t] # "blocked" =>
           /\ rtstate[t] # "blocked" \/ t \in Released(now)
           /\ t = rtcurrent => params'[t].execution_time < params'[t].execution
      /\ rtcurrent' # NoTask => rtcurrent' \in Listed /\ rtstate'[rtcurrent'] # "blocked"
  <2>1. CASE rtcurrent = NoTask
    BY <1>1, <1>3, <1>5, <2>1, RtAssumption DEF RtInv, RtTypes
  <2>2. CASE rtcurrent # NoTask /\ ~over
    <3>1. params' = charged /\ rtstate' = states /\ rtcurrent' = rtcurrent
      BY <1>1, <2>2
    <3>2. params'[rtcurrent].execution_time < params'[rtcurrent].execution
      BY <1>4, <1>6, <2>2, <3>1 DEF RtParams
    <3>3. QED
      BY <1>3, <1>5, <1>6, <2>2, <3>1, <3>2 DEF RtInv, RtTypes
  <2>3. CASE rtcurrent # NoTask /\ over
    <3> DEFINE blocked == [states EXCEPT ![rtcurrent] = "blocked"]
    <3>1. scheduler_yield(blocked, charged)
      BY <1>1, <2>3
    <3>2. /\ rtcurrent \in RtTasks
          /\ blocked \in [RtTasks -> {"ready", "running", "blocked"}]
          /\ blocked[rtcurrent] = "blocked"
          /\ \A t \in RtTasks \ {rtcurrent} : blocked[t] = states[t]
      BY <1>3, <1>5, <1>6, <2>3
    <3>3. \A t \in Listed : charged[t] \in RtParams
      BY <1>3, <1>4, <1>6, <2>3
    <3> HIDE DEF blocked, charged
    <3>4. /\ rtstate' \in [RtTasks -> {"ready", "running", "blocked"}]
          /\ rtcurrent' \in RtTasks \cup {NoTask}
          /\ \A t \in RtTasks : rtstate'[t] = "blocked" <=> blocked[t] = "blocked"
          /\ rtcurrent' # NoTask => rtcurrent' \in Listed /\ rtstate'[rtcurrent'] # "blocked"
      BY <3>1, <3>2, <3>3, YieldPicks DEF RtInv, RtTypes
    <3>5. QED
      BY <1>3, <1>5, <3>2, <3>4
  <2>4. QED
    BY <2>1, <2>2, <2>3
<1> HIDE DEF charged, over
<1>9. /\ job' \in [RtTasks -> [start : Nat, releases : Nat, ran : Nat]]
      /\ \A t \in RtTasks :
           /\ job'[t].start = job[t].start
           /\ job'[t].releases = job[t].releases + Rel(t)
           /\ job'[t].ran = (IF t \in Released(now) THEN 0 ELSE job[t].ran) + Cur(t)
  <2>1. \A t \in RtTasks : Rel(t) \in Nat /\ Cur(t) \in Nat
    OBVIOUS
  <2> HIDE DEF Rel, Cur
  <2>2. /\ job \in [RtTasks -> [start : Nat, releases : Nat, ran : Nat]]
        /\ job' = [t \in RtTasks |->
                     [job[t] EXCEPT !.releases = @ + Rel(t),
                                    !.ran = (IF t \in Released(now) THEN 0 ELSE @) + Cur(t)]]
    BY <1>1 DEF RtInv, RtTypes
  <2>3. ASSUME NEW t \in RtTasks
        PROVE  /\ job'[t] \in [start : Nat, releases : Nat, ran : Nat]
               /\ job'[t].start = job[t].start
               /\ job'[t].releases = job[t].releases + Rel(t)
               /\ job'[t].ran = (IF t \in Released(now) THEN 0 ELSE job[t].ran) + Cur(t)
    <3>1. job[t] \in [start : Nat, releases : Nat, ran : Nat]
      BY <2>2
    <3>2. job'[t] = [job[t] EXCEPT !.releases = @ + Rel(t),
                                   !.ran = (IF t \in Released(now) THEN 0 ELSE @) + Cur(t)]
      BY <2>2
    <3>3. Rel(t) \in Nat /\ Cur(t) \in Nat
      BY <2>1
    <3> DEFINE left == IF t \in Released(now) THEN 0 ELSE job[t].ran
    <3>4. left \in Nat
      BY <3>1
    <3>5. job'[t] = [job[t] EXCEPT !.releases = job[t].releases + Rel(t), !.ran = left + Cur(t)]
      BY <3>2
    <3> HIDE DEF left
    <3>6. /\ job'[t] \in [start : Nat, releases : Nat, ran : Nat]
          /\ job'[t].start = job[t].start
          /\ job'[t].releases = job[t].releases + Rel(t)
          /\ job'[t].ran = left + Cur(t)
      <4>1. job[t].releases + Rel(t) \in Nat /\ left + Cur(t) \in Nat
        BY <3>1, <3>3, <3>4
      <4>2. QED
        BY <3>1, <3>5, <4>1, JobUpdate
    <3>7. QED
      BY <3>6 DEF left
  <2>4. job' \in [RtTasks -> [start : Nat, releases : Nat, ran : Nat]]
    BY <2>2, <2>3
  <2>5. QED
    BY <2>3, <2>4
<1>10. RtTypes'
  <2>1. rt_tasks' = rt_tasks /\ time' = time + delay
    BY <1>1
  <2>2. QED
    BY <1>2, <1>7, <1>8, <1>9, <2>1 DEF RtInv, RtTypes
<1>11. ListInv'
  <2>1. \A t \in RtTasks \ Listed : t \notin Released(now) /\ t # rtcurrent
    BY <1>3, RtAssumption DEF RtInv, ListInv
  <2>2. QED
    BY <1>3, <1>7, <1>8, <1>9, <2>1 DEF RtInv, ListInv
<1>12. ReleaseInv'
  <2> SUFFICES ASSUME NEW t \in Listed, time' + params'[t].period < TickWrap
               PROVE  /\ params'[t].next_release =
                           job'[t].start + job'[t].releases * params'[t].period + params'[t].period
                      /\ job'[t].start + job'[t].releases * params'[t].period <= time'
    BY <1>3 DEF ReleaseInv
  <2> DEFINE d == params[t].period
             r == job[t].releases
             s == job[t].start
             n == params[t].next_release
  <2>1. /\ t \in RtTasks /\ d \in Nat /\ n \in Nat /\ r \in Nat /\ s \in Nat
        /\ params'[t].period = d /\ job'[t].start = s
    BY <1>3, <1>7, <1>9 DEF RtInv, RtTypes, ListInv, RtParams
  <2>2. r * d \in Nat /\ (r + 1) * d = r * d + d
    BY <2>1, NextMultiple
  <2>3. time' = time + delay /\ time + delay + d < TickWrap /\ now = time + delay
    <3>1. time' = time + delay
      BY <1>1
    <3>2. QED
      BY <1>2, <2>1, <3>1, RtAssumption
  <2>4. n = s + r * d + d /\ s + r * d <= time
    BY <1>2, <2>1, <2>3, RtAssumption DEF RtInv, ReleaseInv
  <2>5. CASE t \in Released(now)
    <3>1. time + delay >= n
      BY <2>3, <2>5 DEF Released, Due
    <3>2. params'[t].next_release = (n + d) % TickWrap /\ job'[t].releases = r + 1
      BY <1>7, <1>9, <2>1, <2>5
    <3>3. n + d \in Nat /\ n + d < TickWrap
      BY <1>2, <2>1, <2>3, <3>1, RtAssumption
    <3>4. (n + d) % TickWrap = n + d
      BY <3>3, Remainder
    <3> HIDE DEF d, r, s, n
    <3>5. QED
      BY <1>2, <2>1, <2>2, <2>3, <2>4, <3>1, <3>2, <3>4
  <2>6. CASE t \notin Released(now)
    <3>1. params'[t].next_release = n /\ job'[t].releases = r
      BY <1>7, <1>9, <2>1, <2>6
    <3> HIDE DEF d, r, s, n
    <3>2. QED
      BY <1>2, <2>1, <2>2, <2>3, <2>4, <3>1
  <2>7. QED
    BY <2>5, <2>6
<1>13. BudgetInv'
  <2> SUFFICES ASSUME NEW t \in Listed
               PROVE  /\ job'[t].ran <= params'[t].execution_time
                      /\ job'[t].ran <= params'[t].execution
                      /\ rtstate'[t] # "blocked" => job'[t].ran < params'[t].execution
    BY <1>3 DEF BudgetInv
  <2> DEFINE x == params[t].execution
             e == params[t].execution_time
             ran == job[t].ran
  <2>1. /\ t \in RtTasks /\ x \in Nat \ {0} /\ e \in Nat /\ ran \in Nat
        /\ params'[t].execution = x /\ params'[t].execution_time = e + Cur(t)
        /\ job'[t].ran = (IF t \in Released(now) THEN 0 ELSE ran) + Cur(t)
    BY <1>3, <1>7, <1>9 DEF RtInv, RtTypes, ListInv, RtParams
  <2>2. ran <= e /\ ran <= x /\ (rtstate[t] # "blocked" => ran < x)
    BY DEF RtInv, BudgetInv
  <2>3. t = rtcurrent => rtstate[t] # "blocked"
    BY <1>3, RtAssumption DEF RtInv, ListInv
  <2>4. rtstate'[t] # "blocked" => /\ rtstate[t] # "blocked" \/ t \in Released(now)
                                   /\ t = rtcurrent => e + 1 < x
    BY <1>8, <2>1
  <2> DEFINE left == IF t \in Released(now) THEN 0 ELSE ran
  <2>5. left \in Nat /\ left <= ran /\ (t \in Released(now) => left = 0)
    BY <2>1
  <2>6. t = rtcurrent => left + 1 <= x
    BY <2>1, <2>2, <2>3, <2>5
  <2>7. CASE t = rtcurrent
    <3>1. job'[t].ran = left + 1 /\ params'[t].execution_time = e + 1
      BY <2>1, <2>7
    <3> HIDE DEF x, e, ran, left
    <3>2. left + 1 <= e + 1 /\ left + 1 <= x
      BY <2>1, <2>2, <2>5, <2>6, <2>7
    <3>3. rtstate'[t] # "blocked" => left + 1 < x
      BY <2>1, <2>2, <2>4, <2>5, <2>7
    <3>4. QED
      BY <2>1, <3>1, <3>2, <3>3
  <2>8. CASE t # rtcurrent
    <3>1. job'[t].ran = left /\ params'[t].execution_time = e
      BY <2>1, <2>8
    <3> HIDE DEF x, e, ran, left
    <3>2. left <= e /\ left <= x
      BY <2>1, <2>2, <2>5
    <3>3. rtstate'[t] # "blocked" => left < x
      BY <2>1, <2>2, <2>4, <2>5
    <3>4. QED
      BY <2>1, <3>1, <3>2, <3>3
  <2>9. QED
    BY <2>7, <2>8
<1>14. QED
  BY <1>10, <1>11, <1>12, <1>13 DEF RtInv

\* RtInv holds in every state of the real-time scheduler.
THEOREM RtInvariance == RtSpec => []RtInv
<1>1. RtInv /\ [RtNext]_rtvars => RtInv'
  <2> SUFFICES ASSUME RtInv, [RtNext]_rtvars PROVE RtInv'
    OBVIOUS
  <2>1. CASE RtNext
    BY <2>1, SetParamsKeeps, TickKeeps, YieldKeeps DEF RtNext
  <2>2. CASE UNCHANGED rtvars
    BY <2>2 DEF rtvars, RtInv, RtTypes, ListInv, Listed, ReleaseInv, BudgetInv
  <2>3. QED
    BY <2>1, <2>2
<1>2. QED
  BY RtInitially, <1>1, PTL DEF RtSpec

\* However late the ticks come, a task is released at most once a period, and it is
\* charged at most its execution time from one release to the next, until its
\* release time reaches the end of the tick counter (scheduler_update_deadlines,
\* scheduler_rt_tick).
THEOREM ReleasesPaced == RtSpec => []RtPaced
<1>1. RtInv => RtPaced
  <2> SUFFICES ASSUME RtInv, NEW t \in Listed, time + params[t].period < TickWrap
               PROVE  /\ job[t].releases * params[t].period <= time - job[t].start
                      /\ job[t].ran <= params[t].execution
    BY DEF RtPaced, Listed
  <2>1. /\ job[t].start + job[t].releases * params[t].period <= time
        /\ job[t].ran <= params[t].execution
    BY DEF RtInv, ReleaseInv, BudgetInv
  <2>2. Listed \subseteq RtTasks
    BY DEF Listed, ToSet, RtInv, RtTypes
  <2>3. /\ job[t].start \in Nat /\ time \in Nat
        /\ job[t].releases * params[t].period \in Nat
    BY <2>2, NextMultiple DEF RtInv, RtTypes, ListInv, RtParams
  <2>4. QED
    BY <2>1, <2>3
<1>2. QED
  BY RtInvariance, <1>1, PTL

\* Between two releases a task never runs longer than its execution time, also when
\* the tick counter wraps; the task that runs has parameters and is not blocked.
BudgetKept ==
    /\ \A t \in ToSet(rt_tasks) : job[t].ran <= params[t].execution
    /\ rtcurrent # NoTask => rtcurrent \in ToSet(rt_tasks) /\ rtstate[rtcurrent] # "blocked"

\* The charge of scheduler_rt_tick stops a task in time, without the bound on the
\* tick counter under which the releases are paced.
THEOREM BudgetsKept == RtSpec => []BudgetKept
<1>1. RtInv => BudgetKept
  BY DEF RtInv, BudgetInv, ListInv, BudgetKept, Listed
<1>2. QED
  BY RtInvariance, <1>1, PTL

-----------------------------------------------------------------------------
(* The tables of the IPC objects. *)

Segments == [key : IpcKeys, size : SegmentSizes, ref_count : 0..(RefWrap - 1)]
AreaRecords == [addr : 0..(VirtualPages - 1), key : IpcKeys]

IpcTypes ==
    /\ msg_queues \in Seq(IpcKeys) /\ pipes \in Seq(Nat \X Nat) /\ shm_segments \in Seq(Segments)
    /\ making.key \in IpcKeys \cup {NoKey} /\ (making.key # NoKey => making.size \in SegmentSizes)
    /\ found \in [IpcTasks -> IpcKeys \cup {NoKey}] /\ areas \in [IpcTasks -> Seq(AreaRecords)]
    /\ heapBlocks \in Int
    /\ openFds \subseteq 0..(Descriptors - 1)

\* total[i] counts the pages of the i segments created first.
IsTotal(total, segments) ==
    total = [i \in 0..Len(segments) |->
               IF i = 0 THEN 0 ELSE total[i - 1] + Given(segments[Len(segments) + 1 - i].size)]

MemoryInv ==
    /\ heapBlocks = 2 * Len(msg_queues) + 2 * Len(pipes) + Len(shm_segments)
                    + (IF making.key = NoKey THEN 0 ELSE 1)
    /\ \E total : IsTotal(total, shm_segments) /\ physPages = total[Len(shm_segments)]

\* A key that is being made is not listed yet; keys in use are listed.
KeysInv ==
    /\ KeysOnce
    /\ making.key # NoKey => ~find_shm_segment(making.key)
    /\ \A t \in IpcTasks : found[t] # NoKey => find_shm_segment(found[t])
    /\ \A a \in Areas : find_shm_segment(a.key)

FdsInv == FdsAccounted /\ OwnedFds \subseteq openFds

IpcInv == IpcTypes /\ MemoryInv /\ KeysInv /\ FdsInv /\ (~astray => AreasAgree)

-----------------------------------------------------------------------------
(* The lists of the objects. *)

\* What putting an object at the front of a list does.
LEMMA Prepended ==
    ASSUME NEW S, NEW x \in S, NEW s \in Seq(S)
    PROVE  /\ <<x>> \o s \in Seq(S)
           /\ Len(<<x>> \o s) = Len(s) + 1
           /\ DOMAIN (<<x>> \o s) = 1..(Len(s) + 1)
           /\ (<<x>> \o s)[1] = x
           /\ \A i \in 1..Len(s) : (<<x>> \o s)[i + 1] = s[i]
           /\ \A i \in 1..(Len(s) + 1) : i = 1 \/ (i - 1 \in 1..Len(s) /\ (<<x>> \o s)[i] = s[i - 1])
           /\ ToSet(<<x>> \o s) = ToSet(s) \cup {x}
<1>1. /\ <<x>> \o s \in Seq(S)
      /\ Len(<<x>> \o s) = Len(s) + 1 /\ Len(s) \in Nat
      /\ DOMAIN (<<x>> \o s) = 1..(Len(s) + 1) /\ DOMAIN s = 1..Len(s)
      /\ (<<x>> \o s)[1] = x
      /\ \A i \in 1..Len(s) : (<<x>> \o s)[i + 1] = s[i]
  OBVIOUS
<1>2. \A i \in 1..(Len(s) + 1) : i = 1 \/ (i - 1 \in 1..Len(s) /\ (<<x>> \o s)[i] = s[i - 1])
  OBVIOUS
<1>3. ToSet(<<x>> \o s) = ToSet(s) \cup {x}
  <2>1. ASSUME NEW y \in ToSet(<<x>> \o s) PROVE y \in ToSet(s) \cup {x}
    BY <1>1, <1>2 DEF ToSet
  <2>2. ASSUME NEW y \in ToSet(s) \cup {x} PROVE y \in ToSet(<<x>> \o s)
    <3>1. CASE y = x
      <4>1. 1 \in DOMAIN (<<x>> \o s)
        BY <1>1
      <4>2. QED
        BY <1>1, <3>1, <4>1 DEF ToSet
    <3>2. CASE y \in ToSet(s)
      <4>1. PICK i \in 1..Len(s) : y = s[i]
        BY <1>1, <3>2 DEF ToSet
      <4>2. i + 1 \in 1..(Len(s) + 1)
        BY <1>1
      <4>3. QED
        BY <1>1, <4>1, <4>2 DEF ToSet
    <3>3. QED
      BY <2>2, <3>1, <3>2
  <2>3. QED
    BY <2>1, <2>2
<1>4. QED
  BY <1>1, <1>2, <1>3

\* What taking the first object off a list does.
LEMMA FirstOff ==
    ASSUME NEW S, NEW s \in Seq(S), s # <<>>
    PROVE  /\ Tail(s) \in Seq(S) /\ Len(s) \in Nat \ {0} /\ DOMAIN Tail(s) = 1..(Len(s) - 1)
           /\ Head(s) = s[1] /\ s[1] \in S /\ DOMAIN s = 1..Len(s) /\ 1 \in DOMAIN s
           /\ \A i \in 1..(Len(s) - 1) : i + 1 \in 1..Len(s) /\ Tail(s)[i] = s[i + 1]
           /\ \A i \in 1..Len(s) : i = 1 \/ (i - 1 \in 1..(Len(s) - 1) /\ Tail(s)[i - 1] = s[i])
OBVIOUS

\* More pages are allocated for a segment than are mapped, and at least one.
LEMMA PageCounts ==
    ASSUME NEW size \in Nat
    PROVE  Given(size) \in Nat \ {0} /\ Used(size) \in Nat /\ Used(size) <= Given(size)
<1>1. SHM_PAGE \in Nat \ {0}
  BY IpcAssumption
<1>2. size \div SHM_PAGE \in Nat /\ (size + SHM_PAGE - 1) \div SHM_PAGE \in Nat
  BY <1>1
<1>3. (size + SHM_PAGE - 1) \div SHM_PAGE <= size \div SHM_PAGE + 1
  BY <1>1, <1>2
<1>4. QED
  BY <1>2, <1>3 DEF Given, Used

-----------------------------------------------------------------------------
(* The sum of the pages. *)

\* A total of the segments is the one SegmentPages computes.
LEMMA TotalIsUnique ==
    ASSUME shm_segments \in Seq(Segments), NEW total, IsTotal(total, shm_segments)
    PROVE  SegmentPages = total[Len(shm_segments)]
<1>. DEFINE n == Len(shm_segments)
            other == CHOOSE f : f = [i \in 0..n |->
                       IF i = 0 THEN 0 ELSE f[i - 1] + Given(shm_segments[n + 1 - i].size)]
            H == {i \in 0..n : other[i] # total[i]}
<1>1. n \in Nat
  OBVIOUS
<1>2. /\ other = [i \in 0..n |->
              IF i = 0 THEN 0 ELSE other[i - 1] + Given(shm_segments[n + 1 - i].size)]
      /\ total = [i \in 0..n |->
              IF i = 0 THEN 0 ELSE total[i - 1] + Given(shm_segments[n + 1 - i].size)]
  BY DEF IsTotal
<1>3. SegmentPages = other[n]
  BY DEF SegmentPages
<1>. HIDE DEF other
<1>4. \A i \in 0..n : i # 0 => i - 1 \in 0..n
  BY <1>1
<1>5. ASSUME H # {} PROVE FALSE
  <2>1. H \in SUBSET Nat
    BY <1>1
  <2>2. PICK k \in H : \A j \in H : k <= j
    BY <1>5, <2>1, Least
  <2>3. k \in 0..n /\ other[k] # total[k]
    OBVIOUS
  <2>4. k # 0
    <3>1. other[0] = 0 /\ total[0] = 0
      <4>1. 0 \in 0..n
        BY <1>1
      <4>2. QED
        BY <1>2, <4>1
    <3>2. QED
      BY <2>3, <3>1
  <2>5. k - 1 \in 0..n /\ ~(k <= k - 1)
    BY <1>4, <2>3, <2>4
  <2>6. other[k - 1] = total[k - 1]
    BY <2>2, <2>5
  <2>7. /\ other[k] = other[k - 1] + Given(shm_segments[n + 1 - k].size)
        /\ total[k] = total[k - 1] + Given(shm_segments[n + 1 - k].size)
    BY <1>2, <2>3, <2>4
  <2>8. QED
    BY <2>3, <2>6, <2>7
<1>6. n \in 0..n
  BY <1>1
<1>7. QED
  BY <1>3, <1>5, <1>6

\* The numbers of a segment.
LEMMA SegmentNumbers == \A x \in Segments : x.size \in Nat /\ x.ref_count \in Int
<1>. SUFFICES ASSUME NEW x \in Segments PROVE x.size \in Nat /\ x.ref_count \in Int
  OBVIOUS
<1>1. x.size \in SegmentSizes /\ x.ref_count \in 0..(RefWrap - 1)
  BY DEF Segments
<1>2. x.size \in Nat
  BY <1>1, IpcAssumption
<1>3. x.ref_count \in Int
  BY <1>1, IpcAssumption
<1>4. QED
  BY <1>2, <1>3

\* A new segment adds its pages to the total.
LEMMA TotalGrows ==
    ASSUME NEW segments \in Seq(Segments), NEW x \in Segments,
           NEW total, IsTotal(total, segments)
    PROVE  \E more : /\ IsTotal(more, <<x>> \o segments)
                     /\ more[Len(segments) + 1] = total[Len(segments)] + Given(x.size)
<1>. DEFINE n == Len(segments)
            more == [i \in 0..(n + 1) |-> IF i = n + 1 THEN total[n] + Given(x.size) ELSE total[i]]
            longer == <<x>> \o segments
<1>1. /\ n \in Nat /\ Len(longer) = n + 1
      /\ longer[1] = x /\ \A i \in 1..n : longer[i + 1] = segments[i]
  BY Prepended
<1>. HIDE DEF longer
<1>2. ASSUME NEW i \in 0..(n + 1)
      PROVE  more[i] = IF i = 0 THEN 0 ELSE more[i - 1] + Given(longer[(n + 1) + 1 - i].size)
  <2>1. CASE i = 0
    <3>1. 0 \in 0..n /\ 0 # n + 1 /\ 0 \in 0..(n + 1)
      BY <1>1
    <3>2. total[0] = 0
      BY <3>1 DEF IsTotal
    <3>3. QED
      BY <2>1, <3>1, <3>2
  <2>2. CASE i = n + 1
    <3>1. i # 0 /\ i - 1 = n /\ n \in 0..(n + 1) /\ n # n + 1 /\ (n + 1) + 1 - i = 1
      BY <1>1, <2>2
    <3>2. more[i] = total[n] + Given(x.size) /\ more[i - 1] = total[n]
      BY <2>2, <3>1
    <3>3. QED
      BY <1>1, <3>1, <3>2
  <2>3. CASE i # 0 /\ i # n + 1
    <3>1. i \in 0..n /\ i - 1 \in 0..(n + 1) /\ i - 1 # n + 1 /\ n + 1 - i \in 1..n
          /\ (n + 1) + 1 - i = (n + 1 - i) + 1
      BY <1>1, <2>3
    <3>2. more[i] = total[i] /\ more[i - 1] = total[i - 1]
      BY <2>3, <3>1
    <3>3. total[i] = total[i - 1] + Given(segments[n + 1 - i].size)
      BY <2>3, <3>1 DEF IsTotal
    <3>4. longer[(n + 1 - i) + 1] = segments[n + 1 - i]
      BY <1>1, <3>1
    <3>5. QED
      BY <2>3, <3>1, <3>2, <3>3, <3>4
  <2>4. QED
    BY <2>1, <2>2, <2>3
<1>3. IsTotal(more, longer)
  <2>1. more = [i \in 0..(n + 1) |-> more[i]]
    OBVIOUS
  <2>. HIDE DEF more
  <2>2. more = [i \in 0..(n + 1) |->
                 IF i = 0 THEN 0 ELSE more[i - 1] + Given(longer[(n + 1) + 1 - i].size)]
    BY <1>2, <2>1, Zenon
  <2>3. QED
    BY <1>1, <2>2 DEF IsTotal
<1>4. more[n + 1] = total[n] + Given(x.size)
  BY <1>1
<1>5. QED
  BY <1>3, <1>4 DEF longer

\* The reference counts do not enter the total.
LEMMA TotalOfSizes ==
    ASSUME NEW segments \in Seq(Segments), NEW others \in Seq(Segments),
           Len(others) = Len(segments),
           \A i \in DOMAIN segments : others[i].size = segments[i].size,
           NEW total, IsTotal(total, segments)
    PROVE  IsTotal(total, others)
<1>. DEFINE n == Len(segments)
<1>1. n \in Nat /\ DOMAIN segments = 1..n
  OBVIOUS
<1>2. \A i \in 0..n : i # 0 => others[n + 1 - i].size = segments[n + 1 - i].size
  <2>1. \A i \in 0..n : i # 0 => n + 1 - i \in 1..n
    BY <1>1
  <2>2. QED
    BY <1>1, <2>1
<1>3. QED
  BY <1>2 DEF IsTotal

-----------------------------------------------------------------------------
(* Parts of the invariant that a step does not touch. *)

\* The segments keep their keys and sizes.
SameSegments ==
    /\ Len(shm_segments') = Len(shm_segments) /\ shm_segments' \in Seq(Segments)
    /\ \A i \in DOMAIN shm_segments : /\ shm_segments'[i].key = shm_segments[i].key
                                      /\ shm_segments'[i].size = shm_segments[i].size

\* Every segment listed is found under its key, and is the only one.
LEMMA SegmentFound ==
    ASSUME KeysOnce, NEW key, find_shm_segment(key)
    PROVE  /\ Segment(key) \in DOMAIN shm_segments /\ shm_segments[Segment(key)].key = key
           /\ \A i \in DOMAIN shm_segments : shm_segments[i].key = key => i = Segment(key)
<1>1. Segment(key) \in DOMAIN shm_segments /\ shm_segments[Segment(key)].key = key
  BY DEF Segment, find_shm_segment
<1>2. QED
  BY <1>1 DEF KeysOnce

\* The sizes behind the keys in use, once the list has the same segments.
LEMMA SameSizes ==
    ASSUME KeysOnce, shm_segments \in Seq(Segments), SameSegments
    PROVE  /\ KeysOnce' /\ \A key : find_shm_segment(key)' <=> find_shm_segment(key)
           /\ \A key : find_shm_segment(key) =>
                 /\ Segment(key)' = Segment(key)
                 /\ shm_segments'[Segment(key)'].size = shm_segments[Segment(key)].size
<1>1. DOMAIN shm_segments' = DOMAIN shm_segments
  BY DEF SameSegments
<1>2. KeysOnce'
  BY <1>1 DEF KeysOnce, SameSegments
<1>3. \A key : find_shm_segment(key)' <=> find_shm_segment(key)
  BY <1>1 DEF find_shm_segment, SameSegments
<1>4. ASSUME NEW key, find_shm_segment(key)
      PROVE  /\ Segment(key)' = Segment(key)
             /\ shm_segments'[Segment(key)'].size = shm_segments[Segment(key)].size
  <2>1. Segment(key) \in DOMAIN shm_segments /\ shm_segments[Segment(key)].key = key
    BY <1>4, SegmentFound
  <2>2. \E i \in DOMAIN shm_segments' : shm_segments'[i].key = key
    BY <1>1, <2>1 DEF SameSegments
  <2>3. Segment(key)' \in DOMAIN shm_segments' /\ shm_segments'[Segment(key)'].key = key
    BY <2>2 DEF Segment
  <2>4. shm_segments[Segment(key)'].key = key
    BY <1>1, <2>3 DEF SameSegments
  <2>5. Segment(key)' = Segment(key)
    BY <1>1, <1>4, <2>3, <2>4, SegmentFound
  <2>6. QED
    BY <2>1, <2>5 DEF SameSegments
<1>5. QED
  BY <1>2, <1>3, <1>4

\* With the same areas, and segments whose keys, sizes and counts are the same.
LEMMA AreasUntouched ==
    ASSUME AreasAgree, \A a \in Areas : find_shm_segment(a.key),
           UNCHANGED <<areas, mapped, virtPages, shm_segments>>
    PROVE  AreasAgree'
<1>1. /\ Areas' = Areas /\ \A key : AreasOf(key)' = AreasOf(key)
      /\ \A key : Segment(key)' = Segment(key)
  BY DEF Areas, AreasOf, Segment
<1>2. \A a : GivenPages(a)' = GivenPages(a) /\ UsedPages(a)' = UsedPages(a)
  BY <1>1 DEF GivenPages, UsedPages, SizeOf
<1>3. QED
  BY <1>1, <1>2 DEF AreasAgree

\* Message queues.
LEMMA MsgqKeeps ==
    ASSUME IpcInv, NEW key \in IpcKeys, NEW ok \in BOOLEAN, NEW okBuffer \in BOOLEAN,
           msgq_create(key, ok, okBuffer)
    PROVE  IpcInv'
<1>1. UNCHANGED <<pipes, shm_segments, making, found, areas, physPages, virtPages, mapped,
                  openFds, astray>>
  BY DEF msgq_create
<1>2. /\ msg_queues' \in Seq(IpcKeys) /\ heapBlocks' \in Int
      /\ heapBlocks' - 2 * Len(msg_queues') = heapBlocks - 2 * Len(msg_queues)
      /\ Len(msg_queues) \in Nat /\ Len(msg_queues') \in Nat
  <2>1. CASE ok /\ okBuffer
    BY <2>1, Prepended DEF msgq_create, IpcInv, IpcTypes
  <2>2. CASE ~(ok /\ okBuffer)
    BY <2>2 DEF msgq_create, IpcInv, IpcTypes
  <2>3. QED
    BY <2>1, <2>2
<1>3. IpcTypes'
  BY <1>1, <1>2 DEF IpcInv, IpcTypes
<1>4. MemoryInv'
  <2>1. Len(pipes) \in Nat /\ Len(shm_segments) \in Nat /\ heapBlocks \in Int
    BY DEF IpcInv, IpcTypes
  <2>2. QED
    BY <1>1, <1>2, <2>1 DEF IpcInv, MemoryInv
<1>5. KeysInv' /\ FdsInv'
  BY <1>1 DEF IpcInv, KeysInv, FdsInv, KeysOnce, FdsAccounted, OwnedFds, Areas, find_shm_segment
<1>6. ~astray' => AreasAgree'
  BY <1>1, AreasUntouched DEF IpcInv, KeysInv
<1>7. QED
  BY <1>3, <1>4, <1>5, <1>6 DEF IpcInv

\* fd_alloc gives the lowest free descriptor, or none when all are in use.
LEMMA FdAlloc ==
    ASSUME NEW used \in SUBSET (0..(Descriptors - 1))
    PROVE  \/ fd_alloc(used) = {} /\ used = 0..(Descriptors - 1)
           \/ \E fd \in (0..(Descriptors - 1)) \ used : fd_alloc(used) = {fd}
<1>1. Descriptors \in Nat
  BY IpcAssumption
<1>2. CASE (0..(Descriptors - 1)) \ used = {}
  BY <1>2 DEF fd_alloc
<1>3. CASE (0..(Descriptors - 1)) \ used # {}
  <2>1. (0..(Descriptors - 1)) \ used \in SUBSET Nat
    BY <1>1
  <2>2. Min((0..(Descriptors - 1)) \ used) \in (0..(Descriptors - 1)) \ used
    BY <1>3, <2>1, Least
  <2>3. fd_alloc(used) = {Min((0..(Descriptors - 1)) \ used)}
    BY <1>3 DEF fd_alloc
  <2>4. QED
    BY <2>2, <2>3
<1>4. QED
  BY <1>2, <1>3

\* The descriptors of the pipes, after a pipe was put on the list.
LEMMA OwnedGrows ==
    ASSUME pipes \in Seq(Nat \X Nat), NEW r \in Nat, NEW w \in Nat, pipes' = <<<<r, w>>>> \o pipes
    PROVE  OwnedFds' = OwnedFds \cup {r, w}
<1>1. /\ DOMAIN pipes' = 1..(Len(pipes) + 1) /\ DOMAIN pipes = 1..Len(pipes) /\ Len(pipes) \in Nat
      /\ pipes'[1] = <<r, w>> /\ \A i \in 1..Len(pipes) : pipes'[i + 1] = pipes[i]
      /\ \A i \in 1..(Len(pipes) + 1) : i = 1 \/ (i - 1 \in 1..Len(pipes) /\ pipes'[i] = pipes[i - 1])
  BY Prepended
<1>2. ASSUME NEW x \in OwnedFds' PROVE x \in OwnedFds \cup {r, w}
  <2>1. PICK i \in 1..(Len(pipes) + 1) : x \in {pipes'[i][1], pipes'[i][2]}
    BY <1>1, <1>2 DEF OwnedFds
  <2>2. CASE i = 1
    BY <1>1, <2>1, <2>2
  <2>3. CASE i # 1
    <3>1. i - 1 \in DOMAIN pipes /\ x \in {pipes[i - 1][1], pipes[i - 1][2]}
      BY <1>1, <2>1, <2>3
    <3>2. QED
      BY <3>1 DEF OwnedFds
  <2>4. QED
    BY <2>2, <2>3
<1>3. ASSUME NEW x \in OwnedFds \cup {r, w} PROVE x \in OwnedFds'
  <2>1. CASE x \in {r, w}
    <3>1. 1 \in DOMAIN pipes' /\ x \in {pipes'[1][1], pipes'[1][2]}
      BY <1>1, <2>1
    <3>2. QED
      BY <3>1 DEF OwnedFds
  <2>2. CASE x \in OwnedFds
    <3>1. PICK i \in 1..Len(pipes) : x \in {pipes[i][1], pipes[i][2]}
      BY <1>1, <2>2 DEF OwnedFds
    <3>2. i + 1 \in DOMAIN pipes' /\ x \in {pipes'[i + 1][1], pipes'[i + 1][2]}
      BY <1>1, <3>1
    <3>3. QED
      BY <3>2 DEF OwnedFds
  <2>3. QED
    BY <1>3, <2>1, <2>2
<1>4. QED
  BY <1>2, <1>3

\* Pipes.
LEMMA PipeKeeps ==
    ASSUME IpcInv, NEW ok \in BOOLEAN, NEW okBuffer \in BOOLEAN, pipe_create(ok, okBuffer)
    PROVE  IpcInv'
<1>. DEFINE all == 0..(Descriptors - 1)
            read == fd_alloc(openFds)
            write == fd_alloc(openFds \cup read)
<1>1. UNCHANGED <<msg_queues, shm_segments, making, found, areas, physPages, virtPages, mapped, astray>>
  BY DEF pipe_create
<1>2. /\ openFds \subseteq all /\ pipes \in Seq(Nat \X Nat) /\ OwnedFds \subseteq openFds
      /\ Cardinality(OwnedFds) = 2 * Len(pipes) /\ Len(pipes) \in Nat /\ heapBlocks \in Int
      /\ OwnedFds = openFds \/ Cardinality(openFds) = Descriptors
  BY DEF IpcInv, IpcTypes, FdsInv, FdsAccounted
<1>3. Descriptors \in Nat /\ IsFiniteSet(all) /\ Cardinality(all) = Descriptors
  BY IpcAssumption, FS_Interval
<1>4. KeysInv' /\ (~astray' => AreasAgree')
  <2>1. KeysInv'
    BY <1>1 DEF IpcInv, KeysInv, KeysOnce, Areas, find_shm_segment
  <2>2. QED
    BY <1>1, <2>1, AreasUntouched DEF IpcInv, KeysInv
<1>5. SUFFICES /\ pipes' \in Seq(Nat \X Nat) /\ openFds' \subseteq all
               /\ heapBlocks' = heapBlocks + 2 * Len(pipes') - 2 * Len(pipes)
               /\ FdsInv'
  <2>1. IpcTypes'
    BY <1>1, <1>2, <1>5 DEF IpcInv, IpcTypes
  <2>2. Len(msg_queues) \in Nat /\ Len(shm_segments) \in Nat /\ Len(pipes') \in Nat
    BY <1>5 DEF IpcInv, IpcTypes
  <2>3. heapBlocks' = 2 * Len(msg_queues') + 2 * Len(pipes') + Len(shm_segments')
                      + (IF making'.key = NoKey THEN 0 ELSE 1)
    BY <1>1, <1>2, <1>5, <2>2 DEF IpcInv, MemoryInv
  <2>4. MemoryInv'
    BY <1>1, <2>3 DEF IpcInv, MemoryInv
  <2>5. QED
    BY <1>4, <1>5, <2>1, <2>4 DEF IpcInv
<1>6. CASE UNCHANGED <<openFds, pipes, heapBlocks>>
  BY <1>2, <1>6 DEF FdsInv, FdsAccounted, OwnedFds
<1>7. ASSUME ok, okBuffer
      PROVE  /\ openFds' = openFds \cup read \cup write
             /\ pipes' = IF read # {} /\ write # {} THEN <<<<Min(read), Min(write)>>>> \o pipes ELSE pipes
             /\ heapBlocks' = heapBlocks + (IF read # {} /\ write # {} THEN 2 ELSE 0)
  BY <1>7 DEF pipe_create
<1>8. CASE ok /\ okBuffer /\ read = {}
  <2>1. openFds \cup read = openFds
    BY <1>8
  <2>2. write = {}
    BY <1>8, <2>1
  <2>. HIDE DEF read, write
  <2>3. openFds' = openFds /\ pipes' = pipes /\ heapBlocks' = heapBlocks + 0
    BY <1>7, <1>8, <2>2
  <2>4. UNCHANGED <<openFds, pipes, heapBlocks>>
    BY <1>2, <2>3
  <2>5. QED
    BY <1>6, <2>4
<1>9. ASSUME ok, okBuffer, NEW r \in all \ openFds, read = {r}, write = {}
      PROVE  /\ pipes' \in Seq(Nat \X Nat) /\ openFds' \subseteq all
             /\ heapBlocks' = heapBlocks + 2 * Len(pipes') - 2 * Len(pipes)
             /\ FdsInv'
  <2>1. openFds \cup {r} = all
    <3>1. openFds \cup {r} \in SUBSET all
      BY <1>2
    <3>2. fd_alloc(openFds \cup {r}) = {}
      BY <1>9
    <3>3. QED
      BY <3>1, <3>2, FdAlloc
  <2>2. openFds' = all /\ pipes' = pipes /\ heapBlocks' = heapBlocks
    <3>. HIDE DEF read, write
    <3>1. openFds' = openFds \cup {r} \cup {} /\ pipes' = pipes /\ heapBlocks' = heapBlocks + 0
      BY <1>7, <1>9
    <3>2. QED
      BY <1>2, <2>1, <3>1
  <2>3. OwnedFds' = OwnedFds
    BY <2>2 DEF OwnedFds
  <2>4. QED
    BY <1>2, <1>3, <2>2, <2>3 DEF FdsInv, FdsAccounted
<1>10. ASSUME ok, okBuffer, NEW r \in all \ openFds, read = {r},
              NEW w \in all \ (openFds \cup {r}), write = {w}
       PROVE  /\ pipes' \in Seq(Nat \X Nat) /\ openFds' \subseteq all
              /\ heapBlocks' = heapBlocks + 2 * Len(pipes') - 2 * Len(pipes)
              /\ FdsInv'
  <2>1. r \in Nat /\ w \in Nat /\ Min({r}) = r /\ Min({w}) = w
    BY <1>3 DEF Min
  <2>2. pipes' = <<<<r, w>>>> \o pipes /\ openFds' = openFds \cup {r, w} /\ heapBlocks' = heapBlocks + 2
    BY <1>7, <1>10, <2>1
  <2>3. pipes' \in Seq(Nat \X Nat) /\ Len(pipes') = Len(pipes) + 1
    BY <1>2, <2>1, <2>2, Prepended
  <2>4. OwnedFds' = OwnedFds \cup {r, w}
    BY <1>2, <2>1, <2>2, OwnedGrows
  <2>5. OwnedFds = openFds
    <3>1. openFds # all /\ openFds \subseteq all
      BY <1>2, <1>10
    <3>2. Cardinality(openFds) # Descriptors
      BY <1>3, <3>1, FS_Subset
    <3>3. QED
      BY <1>2, <3>2
  <2>6. IsFiniteSet(OwnedFds)
    BY <1>2, <1>3, FS_Subset
  <2>7. Cardinality(OwnedFds \cup {r}) = Cardinality(OwnedFds) + 1 /\ IsFiniteSet(OwnedFds \cup {r})
    BY <1>2, <1>10, <2>6, FS_AddElement
  <2>8. Cardinality((OwnedFds \cup {r}) \cup {w}) = Cardinality(OwnedFds) + 2
    <3>1. w \notin OwnedFds \cup {r}
      BY <1>2, <1>10
    <3>2. Cardinality((OwnedFds \cup {r}) \cup {w}) = Cardinality(OwnedFds \cup {r}) + 1
      BY <2>7, <3>1, FS_AddElement
    <3>3. Cardinality(OwnedFds) \in Nat
      BY <2>6, FS_CardinalityType
    <3>4. QED
      BY <2>7, <3>2, <3>3
  <2>9. Cardinality(OwnedFds') = 2 * Len(pipes')
    <3>1. OwnedFds' = (OwnedFds \cup {r}) \cup {w}
      BY <2>4
    <3>2. QED
      BY <1>2, <2>3, <2>8, <3>1
  <2>10. OwnedFds' = openFds'
    BY <2>2, <2>4, <2>5
  <2>11. openFds' \subseteq all
    BY <1>2, <1>10, <2>2
  <2>12. FdsInv'
    BY <2>9, <2>10 DEF FdsInv, FdsAccounted
  <2>13. QED
    BY <1>2, <2>2, <2>3, <2>11, <2>12
<1>11. CASE ~(ok /\ okBuffer)
  <2>1. UNCHANGED <<openFds, pipes, heapBlocks>>
    BY <1>11 DEF pipe_create
  <2>2. QED
    BY <1>6, <2>1
<1>12. CASE ok /\ okBuffer
  <2>1. read = {} \/ \E r \in all \ openFds : read = {r}
    BY <1>2, FdAlloc
  <2>2. ASSUME NEW r \in all \ openFds, read = {r}
        PROVE  write = {} \/ \E w \in all \ (openFds \cup {r}) : write = {w}
    <3>1. openFds \cup {r} \in SUBSET all
      BY <1>2
    <3>2. write = fd_alloc(openFds \cup {r})
      BY <2>2
    <3>3. QED
      BY <3>1, <3>2, FdAlloc
  <2>. HIDE DEF read, write
  <2>3. QED
    BY <1>8, <1>9, <1>10, <1>12, <2>1, <2>2
<1>13. QED
  BY <1>11, <1>12

-----------------------------------------------------------------------------
(* Shared memory. *)

\* shm_create up to malloc.
LEMMA CreateKeeps ==
    ASSUME IpcInv, NEW key \in IpcKeys, NEW size \in SegmentSizes, shm_create(key, size)
    PROVE  IpcInv'
<1>1. /\ UNCHANGED <<msg_queues, pipes, shm_segments, found, areas, physPages, virtPages, mapped,
                     openFds, astray>>
      /\ making.key = NoKey /\ ~find_shm_segment(key)
      /\ making' = [key |-> key, size |-> size] /\ heapBlocks' = heapBlocks + 1
  BY DEF shm_create
<1>2. making'.key = key /\ making'.size = size /\ key # NoKey
  BY <1>1, IpcAssumption
<1>3. IpcTypes'
  BY <1>1, <1>2 DEF IpcInv, IpcTypes
<1>4. MemoryInv'
  <2>1. Len(pipes) \in Nat /\ Len(shm_segments) \in Nat /\ Len(msg_queues) \in Nat
    BY DEF IpcInv, IpcTypes
  <2>2. QED
    BY <1>1, <1>2, <2>1 DEF IpcInv, MemoryInv
<1>5. KeysInv' /\ FdsInv'
  BY <1>1, <1>2 DEF IpcInv, KeysInv, FdsInv, KeysOnce, FdsAccounted, OwnedFds, Areas, find_shm_segment
<1>6. ~astray' => AreasAgree'
  BY <1>1, AreasUntouched DEF IpcInv, KeysInv
<1>7. QED
  BY <1>3, <1>4, <1>5, <1>6 DEF IpcInv

\* shm_attach up to the mapping.
LEMMA AttachKeeps ==
    ASSUME IpcInv, NEW t \in IpcTasks, NEW key \in IpcKeys, shm_attach(t, key)
    PROVE  IpcInv'
<1>1. /\ UNCHANGED <<msg_queues, pipes, shm_segments, making, areas, heapBlocks, physPages,
                     virtPages, mapped, openFds, astray>>
      /\ find_shm_segment(key) /\ found' = [found EXCEPT ![t] = key]
  BY DEF shm_attach
<1>2. found \in [IpcTasks -> IpcKeys \cup {NoKey}]
  BY DEF IpcInv, IpcTypes
<1>3. IpcTypes' /\ MemoryInv' /\ FdsInv'
  BY <1>1, <1>2 DEF IpcInv, IpcTypes, MemoryInv, FdsInv, FdsAccounted, OwnedFds
<1>4. KeysInv'
  <2>1. \A u \in IpcTasks : found'[u] = IF u = t THEN key ELSE found[u]
    BY <1>1, <1>2
  <2>2. \A k : find_shm_segment(k)' <=> find_shm_segment(k)
    BY <1>1 DEF find_shm_segment
  <2>3. KeysOnce' /\ Areas' = Areas
    BY <1>1 DEF IpcInv, KeysInv, KeysOnce, Areas
  <2>4. QED
    BY <1>1, <2>1, <2>2, <2>3 DEF IpcInv, KeysInv
<1>5. ~astray' => AreasAgree'
  BY <1>1, AreasUntouched DEF IpcInv, KeysInv
<1>6. QED
  BY <1>3, <1>4, <1>5 DEF IpcInv

\* The areas stay as they are, and so do the sizes of their segments.
LEMMA AreasKept ==
    ASSUME AreasAgree, UNCHANGED <<areas, mapped, virtPages>>,
           \A a \in Areas : SizeOf(a)' = SizeOf(a),
           \A i \in DOMAIN shm_segments' :
              shm_segments'[i].ref_count = Cardinality(AreasOf(shm_segments'[i].key))
    PROVE  AreasAgree'
<1>1. Areas' = Areas /\ \A key : AreasOf(key)' = AreasOf(key)
  BY DEF Areas, AreasOf
<1>2. \A a \in Areas : GivenPages(a)' = GivenPages(a) /\ UsedPages(a)' = UsedPages(a)
  BY DEF GivenPages, UsedPages
<1>3. QED
  BY <1>1, <1>2 DEF AreasAgree

\* The rest of shm_create.
LEMMA LinkKeeps ==
    ASSUME IpcInv, NEW ok \in BOOLEAN, LinkSegment(ok)
    PROVE  IpcInv'
<1>1. /\ UNCHANGED <<msg_queues, pipes, found, areas, virtPages, mapped, openFds, astray>>
      /\ making.key \in IpcKeys /\ making.size \in SegmentSizes /\ making.key # NoKey
      /\ making' = [key |-> NoKey, size |-> 0] /\ making'.key = NoKey
  BY DEF LinkSegment, IpcInv, IpcTypes
<1>2. /\ Len(pipes) \in Nat /\ Len(shm_segments) \in Nat /\ Len(msg_queues) \in Nat
      /\ heapBlocks \in Int /\ shm_segments \in Seq(Segments)
  BY DEF IpcInv, IpcTypes
<1>3. FdsInv'
  BY <1>1 DEF IpcInv, FdsInv, FdsAccounted, OwnedFds
<1>4. CASE ~ok
  <2>1. heapBlocks' = heapBlocks - 1 /\ UNCHANGED <<shm_segments, physPages>>
    BY <1>4 DEF LinkSegment
  <2>2. IpcTypes' /\ MemoryInv'
    BY <1>1, <1>2, <2>1 DEF IpcInv, IpcTypes, MemoryInv
  <2>3. KeysInv'
    BY <1>1, <2>1 DEF IpcInv, KeysInv, KeysOnce, Areas, find_shm_segment
  <2>4. ~astray' => AreasAgree'
    BY <1>1, <2>1, AreasUntouched DEF IpcInv, KeysInv
  <2>5. QED
    BY <1>3, <2>2, <2>3, <2>4 DEF IpcInv
<1>5. CASE ok
  <2>. DEFINE x == [key |-> making.key, size |-> making.size, ref_count |-> 0]
              n == Len(shm_segments)
  <2>1. shm_segments' = <<x>> \o shm_segments /\ heapBlocks' = heapBlocks
        /\ physPages' = physPages + Given(making.size)
    BY <1>5 DEF LinkSegment
  <2>2. x \in Segments /\ x.key = making.key /\ x.size = making.size /\ x.ref_count = 0
    <3>1. 0 \in 0..(RefWrap - 1)
      BY IpcAssumption
    <3>2. QED
      BY <1>1, <3>1 DEF Segments
  <2>. HIDE DEF x
  <2>3. /\ shm_segments' \in Seq(Segments) /\ Len(shm_segments') = n + 1
        /\ DOMAIN shm_segments' = 1..(n + 1) /\ DOMAIN shm_segments = 1..n
        /\ shm_segments'[1] = x /\ \A i \in 1..n : shm_segments'[i + 1] = shm_segments[i]
        /\ \A i \in 1..(n + 1) : i = 1 \/ (i - 1 \in 1..n /\ shm_segments'[i] = shm_segments[i - 1])
    BY <1>2, <2>1, <2>2, Prepended
  <2>4. IpcTypes'
    BY <1>1, <2>1, <2>3 DEF IpcInv, IpcTypes
  <2>5. MemoryInv'
    <3>1. PICK total : IsTotal(total, shm_segments) /\ physPages = total[n]
      BY DEF IpcInv, MemoryInv
    <3>2. \E more : IsTotal(more, shm_segments') /\ more[n + 1] = total[n] + Given(x.size)
      BY <1>2, <2>1, <2>2, <3>1, TotalGrows
    <3>3. \E more : IsTotal(more, shm_segments') /\ physPages' = more[Len(shm_segments')]
      BY <2>1, <2>2, <2>3, <3>1, <3>2
    <3>4. heapBlocks' = 2 * Len(msg_queues') + 2 * Len(pipes') + Len(shm_segments')
                        + (IF making'.key = NoKey THEN 0 ELSE 1)
      BY <1>1, <1>2, <2>1, <2>3 DEF IpcInv, MemoryInv
    <3>5. QED
      BY <3>3, <3>4 DEF MemoryInv
  <2>6. \A i \in 1..n : shm_segments[i].key # making.key
    BY <1>1, <2>3 DEF IpcInv, KeysInv, find_shm_segment
  <2>7. \A i, j \in 1..n : shm_segments[i].key = shm_segments[j].key => i = j
    BY <2>3 DEF IpcInv, KeysInv, KeysOnce
  <2>8. KeysOnce'
    <3>. SUFFICES ASSUME NEW i \in 1..(n + 1), NEW j \in 1..(n + 1),
                         shm_segments'[i].key = shm_segments'[j].key
                  PROVE  i = j
      BY <2>3 DEF KeysOnce
    <3>1. CASE i = 1 \/ j = 1
      <4>1. ASSUME NEW k \in 1..(n + 1), k # 1 PROVE shm_segments'[k].key # making.key
        BY <2>3, <2>6, <4>1
      <4>2. shm_segments'[1].key = making.key
        BY <2>2, <2>3
      <4>3. QED
        BY <3>1, <4>1, <4>2
    <3>2. CASE i # 1 /\ j # 1
      <4>1. /\ i - 1 \in 1..n /\ shm_segments'[i] = shm_segments[i - 1]
            /\ j - 1 \in 1..n /\ shm_segments'[j] = shm_segments[j - 1]
        BY <2>3, <3>2
      <4>2. i - 1 = j - 1
        BY <2>7, <4>1
      <4>3. QED
        BY <4>2
    <3>3. QED
      BY <3>1, <3>2
  <2>9. ASSUME NEW key, find_shm_segment(key)
        PROVE  /\ find_shm_segment(key)'
               /\ shm_segments'[Segment(key)'].size = shm_segments[Segment(key)].size
    <3>1. Segment(key) \in 1..n /\ shm_segments[Segment(key)].key = key
      BY <2>3, <2>9, SegmentFound DEF IpcInv, KeysInv
    <3>2. Segment(key) + 1 \in DOMAIN shm_segments' /\ shm_segments'[Segment(key) + 1] = shm_segments[Segment(key)]
      BY <1>2, <2>3, <3>1
    <3>3. find_shm_segment(key)'
      BY <3>1, <3>2 DEF find_shm_segment
    <3>4. Segment(key)' \in DOMAIN shm_segments' /\ shm_segments'[Segment(key)'].key = key
      BY <3>1, <3>2 DEF Segment
    <3>5. Segment(key)' = Segment(key) + 1
      BY <2>8, <3>1, <3>2, <3>4 DEF KeysOnce
    <3>6. QED
      BY <3>2, <3>3, <3>5
  <2>10. Areas' = Areas /\ \A key : AreasOf(key)' = AreasOf(key)
    BY <1>1 DEF Areas, AreasOf
  <2>11. KeysInv'
    BY <1>1, <2>8, <2>9, <2>10 DEF IpcInv, KeysInv
  <2>12. ASSUME ~astray' PROVE AreasAgree'
    <3>1. AreasAgree
      BY <1>1, <2>12 DEF IpcInv
    <3>2. \A a \in Areas : SizeOf(a)' = SizeOf(a)
      BY <2>9 DEF SizeOf, IpcInv, KeysInv
    <3>3. ASSUME NEW i \in 1..(n + 1)
          PROVE  shm_segments'[i].ref_count = Cardinality(AreasOf(shm_segments'[i].key))
      <4>1. CASE i = 1
        <5>1. AreasOf(making.key) = {}
          BY <1>1 DEF AreasOf, IpcInv, KeysInv
        <5>2. QED
          BY <2>2, <2>3, <4>1, <5>1, FS_EmptySet
      <4>2. CASE i # 1
        <5>1. i - 1 \in 1..n /\ shm_segments'[i] = shm_segments[i - 1]
          BY <2>3, <4>2
        <5>2. QED
          BY <2>3, <3>1, <5>1 DEF AreasAgree
      <4>3. QED
        BY <4>1, <4>2
    <3>4. QED
      BY <1>1, <2>3, <3>1, <3>2, <3>3, AreasKept
  <2>13. QED
    BY <1>3, <2>4, <2>5, <2>11, <2>12 DEF IpcInv
<1>6. QED
  BY <1>4, <1>5

\* A reference count is a remainder.
LEMMA CountRemainder ==
    ASSUME NEW n \in Int
    PROVE  n % RefWrap \in 0..(RefWrap - 1) /\ (n \in 0..(RefWrap - 1) => n % RefWrap = n)
<1>1. RefWrap \in Nat \ {0}
  BY IpcAssumption
<1>2. QED
  BY <1>1

\* Areas of one segment differ in their addresses, so that there are no more of
\* them than virtual pages.
LEMMA FewAreas ==
    ASSUME NEW A \in SUBSET AreaRecords, NEW k, \A a \in A : a.key = k
    PROVE  IsFiniteSet(A) /\ Cardinality(A) \in 0..VirtualPages
<1>. DEFINE T == 0..(VirtualPages - 1)
            f == [a \in A |-> a.addr]
<1>1. VirtualPages \in Nat /\ IsFiniteSet(T) /\ Cardinality(T) = VirtualPages
  BY IpcAssumption, FS_Interval
<1>2. f \in Injection(A, T)
  <2>1. \A a \in A : a.addr \in T
    BY DEF AreaRecords
  <2>2. ASSUME NEW a \in A, NEW b \in A, a.addr = b.addr PROVE a = b
    <3>1. a.key = b.key /\ a \in AreaRecords /\ b \in AreaRecords
      OBVIOUS
    <3>2. QED
      BY <2>2, <3>1 DEF AreaRecords
  <2>3. QED
    BY <2>1, <2>2 DEF Injection, IsInjective
<1>3. IsFiniteSet(A) /\ Cardinality(A) <= Cardinality(T)
  BY <1>1, <1>2, FS_Injection
<1>4. QED
  BY <1>1, <1>3, FS_CardinalityType

\* The areas are records, and the pages of one are a range that is not empty.
LEMMA AreaFacts ==
    ASSUME IpcTypes, KeysInv
    PROVE  /\ Areas \subseteq AreaRecords
           /\ \A key : IsFiniteSet(AreasOf(key)) /\ Cardinality(AreasOf(key)) \in 0..VirtualPages
           /\ \A a \in Areas : /\ SizeOf(a) \in Nat /\ a.addr \in GivenPages(a)
                               /\ UsedPages(a) \subseteq GivenPages(a)
<1>1. Areas \subseteq AreaRecords
  BY DEF Areas, ToSet, IpcTypes
<1>2. ASSUME NEW key PROVE IsFiniteSet(AreasOf(key)) /\ Cardinality(AreasOf(key)) \in 0..VirtualPages
  <2>1. AreasOf(key) \in SUBSET AreaRecords /\ \A a \in AreasOf(key) : a.key = key
    BY <1>1 DEF AreasOf
  <2>2. QED
    BY <2>1, FewAreas
<1>3. ASSUME NEW a \in Areas
      PROVE  SizeOf(a) \in Nat /\ a.addr \in GivenPages(a) /\ UsedPages(a) \subseteq GivenPages(a)
  <2>1. Segment(a.key) \in DOMAIN shm_segments
    BY SegmentFound DEF KeysInv
  <2>2. shm_segments[Segment(a.key)] \in Segments
    BY <2>1 DEF IpcTypes
  <2>3. SizeOf(a) \in Nat
    BY <2>2, IpcAssumption DEF SizeOf, Segments
  <2>4. a.addr \in Nat
    BY <1>1, IpcAssumption DEF AreaRecords
  <2>5. /\ Given(SizeOf(a)) \in Nat \ {0} /\ Used(SizeOf(a)) \in Nat
        /\ Used(SizeOf(a)) <= Given(SizeOf(a))
    BY <2>3, PageCounts
  <2>6. QED
    BY <2>3, <2>4, <2>5 DEF GivenPages, UsedPages, Range0
<1>4. QED
  BY <1>1, <1>2, <1>3

\* A step of one segment's reference count leaves the segments as they are.
LEMMA CountChanges ==
    ASSUME shm_segments \in Seq(Segments), NEW k \in DOMAIN shm_segments, NEW n \in Int,
           shm_segments' = [shm_segments EXCEPT ![k].ref_count = n % RefWrap]
    PROVE  /\ SameSegments /\ DOMAIN shm_segments' = DOMAIN shm_segments
           /\ shm_segments'[k].ref_count = n % RefWrap
           /\ \A i \in DOMAIN shm_segments : i # k => shm_segments'[i] = shm_segments[i]
<1>1. n % RefWrap \in 0..(RefWrap - 1)
  BY CountRemainder
<1>2. shm_segments' = [shm_segments EXCEPT ![k] = [shm_segments[k] EXCEPT !.ref_count = n % RefWrap]]
  OBVIOUS
<1>3. shm_segments[k] \in Segments
  OBVIOUS
<1>4. /\ [shm_segments[k] EXCEPT !.ref_count = n % RefWrap] \in Segments
      /\ [shm_segments[k] EXCEPT !.ref_count = n % RefWrap].key = shm_segments[k].key
      /\ [shm_segments[k] EXCEPT !.ref_count = n % RefWrap].size = shm_segments[k].size
      /\ [shm_segments[k] EXCEPT !.ref_count = n % RefWrap].ref_count = n % RefWrap
  BY <1>1, <1>3 DEF Segments
<1>5. /\ shm_segments' \in Seq(Segments) /\ Len(shm_segments') = Len(shm_segments)
      /\ DOMAIN shm_segments' = DOMAIN shm_segments
  BY <1>2, <1>4
<1>6. QED
  BY <1>2, <1>4, <1>5 DEF SameSegments

\* What shm_attach and shm_detach do to the segments concerns neither the memory
\* nor the descriptors, and the keys of the areas are still listed.
LEMMA SegmentsStay ==
    ASSUME IpcInv, SameSegments,
           UNCHANGED <<msg_queues, pipes, making, heapBlocks, physPages, openFds>>,
           \A a \in Areas' : find_shm_segment(a.key),
           \A t \in IpcTasks : found'[t] # NoKey => find_shm_segment(found'[t])
    PROVE  MemoryInv' /\ KeysInv' /\ FdsInv'
<1>1. /\ shm_segments \in Seq(Segments) /\ shm_segments' \in Seq(Segments)
      /\ Len(shm_segments') = Len(shm_segments) /\ KeysOnce
      /\ \A i \in DOMAIN shm_segments : shm_segments'[i].size = shm_segments[i].size
  BY DEF IpcInv, IpcTypes, KeysInv, SameSegments
<1>2. MemoryInv'
  <2>1. PICK total : IsTotal(total, shm_segments) /\ physPages = total[Len(shm_segments)]
    BY DEF IpcInv, MemoryInv
  <2>2. IsTotal(total, shm_segments')
    BY <1>1, <2>1, TotalOfSizes
  <2>3. \E sum : IsTotal(sum, shm_segments') /\ physPages' = sum[Len(shm_segments')]
    BY <1>1, <2>1, <2>2
  <2>4. QED
    BY <1>1, <2>3 DEF IpcInv, MemoryInv
<1>3. KeysOnce' /\ \A key : find_shm_segment(key)' <=> find_shm_segment(key)
  BY <1>1, SameSizes
<1>4. KeysInv'
  BY <1>3 DEF IpcInv, KeysInv
<1>5. FdsInv'
  BY DEF IpcInv, FdsInv, FdsAccounted, OwnedFds
<1>6. QED
  BY <1>2, <1>4, <1>5

\* The elements of sequences, one sequence for each index: each in one place.
Distinct(T, A) ==
    \A u, v \in T : \A i \in DOMAIN A[u], j \in DOMAIN A[v] : A[u][i] = A[v][j] => u = v /\ i = j
Elements(T, A) == UNION {ToSet(A[u]) : u \in T}

\* One of the sequences A got x in front, or lost its first element.
MoreAt(T, S, A, B, t, x) ==
    /\ A \in [T -> Seq(S)] /\ B \in [T -> Seq(S)] /\ t \in T /\ x \in S
    /\ B[t] = <<x>> \o A[t] /\ \A u \in T \ {t} : B[u] = A[u]
LessAt(T, S, A, B, t) ==
    /\ A \in [T -> Seq(S)] /\ B \in [T -> Seq(S)] /\ t \in T /\ A[t] # <<>>
    /\ B[t] = Tail(A[t]) /\ \A u \in T \ {t} : B[u] = A[u]

\* Putting a new element in front of one of them.
LEMMA OneMore ==
    ASSUME NEW T, NEW S, NEW A, NEW B, NEW t, NEW x, MoreAt(T, S, A, B, t, x),
           x \notin Elements(T, A), Distinct(T, A)
    PROVE  Distinct(T, B)
<1>. USE DEF MoreAt
<1>1. /\ Len(A[t]) \in Nat /\ DOMAIN A[t] = 1..Len(A[t]) /\ DOMAIN B[t] = 1..(Len(A[t]) + 1)
      /\ B[t][1] = x
      /\ \A i \in 1..(Len(A[t]) + 1) : i = 1 \/ (i - 1 \in 1..Len(A[t]) /\ B[t][i] = A[t][i - 1])
  BY Prepended
<1>2. \A u \in T : \A i \in DOMAIN A[u] : A[u][i] # x
  BY DEF Elements, ToSet
<1>3. ASSUME NEW u \in T, NEW i \in DOMAIN B[u], B[u][i] = x PROVE u = t /\ i = 1
  <2>1. CASE u = t
    BY <1>1, <1>2, <1>3, <2>1
  <2>2. CASE u # t
    BY <1>2, <1>3, <2>2
  <2>3. QED
    BY <2>1, <2>2
<1>4. ASSUME NEW u \in T, NEW v \in T, NEW i \in DOMAIN B[u], NEW j \in DOMAIN B[v], B[u][i] = B[v][j],
             B[u][i] # x
      PROVE  u = v /\ i = j
  <2>1. CASE u = t /\ v = t
    <3>1. i \in 1..(Len(A[t]) + 1) /\ j \in 1..(Len(A[t]) + 1) /\ i # 1 /\ j # 1
      BY <1>1, <1>4, <2>1
    <3>2. /\ i - 1 \in DOMAIN A[t] /\ j - 1 \in DOMAIN A[t]
          /\ A[t][i - 1] = A[t][j - 1]
      BY <1>1, <1>4, <2>1, <3>1
    <3>3. i - 1 = j - 1
      BY <3>2 DEF Distinct
    <3>4. QED
      BY <2>1, <3>1, <3>3
  <2>2. CASE u = t /\ v # t
    <3>1. i \in 1..(Len(A[t]) + 1) /\ i # 1 /\ j \in DOMAIN A[v] /\ B[v][j] = A[v][j]
      BY <1>1, <1>4, <2>2
    <3>2. i - 1 \in DOMAIN A[t] /\ A[t][i - 1] = A[v][j]
      BY <1>1, <1>4, <2>2, <3>1
    <3>3. QED
      BY <2>2, <3>1, <3>2 DEF Distinct
  <2>3. CASE u # t /\ v = t
    <3>1. j \in 1..(Len(A[t]) + 1) /\ j # 1 /\ i \in DOMAIN A[u] /\ B[u][i] = A[u][i]
      BY <1>1, <1>4, <2>3
    <3>2. j - 1 \in DOMAIN A[t] /\ A[t][j - 1] = A[u][i]
      BY <1>1, <1>4, <2>3, <3>1
    <3>3. QED
      BY <2>3, <3>1, <3>2 DEF Distinct
  <2>4. CASE u # t /\ v # t
    BY <1>4, <2>4 DEF Distinct
  <2>5. QED
    BY <2>1, <2>2, <2>3, <2>4
<1>5. ASSUME NEW u \in T, NEW v \in T, NEW i \in DOMAIN B[u], NEW j \in DOMAIN B[v], B[u][i] = B[v][j]
      PROVE  u = v /\ i = j
  <2>1. CASE B[u][i] = x
    BY <1>3, <1>5, <2>1
  <2>2. CASE B[u][i] # x
    BY <1>4, <1>5, <2>2
  <2>3. QED
    BY <2>1, <2>2
<1>6. QED
  BY <1>5 DEF Distinct

\* Taking the first element off one of them.
LEMMA OneLess ==
    ASSUME NEW T, NEW S, NEW A, NEW B, NEW t, LessAt(T, S, A, B, t)
    PROVE  /\ \A y \in Elements(T, B) : y \in Elements(T, A)
           /\ Head(A[t]) \in Elements(T, A)
           /\ Distinct(T, A) => Distinct(T, B)
           /\ Distinct(T, A) =>
                 \A y : y \in Elements(T, B) <=> y \in Elements(T, A) /\ y # Head(A[t])
<1>. USE DEF LessAt
<1>1. /\ Len(A[t]) \in Nat \ {0} /\ DOMAIN B[t] = 1..(Len(A[t]) - 1)
      /\ Head(A[t]) = A[t][1] /\ DOMAIN A[t] = 1..Len(A[t]) /\ 1 \in DOMAIN A[t]
      /\ \A i \in 1..(Len(A[t]) - 1) : i + 1 \in 1..Len(A[t]) /\ B[t][i] = A[t][i + 1]
      /\ \A i \in 1..Len(A[t]) : i = 1 \/ (i - 1 \in 1..(Len(A[t]) - 1) /\ B[t][i - 1] = A[t][i])
  BY FirstOff
<1>2. \A R : \A y : y \in Elements(T, R) <=> \E u \in T : \E i \in DOMAIN R[u] : y = R[u][i]
  BY DEF Elements, ToSet
<1>3. Head(A[t]) \in Elements(T, A)
  BY <1>1, <1>2
<1>4. ASSUME NEW y \in Elements(T, B)
      PROVE  \E u \in T : \E i \in DOMAIN A[u] : y = A[u][i] /\ ~(u = t /\ i = 1)
  <2>1. PICK u \in T : \E i \in DOMAIN B[u] : y = B[u][i]
    BY <1>2, <1>4
  <2>2. PICK i \in DOMAIN B[u] : y = B[u][i]
    BY <2>1
  <2>3. CASE u = t
    <3>1. i \in 1..(Len(A[t]) - 1)
      BY <1>1, <2>3
    <3>2. i + 1 \in DOMAIN A[t] /\ y = A[t][i + 1] /\ i + 1 # 1
      BY <1>1, <2>2, <2>3, <3>1
    <3>3. QED
      BY <3>2
  <2>4. CASE u # t
    BY <2>2, <2>4
  <2>5. QED
    BY <2>3, <2>4
<1>5. ASSUME NEW u \in T, NEW i \in DOMAIN A[u], ~(u = t /\ i = 1)
      PROVE  A[u][i] \in Elements(T, B)
  <2>1. CASE u = t
    <3>1. i - 1 \in DOMAIN B[t] /\ B[t][i - 1] = A[t][i]
      BY <1>1, <1>5, <2>1
    <3>2. QED
      BY <1>2, <2>1, <3>1
  <2>2. CASE u # t
    <3>1. i \in DOMAIN B[u] /\ B[u][i] = A[u][i]
      BY <2>2
    <3>2. QED
      BY <1>2, <3>1
  <2>3. QED
    BY <2>1, <2>2
<1>6. \A y \in Elements(T, B) : y \in Elements(T, A)
  BY <1>2, <1>4
<1>7. ASSUME Distinct(T, A)
      PROVE  \A y : y \in Elements(T, B) <=> y \in Elements(T, A) /\ y # Head(A[t])
  <2>1. ASSUME NEW y \in Elements(T, B) PROVE y # Head(A[t])
    <3>1. PICK u \in T : \E i \in DOMAIN A[u] : y = A[u][i] /\ ~(u = t /\ i = 1)
      BY <1>4, <2>1
    <3>2. PICK i \in DOMAIN A[u] : y = A[u][i] /\ ~(u = t /\ i = 1)
      BY <3>1
    <3>3. QED
      BY <1>1, <1>7, <3>2 DEF Distinct
  <2>2. ASSUME NEW y \in Elements(T, A), y # Head(A[t]) PROVE y \in Elements(T, B)
    <3>1. PICK u \in T : \E i \in DOMAIN A[u] : y = A[u][i]
      BY <1>2, <2>2
    <3>2. PICK i \in DOMAIN A[u] : y = A[u][i]
      BY <3>1
    <3>3. QED
      BY <1>1, <1>5, <2>2, <3>2
  <2>3. QED
    BY <1>6, <2>1, <2>2
<1>8. ASSUME Distinct(T, A) PROVE Distinct(T, B)
  <2>1. ASSUME NEW u \in T, NEW v \in T, NEW i \in DOMAIN B[u], NEW j \in DOMAIN B[v], B[u][i] = B[v][j]
        PROVE  u = v /\ i = j
    <3>1. CASE u = t /\ v = t
      <4>1. i \in 1..(Len(A[t]) - 1) /\ j \in 1..(Len(A[t]) - 1)
        BY <1>1, <3>1
      <4>2. i + 1 \in DOMAIN A[t] /\ j + 1 \in DOMAIN A[t] /\ A[t][i + 1] = A[t][j + 1]
        BY <1>1, <2>1, <3>1, <4>1
      <4>3. i + 1 = j + 1
        BY <1>8, <4>2 DEF Distinct
      <4>4. QED
        BY <3>1, <4>1, <4>3
    <3>2. CASE u = t /\ v # t
      <4>1. i + 1 \in DOMAIN A[t] /\ j \in DOMAIN A[v] /\ A[t][i + 1] = A[v][j]
        BY <1>1, <2>1, <3>2
      <4>2. QED
        BY <1>8, <3>2, <4>1 DEF Distinct
    <3>3. CASE u # t /\ v = t
      <4>1. j + 1 \in DOMAIN A[t] /\ i \in DOMAIN A[u] /\ A[t][j + 1] = A[u][i]
        BY <1>1, <2>1, <3>3
      <4>2. QED
        BY <1>8, <3>3, <4>1 DEF Distinct
    <3>4. CASE u # t /\ v # t
      BY <1>8, <2>1, <3>4 DEF Distinct
    <3>5. QED
      BY <3>1, <3>2, <3>3, <3>4
  <2>2. QED
    BY <2>1 DEF Distinct
<1>9. QED
  BY <1>3, <1>6, <1>7, <1>8

\* shm_attach maps the segment it found, or finds no addresses for it.
LEMMA MapKeeps ==
    ASSUME IpcInv, NEW t \in IpcTasks, MapSegment(t)
    PROVE  IpcInv'
<1>. DEFINE k == Segment(found[t])
            size == shm_segments[k].size
            bases == {b \in 0..(VirtualPages - Given(size)) : Range0(b, Given(size)) \cap virtPages = {}}
            addr == Min(bases)
            new == [addr |-> addr, key |-> found[t]]
<1>1. /\ UNCHANGED <<msg_queues, pipes, making, heapBlocks, physPages, openFds, astray>>
      /\ found[t] # NoKey /\ found' = [found EXCEPT ![t] = NoKey]
  BY DEF MapSegment
<1>2. IpcTypes /\ MemoryInv /\ KeysInv /\ FdsInv /\ KeysOnce
  BY DEF IpcInv, KeysInv
<1>3. /\ found[t] \in IpcKeys /\ found' \in [IpcTasks -> IpcKeys \cup {NoKey}]
      /\ \A u \in IpcTasks : found'[u] # NoKey => find_shm_segment(found'[u])
  BY <1>1, <1>2 DEF IpcTypes, KeysInv
<1>4. /\ k \in DOMAIN shm_segments /\ shm_segments[k].key = found[t]
      /\ \A i \in DOMAIN shm_segments : shm_segments[i].key = found[t] => i = k
      /\ find_shm_segment(found[t])
  BY <1>1, <1>2, SegmentFound DEF KeysInv
<1>5. shm_segments \in Seq(Segments) /\ shm_segments[k] \in Segments /\ size \in Nat
      /\ shm_segments[k].ref_count \in Int
  <2>. HIDE DEF k
  <2>1. shm_segments \in Seq(Segments)
    BY <1>2 DEF IpcTypes
  <2>2. shm_segments[k] \in Segments
    BY <1>4, <2>1
  <2>3. QED
    BY <2>1, <2>2, SegmentNumbers
<1>6. CASE UNCHANGED <<virtPages, mapped, shm_segments, areas>>
  <2>1. IpcTypes' /\ MemoryInv' /\ FdsInv'
    BY <1>1, <1>2, <1>3, <1>6 DEF IpcTypes, MemoryInv, FdsInv, FdsAccounted, OwnedFds
  <2>2. KeysInv'
    BY <1>1, <1>2, <1>3, <1>6 DEF KeysInv, KeysOnce, Areas, find_shm_segment
  <2>3. ~astray' => AreasAgree'
    BY <1>1, <1>6, AreasUntouched DEF IpcInv, KeysInv
  <2>4. QED
    BY <2>1, <2>2, <2>3 DEF IpcInv
<1>7. CASE bases # {}
  <2>1. /\ virtPages' = virtPages \cup Range0(addr, Given(size))
        /\ mapped' = mapped \cup Range0(addr, Used(size))
        /\ shm_segments' = [shm_segments EXCEPT ![k].ref_count = (@ + 1) % RefWrap]
        /\ areas' = [areas EXCEPT ![t] = <<new>> \o @]
    BY <1>7 DEF MapSegment
  <2>2. Given(size) \in Nat \ {0} /\ Used(size) \in Nat /\ Used(size) <= Given(size)
    BY <1>5, PageCounts
  <2>3. addr \in bases
    <3>1. bases \in SUBSET Nat
      OBVIOUS
    <3>2. QED
      BY <1>7, <3>1, Least
  <2>4. addr \in 0..(VirtualPages - 1) /\ addr \in Nat /\ Range0(addr, Given(size)) \cap virtPages = {}
    BY <2>2, <2>3, IpcAssumption
  <2>5. new \in AreaRecords /\ new.addr = addr /\ new.key = found[t]
    BY <1>3, <2>4 DEF AreaRecords
  <2>. HIDE DEF new, addr, bases, size, k
  <2>6. /\ SameSegments /\ DOMAIN shm_segments' = DOMAIN shm_segments
        /\ shm_segments'[k].ref_count = (shm_segments[k].ref_count + 1) % RefWrap
        /\ \A i \in DOMAIN shm_segments : i # k => shm_segments'[i] = shm_segments[i]
    <3>1. shm_segments' = [shm_segments EXCEPT ![k].ref_count = (shm_segments[k].ref_count + 1) % RefWrap]
      BY <1>4, <1>5, <2>1
    <3>2. shm_segments[k].ref_count + 1 \in Int
      BY <1>5
    <3>3. QED
      BY <1>4, <1>5, <3>1, <3>2, CountChanges
  <2>7. /\ areas \in [IpcTasks -> Seq(AreaRecords)] /\ areas' \in [IpcTasks -> Seq(AreaRecords)]
        /\ areas'[t] = <<new>> \o areas[t] /\ \A u \in IpcTasks \ {t} : areas'[u] = areas[u]
    <3>1. areas \in [IpcTasks -> Seq(AreaRecords)]
      BY <1>2 DEF IpcTypes
    <3>2. <<new>> \o areas[t] \in Seq(AreaRecords)
      BY <2>5, <3>1, Prepended
    <3>3. QED
      BY <2>1, <3>1, <3>2
  <2>8. IpcTypes'
    BY <1>1, <1>2, <1>3, <2>6, <2>7 DEF IpcTypes, SameSegments
  <2>9. Areas' = Areas \cup {new}
    <3>1. ToSet(areas'[t]) = ToSet(areas[t]) \cup {new}
      BY <2>5, <2>7, Prepended
    <3>2. \A u \in IpcTasks \ {t} : ToSet(areas'[u]) = ToSet(areas[u])
      BY <2>7
    <3>3. QED
      BY <3>1, <3>2 DEF Areas
  <2>10. MemoryInv' /\ KeysInv' /\ FdsInv'
    <3>1. \A a \in Areas' : find_shm_segment(a.key)
      BY <1>2, <1>4, <2>5, <2>9 DEF KeysInv
    <3>2. QED
      BY <1>1, <1>3, <2>6, <3>1, SegmentsStay
  <2>11. ASSUME ~astray' PROVE AreasAgree'
    <3>1. AreasAgree
      BY <1>1, <2>11 DEF IpcInv
    <3>2. \A a \in Areas' : SizeOf(a)' = SizeOf(a)
      BY <1>2, <1>4, <1>5, <2>5, <2>6, <2>9, SameSizes DEF SizeOf, KeysInv
    <3>3. SizeOf(new) = size
      BY <2>5 DEF SizeOf, size, k
    <3>4. /\ \A a \in Areas' : GivenPages(a)' = GivenPages(a) /\ UsedPages(a)' = UsedPages(a)
          /\ GivenPages(new) = Range0(addr, Given(size)) /\ UsedPages(new) = Range0(addr, Used(size))
      BY <2>5, <3>2, <3>3 DEF GivenPages, UsedPages
    <3>5. /\ virtPages = UNION {GivenPages(a) : a \in Areas}
          /\ mapped = UNION {UsedPages(a) : a \in Areas}
      BY <3>1 DEF AreasAgree
    <3>6. \A a \in Areas : GivenPages(a) \cap GivenPages(new) = {}
      BY <2>4, <3>4, <3>5
    <3>7. new \notin Areas
      <4>1. addr \in GivenPages(new)
        BY <2>2, <2>4, <3>4 DEF Range0
      <4>2. QED
        BY <3>6, <4>1
    <3>8. ASSUME NEW i \in DOMAIN shm_segments
          PROVE  shm_segments'[i].ref_count = Cardinality({a \in Areas' : a.key = shm_segments[i].key})
      <4>1. /\ shm_segments[i].ref_count = Cardinality(AreasOf(shm_segments[i].key))
            /\ AreasOf(shm_segments[i].key) = {a \in Areas : a.key = shm_segments[i].key}
        BY <3>1 DEF AreasAgree, AreasOf
      <4>2. CASE i = k
        <5>. DEFINE old == {a \in Areas : a.key = found[t]}
        <5>1. {a \in Areas' : a.key = found[t]} = old \cup {new} /\ new \notin old
          BY <2>5, <2>9, <3>7
        <5>2. old \in SUBSET AreaRecords /\ \A a \in old : a.key = found[t]
          BY <1>2, AreaFacts
        <5>3. old \cup {new} \in SUBSET AreaRecords /\ \A a \in old \cup {new} : a.key = found[t]
          BY <2>5, <5>2
        <5>. HIDE DEF old
        <5>4. IsFiniteSet(old) /\ Cardinality(old) \in Nat
          BY <5>2, FewAreas
        <5>5. Cardinality(old \cup {new}) = Cardinality(old) + 1
          BY <5>1, <5>4, FS_AddElement
        <5>6. Cardinality(old \cup {new}) \in 0..VirtualPages
          BY <5>3, FewAreas
        <5>7. Cardinality(old) + 1 \in 0..(RefWrap - 1)
          BY <5>4, <5>5, <5>6, IpcAssumption
        <5>8. (Cardinality(old) + 1) % RefWrap = Cardinality(old) + 1
          BY <5>7, CountRemainder
        <5>9. shm_segments[k].ref_count = Cardinality(old)
          BY <1>4, <4>1, <4>2 DEF old
        <5>10. QED
          BY <1>4, <2>6, <4>2, <5>1, <5>5, <5>8, <5>9
      <4>3. CASE i # k
        <5>1. shm_segments[i].key # found[t]
          BY <1>4, <4>3
        <5>2. {a \in Areas' : a.key = shm_segments[i].key} = {a \in Areas : a.key = shm_segments[i].key}
          BY <2>5, <2>9, <5>1
        <5>3. QED
          BY <2>6, <4>1, <4>3, <5>2
      <4>4. QED
        BY <4>2, <4>3
    <3>9. Distinct(IpcTasks, areas')
      <4>1. Distinct(IpcTasks, areas)
        BY <3>1 DEF AreasAgree, Distinct
      <4>2. new \notin Elements(IpcTasks, areas)
        BY <3>7 DEF Areas, Elements
      <4>3. QED
        <5>1. MoreAt(IpcTasks, AreaRecords, areas, areas', t, new)
          BY <2>5, <2>7 DEF MoreAt
        <5>2. QED
          BY <4>1, <4>2, <5>1, OneMore
    <3>10. \A a, b \in Areas' : GivenPages(a)' \cap GivenPages(b)' # {} => a = b
      <4>1. \A a, b \in Areas : GivenPages(a) \cap GivenPages(b) # {} => a = b
        BY <3>1 DEF AreasAgree
      <4>2. \A a, b \in Areas \cup {new} : GivenPages(a) \cap GivenPages(b) # {} => a = b
        BY <3>6, <4>1
      <4>3. QED
        BY <2>9, <3>4, <4>2
    <3>11. /\ mapped' = UNION {UsedPages(a)' : a \in Areas'}
           /\ virtPages' = UNION {GivenPages(a)' : a \in Areas'}
      <4>1. /\ {UsedPages(a)' : a \in Areas'} = {UsedPages(a) : a \in Areas} \cup {UsedPages(new)}
            /\ {GivenPages(a)' : a \in Areas'} = {GivenPages(a) : a \in Areas} \cup {GivenPages(new)}
        BY <2>9, <3>4
      <4>2. QED
        BY <2>1, <3>4, <3>5, <4>1
    <3>12. \A i \in DOMAIN shm_segments' :
              shm_segments'[i].ref_count = Cardinality({a \in Areas' : a.key = shm_segments'[i].key})
      BY <2>6, <3>8 DEF SameSegments
    <3>13. QED
      BY <3>9, <3>10, <3>11, <3>12 DEF AreasAgree, AreasOf, Distinct
  <2>12. QED
    BY <2>8, <2>10, <2>11 DEF IpcInv
<1>8. QED
  BY <1>6, <1>7 DEF MapSegment

\* shm_detach, of whichever segment it takes.
LEMMA DetachKeeps ==
    ASSUME IpcInv, NEW t \in IpcTasks, shm_detach(t)
    PROVE  IpcInv'
<1>. DEFINE area == Head(areas[t])
            seg == shm_segments[1]
<1>1. IpcTypes /\ MemoryInv /\ KeysInv /\ FdsInv /\ KeysOnce
  BY DEF IpcInv, KeysInv
<1>2. areas \in [IpcTasks -> Seq(AreaRecords)] /\ areas[t] \in Seq(AreaRecords) /\ areas[t] # <<>>
  BY <1>1 DEF IpcTypes, shm_detach
<1>3. /\ areas' \in [IpcTasks -> Seq(AreaRecords)]
      /\ areas'[t] = Tail(areas[t]) /\ \A u \in IpcTasks \ {t} : areas'[u] = areas[u]
  <2>1. Tail(areas[t]) \in Seq(AreaRecords) /\ areas' = [areas EXCEPT ![t] = Tail(@)]
    BY <1>2 DEF shm_detach
  <2>2. QED
    BY <1>2, <2>1
<1>4. LessAt(IpcTasks, AreaRecords, areas, areas', t)
  BY <1>2, <1>3 DEF LessAt
<1>5. (\A a \in Areas' : a \in Areas) /\ area \in Areas
  <2>1. /\ \A a \in Elements(IpcTasks, areas') : a \in Elements(IpcTasks, areas)
        /\ area \in Elements(IpcTasks, areas)
    BY <1>4, OneLess
  <2>2. Areas = Elements(IpcTasks, areas) /\ Areas' = Elements(IpcTasks, areas')
    BY DEF Areas, Elements
  <2>3. QED
    BY <2>1, <2>2
<1>. HIDE DEF area
<1>6. /\ shm_segments \in Seq(Segments) /\ 1 \in DOMAIN shm_segments
      /\ Head(shm_segments) = seg /\ seg \in Segments /\ seg.ref_count \in Int
  <2>1. shm_segments \in Seq(Segments)
    BY <1>1 DEF IpcTypes
  <2>2. \E i \in DOMAIN shm_segments : shm_segments[i].key = area.key
    BY <1>1, <1>5 DEF KeysInv, find_shm_segment
  <2>3. Len(shm_segments) \in Nat \ {0}
    BY <2>1, <2>2
  <2>4. 1 \in DOMAIN shm_segments /\ Head(shm_segments) = seg /\ seg \in Segments
    BY <2>1, <2>3
  <2>5. QED
    BY <2>1, <2>4, SegmentNumbers
<1>. HIDE DEF seg
<1>7. /\ UNCHANGED <<msg_queues, pipes, making, found, heapBlocks, physPages, openFds>>
      /\ mapped' = mapped \ Range0(area.addr, Used(seg.size))
      /\ virtPages' = virtPages \ Range0(area.addr, Given(seg.size))
      /\ shm_segments' = [shm_segments EXCEPT ![1].ref_count = (seg.ref_count - 1) % RefWrap]
      /\ ~astray' => ~astray /\ seg.key = area.key
  <2>1. /\ UNCHANGED <<msg_queues, pipes, making, found, heapBlocks, physPages, openFds>>
        /\ mapped' = mapped \ Range0(area.addr, Used(seg.size))
        /\ virtPages' = virtPages \ Range0(area.addr, Given(seg.size))
        /\ shm_segments' = [shm_segments EXCEPT ![1].ref_count = (@ - 1) % RefWrap]
    BY <1>6 DEF shm_detach, area
  <2>2. shm_segments' = [shm_segments EXCEPT ![1].ref_count = (seg.ref_count - 1) % RefWrap]
    BY <1>6, <2>1 DEF seg
  <2>3. astray' = (astray \/ seg.key # area.key)
    BY <1>6 DEF shm_detach, area
  <2>4. ~astray' => ~astray /\ seg.key = area.key
    BY <2>3, Zenon
  <2>5. QED
    BY <2>1, <2>2, <2>4
<1>8. /\ SameSegments /\ DOMAIN shm_segments' = DOMAIN shm_segments
      /\ shm_segments'[1].ref_count = (seg.ref_count - 1) % RefWrap
      /\ \A i \in DOMAIN shm_segments : i # 1 => shm_segments'[i] = shm_segments[i]
  <2>1. seg.ref_count - 1 \in Int
    BY <1>6
  <2>2. QED
    BY <1>6, <1>7, <2>1, CountChanges
<1>9. IpcTypes'
  BY <1>1, <1>3, <1>7, <1>8 DEF IpcTypes, SameSegments
<1>10. MemoryInv' /\ KeysInv' /\ FdsInv'
  <2>1. \A a \in Areas' : find_shm_segment(a.key)
    BY <1>1, <1>5 DEF KeysInv
  <2>2. \A u \in IpcTasks : found'[u] # NoKey => find_shm_segment(found'[u])
    BY <1>1, <1>7 DEF KeysInv
  <2>3. QED
    BY <1>7, <1>8, <2>1, <2>2, SegmentsStay
<1>11. ASSUME ~astray' PROVE AreasAgree'
  <2>1. AreasAgree /\ seg.key = area.key
    BY <1>7, <1>11 DEF IpcInv
  <2>2. Distinct(IpcTasks, areas') /\ \A a : a \in Areas' <=> a \in Areas /\ a # area
    <3>1. Distinct(IpcTasks, areas)
      BY <2>1 DEF AreasAgree, Distinct
    <3>2. Areas = Elements(IpcTasks, areas) /\ Areas' = Elements(IpcTasks, areas')
      BY DEF Areas, Elements
    <3>3. QED
      BY <1>4, <3>1, <3>2, OneLess DEF area
  <2>3. Areas' = Areas \ {area}
    BY <2>2
  <2>4. Segment(area.key) = 1 /\ SizeOf(area) = seg.size
    <3>1. find_shm_segment(area.key) /\ shm_segments[1].key = area.key
      BY <1>1, <1>5, <2>1 DEF KeysInv, seg
    <3>2. QED
      BY <1>1, <1>6, <3>1, SegmentFound DEF SizeOf, seg
  <2>5. \A a \in Areas : SizeOf(a)' = SizeOf(a)
    BY <1>1, <1>6, <1>8, SameSizes DEF SizeOf, KeysInv
  <2>6. /\ \A a \in Areas : GivenPages(a)' = GivenPages(a) /\ UsedPages(a)' = UsedPages(a)
        /\ GivenPages(area) = Range0(area.addr, Given(seg.size))
        /\ UsedPages(area) = Range0(area.addr, Used(seg.size))
    BY <2>4, <2>5 DEF GivenPages, UsedPages
  <2>7. /\ \A a, b \in Areas : GivenPages(a) \cap GivenPages(b) # {} => a = b
        /\ mapped = UNION {UsedPages(a) : a \in Areas}
        /\ virtPages = UNION {GivenPages(a) : a \in Areas}
    BY <2>1 DEF AreasAgree
  <2>8. \A a \in Areas : UsedPages(a) \subseteq GivenPages(a)
    BY <1>1, AreaFacts
  <2>9. \A a, b \in Areas' : GivenPages(a)' \cap GivenPages(b)' # {} => a = b
    BY <2>3, <2>6, <2>7
  <2>10. mapped' = UNION {UsedPages(a)' : a \in Areas'}
    <3>1. {UsedPages(a)' : a \in Areas'} = {UsedPages(a) : a \in Areas \ {area}}
      BY <2>3, <2>6
    <3>2. \A a \in Areas \ {area} : UsedPages(a) \cap UsedPages(area) = {}
      <4>1. \A a \in Areas \ {area} : GivenPages(a) \cap GivenPages(area) = {}
        BY <1>5, <2>7
      <4>2. QED
        BY <1>5, <2>8, <4>1
    <3>3. UNION {UsedPages(a) : a \in Areas \ {area}} = (UNION {UsedPages(a) : a \in Areas}) \ UsedPages(area)
      BY <1>5, <3>2
    <3>4. QED
      BY <1>7, <2>6, <2>7, <3>1, <3>3
  <2>11. virtPages' = UNION {GivenPages(a)' : a \in Areas'}
    <3>1. {GivenPages(a)' : a \in Areas'} = {GivenPages(a) : a \in Areas \ {area}}
      BY <2>3, <2>6
    <3>2. \A a \in Areas \ {area} : GivenPages(a) \cap GivenPages(area) = {}
      BY <1>5, <2>7
    <3>3. UNION {GivenPages(a) : a \in Areas \ {area}} = (UNION {GivenPages(a) : a \in Areas}) \ GivenPages(area)
      BY <1>5, <3>2
    <3>4. QED
      BY <1>7, <2>6, <2>7, <3>1, <3>3
  <2>12. ASSUME NEW i \in DOMAIN shm_segments
         PROVE  shm_segments'[i].ref_count = Cardinality({a \in Areas' : a.key = shm_segments[i].key})
    <3>1. /\ shm_segments[i].ref_count = Cardinality(AreasOf(shm_segments[i].key))
          /\ AreasOf(shm_segments[i].key) = {a \in Areas : a.key = shm_segments[i].key}
      BY <2>1 DEF AreasAgree, AreasOf
    <3>2. CASE i = 1
      <4>. DEFINE old == {a \in Areas : a.key = area.key}
      <4>1. {a \in Areas' : a.key = area.key} = old \ {area} /\ area \in old
        BY <1>5, <2>3
      <4>2. old \in SUBSET AreaRecords /\ \A a \in old : a.key = area.key
        BY <1>1, AreaFacts
      <4>3. seg.ref_count = Cardinality(old) /\ shm_segments[i].key = area.key
        BY <2>1, <3>1, <3>2 DEF seg
      <4>. HIDE DEF old
      <4>4. IsFiniteSet(old) /\ Cardinality(old) \in 0..VirtualPages
        BY <4>2, FewAreas
      <4>5. /\ Cardinality(old \ {area}) = Cardinality(old) - 1
            /\ IsFiniteSet(old \ {area}) /\ Cardinality(old \ {area}) \in Nat
        BY <4>1, <4>4, FS_RemoveElement, FS_CardinalityType
      <4>6. Cardinality(old) - 1 \in 0..(RefWrap - 1)
        BY <4>4, <4>5, IpcAssumption
      <4>7. (Cardinality(old) - 1) % RefWrap = Cardinality(old) - 1
        BY <4>6, CountRemainder
      <4>8. QED
        BY <1>8, <3>2, <4>1, <4>3, <4>5, <4>7
    <3>3. CASE i # 1
      <4>1. shm_segments[i].key # area.key
        BY <1>1, <1>6, <2>1, <3>3 DEF KeysOnce, seg
      <4>2. {a \in Areas' : a.key = shm_segments[i].key} = {a \in Areas : a.key = shm_segments[i].key}
        BY <2>3, <4>1
      <4>3. QED
        BY <1>8, <3>1, <3>3, <4>2
    <3>4. QED
      BY <3>2, <3>3
  <2>13. \A i \in DOMAIN shm_segments' :
            shm_segments'[i].ref_count = Cardinality({a \in Areas' : a.key = shm_segments'[i].key})
    BY <1>8, <2>12 DEF SameSegments
  <2>14. QED
    BY <2>2, <2>9, <2>10, <2>11, <2>13 DEF AreasAgree, AreasOf, Distinct
<1>12. QED
  BY <1>9, <1>10, <1>11 DEF IpcInv

\* ipc_init leaves the tables empty.
LEMMA IpcInitially == ipc_init => IpcInv
<1>. SUFFICES ASSUME ipc_init PROVE IpcInv
  OBVIOUS
<1>1. /\ msg_queues = <<>> /\ pipes = <<>> /\ shm_segments = <<>>
      /\ making = [key |-> NoKey, size |-> 0] /\ making.key = NoKey
      /\ found = [t \in IpcTasks |-> NoKey] /\ areas = [t \in IpcTasks |-> <<>>]
      /\ heapBlocks = 0 /\ physPages = 0 /\ virtPages = {} /\ mapped = {} /\ openFds = {}
  BY DEF ipc_init
<1>2. IpcTypes
  BY <1>1 DEF IpcTypes
<1>3. Areas = {} /\ OwnedFds = {} /\ DOMAIN shm_segments = {} /\ Len(shm_segments) = 0
  BY <1>1 DEF Areas, OwnedFds, ToSet
<1>4. MemoryInv
  <2>. DEFINE none == [i \in 0..0 |-> 0]
  <2>1. IsTotal(none, shm_segments)
    <3>1. \A i \in 0..0 : i = 0
      OBVIOUS
    <3>2. none = [i \in 0..0 |-> IF i = 0 THEN 0 ELSE none[i - 1] + Given(shm_segments[0 + 1 - i].size)]
      BY <3>1
    <3>3. QED
      BY <1>3, <3>2 DEF IsTotal
  <2>2. none[0] = 0
    OBVIOUS
  <2>3. QED
    BY <1>1, <1>3, <2>1, <2>2 DEF MemoryInv
<1>5. KeysInv
  BY <1>1, <1>3 DEF KeysInv, KeysOnce
<1>6. FdsInv
  BY <1>1, <1>3, FS_EmptySet DEF FdsInv, FdsAccounted
<1>7. AreasAgree
  BY <1>1, <1>3 DEF AreasAgree
<1>8. QED
  BY <1>2, <1>4, <1>5, <1>6, <1>7 DEF IpcInv

\* IpcInv holds in every state of the IPC tables: besides what the lists own it
\* speaks of the segment that is being made and of the keys that were just looked up.
THEOREM IpcInvariance == IpcSpec => []IpcInv
<1>1. IpcInv /\ [IpcNext]_ipcvars => IpcInv'
  <2>. SUFFICES ASSUME IpcInv, [IpcNext]_ipcvars PROVE IpcInv'
    OBVIOUS
  <2>1. CASE UNCHANGED ipcvars
    <3>1. IpcTypes' /\ MemoryInv' /\ KeysInv' /\ FdsInv'
      <4>1. IpcTypes' /\ MemoryInv'
        BY <2>1 DEF ipcvars, IpcInv, IpcTypes, MemoryInv
      <4>2. KeysInv'
        BY <2>1 DEF ipcvars, IpcInv, KeysInv, KeysOnce, Areas, find_shm_segment
      <4>3. FdsInv'
        BY <2>1 DEF ipcvars, IpcInv, FdsInv, FdsAccounted, OwnedFds
      <4>4. QED
        BY <4>1, <4>2, <4>3
    <3>2. ~astray' => AreasAgree'
      BY <2>1, AreasUntouched DEF ipcvars, IpcInv, KeysInv
    <3>3. QED
      BY <3>1, <3>2 DEF IpcInv
  <2>2. QED
    BY <2>1, MsgqKeeps, PipeKeeps, CreateKeeps, LinkKeeps, AttachKeeps, MapKeeps, DetachKeeps DEF IpcNext
<1>2. QED
  BY <1>1, IpcInitially, PTL DEF IpcSpec

\* The books of the IPC objects agree, for any number of tasks, keys, sizes, pages
\* and descriptors: the memory taken is that of the objects on the lists, no key
\* is there twice, every descriptor has one pipe, and until a detach has taken the
\* wrong segment reference counts, areas and mappings say the same.
THEOREM IpcBooksAgree == IpcSpec => []IpcAccounted
<1>1. IpcInv => IpcAccounted
  <2>. SUFFICES ASSUME IpcInv PROVE IpcAccounted
    OBVIOUS
  <2>1. PICK total : IsTotal(total, shm_segments) /\ physPages = total[Len(shm_segments)]
    BY DEF IpcInv, MemoryInv
  <2>2. shm_segments \in Seq(Segments)
    BY DEF IpcInv, IpcTypes
  <2>3. SegmentPages = total[Len(shm_segments)]
    BY <2>1, <2>2, TotalIsUnique
  <2>4. MemoryAccounted
    BY <2>1, <2>3 DEF IpcInv, MemoryInv, MemoryAccounted
  <2>5. QED
    BY <2>4 DEF IpcInv, IpcAccounted, KeysInv, FdsInv
<1>2. QED
  BY <1>1, IpcInvariance, PTL
=============================================================================
