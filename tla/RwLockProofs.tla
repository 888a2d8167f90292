---------------------------- MODULE RwLockProofs ----------------------------
(***************************************************************************)
(* Proofs about rwlock.c for any number of tasks: a writer is alone, and   *)
(* no task sleeps on a condition without somebody who will wake it.        *)
(***************************************************************************)
EXTENDS RwLock, MonitorFacts, FiniteSetTheorems

Reading == {t \in Tasks : holds[t] = "read"}
LockOps == {"read_lock", "read_trylock", "write_lock", "write_trylock"}

\* The fields of rwlock_t say who holds the lock.
HoldersInv ==
    /\ readers_count = Cardinality(Reading)
    /\ writer_active <=> writer_owner # NULL
    /\ \A t \in Tasks : holds[t] = "write" <=> writer_owner = t
    /\ writer_active => readers_count = 0

\* What a task holds in the course of its call: before the body has run through,
\* what it held when it called; and a writer leaves only with the lock.
CallInv ==
    /\ \A t \in Tasks : op[t] = "none" <=> at[t] = "idle"
    /\ \A t \in Tasks : at[t] \in {"lock", "wait", "body"} =>
          /\ op[t] \in LockOps => holds[t] = "nothing"
          /\ op[t] = "read_unlock" => holds[t] = "read"
          /\ op[t] = "write_unlock" => holds[t] # "read"
    /\ \A t \in Tasks : at[t] = "unlock" /\ op[t] = "write_lock" => holds[t] = "write"
    /\ \A t \in Tasks : /\ t \in Queued(cond["readers"]) => op[t] = "read_lock"
                        /\ t \in Queued(cond["writers"]) => op[t] = "write_lock"

RwTypeOK ==
    /\ readers_count \in Nat
    /\ writer_active \in BOOLEAN
    /\ writer_owner \in Tasks \cup {NULL}
    /\ op \in [Tasks -> Ops]
    /\ holds \in [Tasks -> {"nothing", "read", "write"}]

\* The inductive invariant.
IInv == MonitorInv /\ RwTypeOK /\ HoldersInv /\ CallInv /\ SleepersHaveWaker

-----------------------------------------------------------------------------
(* The invariant holds initially and is kept by every action. *)

\* A lock that rwlock_init has just set up satisfies the invariant.
LEMMA InitIInv == Init => IInv
<1> SUFFICES ASSUME Init PROVE IInv
  OBVIOUS
<1> USE SyncAssumption, RwLockAssumption DEF Init
<1>1. MonitorInv
  BY MonitorInitInv
<1>2. RwTypeOK
  BY DEF RwTypeOK, Ops
<1>3. HoldersInv
  <2>1. Reading = {}
    BY DEF Reading
  <2>2. QED
    BY <2>1, FS_EmptySet DEF HoldersInv
<1>4. cond["readers"] = <<>> /\ cond["writers"] = <<>> /\ \A t \in Tasks : at[t] = "idle"
  BY DEF MonitorInit
<1>5. CallInv /\ SleepersHaveWaker
  BY <1>4, QueuedBasics DEF CallInv, SleepersHaveWaker
<1>6. QED
  BY <1>1, <1>2, <1>3, <1>5 DEF IInv

\* Calling one of the operations, up to its first mutex_lock.
LEMMA CallKeeps ==
    ASSUME IInv, NEW t \in Tasks, Call(t)
    PROVE  IInv'
<1> USE SyncAssumption, RwLockAssumption DEF IInv
<1>1. PICK o \in Ops \ {"none"} :
        /\ o \in LockOps => holds[t] = "nothing"
        /\ o = "read_unlock" => holds[t] = "read"
        /\ o = "write_unlock" => holds[t] # "read"
        /\ Start(t, o) /\ Enter(t)
  BY DEF Call, TryEnter, Enter, Ops, LockOps
<1>2. /\ op[t] = "none" /\ op' = [op EXCEPT ![t] = o] /\ holds' = holds /\ cond' = cond
      /\ UNCHANGED <<readers_count, writer_active, writer_owner>>
      /\ Runs(t, "idle") /\ Lock(t)
  BY <1>1 DEF Start, Enter
<1>3. MonitorInv'
  BY <1>2, LockKeeps
<1>4. /\ at' \in [Tasks -> Places] /\ at'[t] \in {"body", "lock"}
      /\ \A u \in Tasks \ {t} : at'[u] = at[u]
  BY <1>2 DEF Lock, MonitorInv, MonitorTypeOK, Places
<1>5. RwTypeOK'
  BY <1>2 DEF RwTypeOK
<1>6. HoldersInv'
  BY <1>2 DEF HoldersInv, Reading
<1>7. t \notin Queued(cond["readers"]) /\ t \notin Queued(cond["writers"])
  BY <1>2 DEF MonitorInv, CondInv, Runs
<1>8. op'[t] = o /\ \A u \in Tasks \ {t} : op'[u] = op[u]
  BY <1>2 DEF RwTypeOK
<1>9. CallInv'
  BY <1>1, <1>2, <1>4, <1>7, <1>8 DEF CallInv
<1>10. SleepersHaveWaker'
  BY <1>2, <1>8 DEF SleepersHaveWaker
<1>11. QED
  BY <1>3, <1>5, <1>6, <1>9, <1>10

\* Returning from mutex_lock, and mutex_lock after a wake-up.
LEMMA GrantedRelockKeeps ==
    ASSUME IInv, NEW t \in Tasks, Granted(t) \/ Relock(t), UNCHANGED rwVars
    PROVE  IInv'
<1> USE SyncAssumption, RwLockAssumption DEF IInv
<1>1. MonitorInv'
  BY GrantedKeeps, LockKeeps DEF Relock
<1>2. /\ cond' = cond /\ at[t] \in {"lock", "wait"}
      /\ at'[t] \in {"body", "lock"} /\ \A u \in Tasks \ {t} : at'[u] = at[u]
  BY DEF Granted, Relock, Lock, Runs, MonitorInv, MonitorTypeOK
<1>3. RwTypeOK' /\ HoldersInv' /\ SleepersHaveWaker'
  BY <1>2 DEF rwVars, RwTypeOK, HoldersInv, Reading, SleepersHaveWaker
<1>4. CallInv'
  BY <1>2 DEF rwVars, CallInv
<1>5. QED
  BY <1>1, <1>3, <1>4

\* The return from an operation.
LEMMA ReturnKeeps ==
    ASSUME IInv, NEW t \in Tasks, Return(t)
    PROVE  IInv'
<1> USE SyncAssumption, RwLockAssumption DEF IInv
<1>1. MonitorInv'
  BY LeaveKeeps DEF Return
<1>2. /\ cond' = cond /\ holds' = holds
      /\ UNCHANGED <<readers_count, writer_active, writer_owner>>
      /\ at[t] = "unlock" /\ at'[t] = "idle" /\ \A u \in Tasks \ {t} : at'[u] = at[u]
      /\ op' \in [Tasks -> Ops]
      /\ op'[t] = "none" /\ \A u \in Tasks \ {t} : op'[u] = op[u]
  BY DEF Return, Leave, Runs, MonitorInv, MonitorTypeOK, RwTypeOK, Ops
<1>3. RwTypeOK' /\ HoldersInv'
  BY <1>2 DEF RwTypeOK, HoldersInv, Reading
<1>4. t \notin Queued(cond["readers"]) /\ t \notin Queued(cond["writers"])
  BY <1>2 DEF MonitorInv, CondInv
<1>5. CallInv'
  BY <1>2, <1>4 DEF CallInv
<1>6. SleepersHaveWaker'
  <2>1. op[t] = "write_lock" => holds[t] = "write"
    BY <1>2 DEF CallInv
  <2>2. QED
    BY <1>2, <2>1 DEF SleepersHaveWaker
<1>7. QED
  BY <1>1, <1>3, <1>5, <1>6

-----------------------------------------------------------------------------
(* The bodies of the operations. *)

\* What holds of a task in the body of an operation.
LEMMA InBody ==
    ASSUME IInv, NEW t \in Tasks, Runs(t, "body")
    PROVE  /\ at[t] = "body" /\ state[t] = "TASK_READY"
           /\ t \notin Queued(cond["readers"]) /\ t \notin Queued(cond["writers"])
           /\ op[t] \in LockOps => holds[t] = "nothing"
           /\ op[t] = "read_unlock" => holds[t] = "read"
           /\ op[t] = "write_unlock" => holds[t] # "read"
BY RwLockAssumption DEF IInv, Runs, MonitorInv, CondInv, CallInv

\* A call that ends without an effect: mutex_trylock's success was in vain, or the
\* caller of rwlock_write_unlock is not the owner.
LEMMA RefusedKeeps ==
    ASSUME IInv, NEW t \in Tasks, Runs(t, "body"), op[t] # "write_lock",
           Finish(t, NULL), UNCHANGED rwVars
    PROVE  IInv'
<1> USE SyncAssumption, RwLockAssumption DEF IInv
<1>1. MonitorInv' /\ at' = [at EXCEPT ![t] = "unlock"] /\ cond' = cond
  BY FinishKeeps
<1>2. at[t] = "body" /\ at'[t] = "unlock" /\ \A u \in Tasks \ {t} : at'[u] = at[u]
  BY <1>1 DEF Runs, MonitorInv, MonitorTypeOK
<1>3. RwTypeOK' /\ HoldersInv' /\ SleepersHaveWaker'
  BY <1>1 DEF rwVars, RwTypeOK, HoldersInv, Reading, SleepersHaveWaker
<1>4. CallInv'
  BY <1>1, <1>2 DEF rwVars, CallInv
<1>5. QED
  BY <1>1, <1>3, <1>4

\* Taking the lock for reading.
LEMMA TakeReadKeeps ==
    ASSUME IInv, NEW t \in Tasks, Runs(t, "body"),
           op[t] \in {"read_lock", "read_trylock"}, ~MustWaitToRead, TakeRead(t)
    PROVE  IInv'
<1> USE SyncAssumption, RwLockAssumption DEF IInv
<1>1. MonitorInv' /\ at' = [at EXCEPT ![t] = "unlock"] /\ cond' = cond
  BY FinishKeeps DEF TakeRead
<1>2. at[t] = "body" /\ at'[t] = "unlock" /\ \A u \in Tasks \ {t} : at'[u] = at[u]
  BY <1>1 DEF Runs, MonitorInv, MonitorTypeOK
<1>3. /\ holds[t] = "nothing" /\ holds' = [holds EXCEPT ![t] = "read"]
      /\ readers_count' = readers_count + 1 /\ ~writer_active
      /\ UNCHANGED <<writer_active, writer_owner, op>>
  BY InBody DEF TakeRead, LockOps, MustWaitToRead
<1>4. /\ holds'[t] = "read" /\ \A u \in Tasks \ {t} : holds'[u] = holds[u]
      /\ RwTypeOK'
  BY <1>3 DEF RwTypeOK
<1>5. HoldersInv'
  <2>1. Reading' = Reading \cup {t} /\ t \notin Reading
    BY <1>3, <1>4 DEF Reading
  <2>2. IsFiniteSet(Reading)
    BY FS_Subset DEF Reading
  <2>3. Cardinality(Reading') = Cardinality(Reading) + 1
    BY <2>1, <2>2, FS_AddElement
  <2>4. QED
    BY <1>3, <1>4, <2>3 DEF HoldersInv
<1>6. CallInv'
  BY <1>1, <1>2, <1>3, <1>4 DEF CallInv
<1>7. SleepersHaveWaker'
  BY <1>1, <1>3, <1>4 DEF SleepersHaveWaker, RwTypeOK
<1>8. QED
  BY <1>1, <1>4, <1>5, <1>6, <1>7

\* Taking the lock for writing.
LEMMA TakeWriteKeeps ==
    ASSUME IInv, NEW t \in Tasks, Runs(t, "body"),
           op[t] \in {"write_lock", "write_trylock"}, ~MustWaitToWrite, TakeWrite(t)
    PROVE  IInv'
<1> USE SyncAssumption, RwLockAssumption DEF IInv
<1>1. MonitorInv' /\ at' = [at EXCEPT ![t] = "unlock"] /\ cond' = cond
  BY FinishKeeps DEF TakeWrite
<1>2. at[t] = "body" /\ at'[t] = "unlock" /\ \A u \in Tasks \ {t} : at'[u] = at[u]
  BY <1>1 DEF Runs, MonitorInv, MonitorTypeOK
<1>3. /\ holds[t] = "nothing" /\ holds' = [holds EXCEPT ![t] = "write"]
      /\ readers_count = 0 /\ ~writer_active
      /\ writer_active' = TRUE /\ writer_owner' = t
      /\ UNCHANGED <<readers_count, op>>
  BY InBody DEF TakeWrite, LockOps, MustWaitToWrite, RwTypeOK
<1>4. /\ holds'[t] = "write" /\ \A u \in Tasks \ {t} : holds'[u] = holds[u]
      /\ RwTypeOK'
  BY <1>3 DEF RwTypeOK
<1>5. HoldersInv'
  <2>1. Reading' = Reading
    BY <1>3, <1>4 DEF Reading
  <2>2. QED
    BY <1>3, <1>4, <2>1 DEF HoldersInv
<1>6. CallInv'
  BY <1>1, <1>2, <1>3, <1>4 DEF CallInv
<1>7. SleepersHaveWaker'
  BY <1>3 DEF SleepersHaveWaker
<1>8. QED
  BY <1>1, <1>4, <1>5, <1>6, <1>7

\* Going to sleep until the lock may be free.
LEMMA SleepKeeps ==
    ASSUME IInv, NEW t \in Tasks, Runs(t, "body"), UNCHANGED rwVars,
           \/ op[t] = "read_lock" /\ MustWaitToRead /\ condition_wait(t, "readers")
           \/ op[t] = "write_lock" /\ MustWaitToWrite /\ condition_wait(t, "writers")
    PROVE  IInv'
<1> USE SyncAssumption, RwLockAssumption DEF IInv
<1>1. PICK c \in Conds : /\ condition_wait(t, c)
                         /\ c = "readers" => op[t] = "read_lock" /\ writer_active
                         /\ c = "writers" => op[t] = "write_lock"
                                             /\ (readers_count > 0 \/ writer_active)
  BY DEF MustWaitToRead, MustWaitToWrite
<1>2. /\ MonitorInv'
      /\ Queued(cond'[c]) = Queued(cond[c]) \cup {t}
      /\ \A d \in Conds \ {c} : cond'[d] = cond[d]
  BY <1>1, WaitKeeps
<1>3. at[t] = "body" /\ at'[t] = "wait" /\ \A u \in Tasks \ {t} : at'[u] = at[u]
  BY <1>1 DEF condition_wait, Runs, MonitorInv, MonitorTypeOK
<1>4. RwTypeOK' /\ HoldersInv'
  BY DEF rwVars, RwTypeOK, HoldersInv, Reading
<1>5. CallInv'
  BY <1>1, <1>2, <1>3 DEF rwVars, CallInv
<1>6. SleepersHaveWaker'
  <2>1. CASE c = "readers"
    BY <1>1, <1>2, <2>1 DEF rwVars, SleepersHaveWaker
  <2>2. CASE c = "writers"
    BY <1>1, <1>2, <2>2 DEF rwVars, SleepersHaveWaker
  <2>3. QED
    BY <2>1, <2>2
<1>7. QED
  BY <1>2, <1>4, <1>5, <1>6

\* The writer that a signal wakes is the waker of the others.
LEMMA WokenWriter ==
    ASSUME IInv, cond["writers"] # <<>>
    PROVE  \E f \in SignalWakes("writers") :
              /\ f \in Tasks /\ op[f] = "write_lock" /\ holds[f] = "nothing"
              /\ f \in Queued(cond["writers"])
<1> USE SyncAssumption, RwLockAssumption DEF IInv
<1>1. /\ SignalWakes("writers") = {FirstWaiting(cond["writers"])}
      /\ SignalWakes("writers") \subseteq Queued(cond["writers"]) \cap Tasks
  BY SignalFacts
<1>2. QED
  BY <1>1 DEF CallInv, LockOps, MonitorInv, CondInv

\* rwlock_read_unlock: the last reader signals a writer.
LEMMA ReadUnlockKeeps ==
    ASSUME IInv, NEW t \in Tasks, Runs(t, "body"),
           op[t] = "read_unlock", rwlock_read_unlock(t)
    PROVE  IInv'
<1> USE SyncAssumption, RwLockAssumption DEF IInv
<1> DEFINE c == IF readers_count' = 0 THEN "writers" ELSE NULL
<1>1. /\ holds[t] = "read" /\ holds' = [holds EXCEPT ![t] = "nothing"]
      /\ readers_count' = readers_count - 1
      /\ UNCHANGED <<writer_active, writer_owner, op>>
      /\ Finish(t, c)
  BY InBody DEF rwlock_read_unlock
<1>2. /\ MonitorInv' /\ at' = [at EXCEPT ![t] = "unlock"]
      /\ c = NULL => cond' = cond
      /\ c # NULL => /\ Queued(cond'[c]) = Queued(cond[c]) \ SignalWakes(c)
                     /\ \A d \in Conds \ {c} : cond'[d] = cond[d]
  BY <1>1, FinishKeeps
<1>3. at[t] = "body" /\ at'[t] = "unlock" /\ \A u \in Tasks \ {t} : at'[u] = at[u]
  BY <1>2 DEF Runs, MonitorInv, MonitorTypeOK
<1>4. /\ holds'[t] = "nothing" /\ \A u \in Tasks \ {t} : holds'[u] = holds[u]
      /\ holds' \in [Tasks -> {"nothing", "read", "write"}]
  BY <1>1 DEF RwTypeOK
<1>5. /\ readers_count > 0 /\ readers_count' = Cardinality(Reading') /\ ~writer_active
  <2>1. Reading' = Reading \ {t} /\ t \in Reading
    BY <1>1, <1>4 DEF Reading
  <2>2. IsFiniteSet(Reading)
    BY FS_Subset DEF Reading
  <2>3. Cardinality(Reading') = Cardinality(Reading) - 1
    BY <2>1, <2>2, FS_RemoveElement
  <2>4. Cardinality(Reading) # 0
    BY <2>1, <2>2, FS_EmptySet
  <2>5. QED
    BY <1>1, <2>3, <2>4 DEF HoldersInv, RwTypeOK
<1>6. RwTypeOK'
  BY <1>1, <1>4, <1>5 DEF RwTypeOK
<1>7. HoldersInv'
  BY <1>1, <1>4, <1>5 DEF HoldersInv
<1>8. /\ cond'["readers"] = cond["readers"]
      /\ Queued(cond'["writers"]) \subseteq Queued(cond["writers"])
  BY <1>2
<1>9. CallInv'
  BY <1>1, <1>3, <1>4, <1>8 DEF CallInv
<1>10. SleepersHaveWaker'
  <2>1. cond'["readers"] # <<>> => writer_active'
    BY <1>1, <1>8 DEF SleepersHaveWaker
  <2>2. CASE readers_count' = 0 /\ cond'["writers"] # <<>>
    <3>1. /\ Queued(cond'["writers"]) = Queued(cond["writers"]) \ SignalWakes("writers")
          /\ cond["writers"] \in Seq(Tasks) /\ cond'["writers"] \in Seq(Tasks)
      BY <2>2, <1>2 DEF MonitorInv, MonitorTypeOK
    <3>2. cond["writers"] # <<>>
      BY <2>2, <3>1, QueuedBasics
    <3>3. PICK f \in SignalWakes("writers") :
            f \in Tasks /\ op[f] = "write_lock" /\ holds[f] = "nothing"
      BY <3>2, WokenWriter
    <3>4. op'[f] = "write_lock" /\ holds'[f] = "nothing" /\ f \notin Queued(cond'["writers"])
      BY <3>1, <3>3, <1>1, <1>4
    <3>5. QED
      BY <2>1, <3>3, <3>4 DEF SleepersHaveWaker
  <2>3. CASE readers_count' # 0 \/ cond'["writers"] = <<>>
    BY <2>1, <2>3, <1>6 DEF SleepersHaveWaker, RwTypeOK
  <2>4. QED
    BY <2>2, <2>3
<1>11. QED
  BY <1>2, <1>6, <1>7, <1>9, <1>10

\* rwlock_write_unlock by the owner: one writer and all readers are woken.
LEMMA WriteUnlockKeeps ==
    ASSUME IInv, NEW t \in Tasks, Runs(t, "body"), op[t] = "write_unlock",
           writer_owner = t, rwlock_write_unlock(t)
    PROVE  IInv'
<1> USE SyncAssumption, RwLockAssumption DEF IInv
<1> DEFINE W == SignalWakes("writers") \cup BroadcastWakes("readers")
<1>1. /\ holds[t] = "write" /\ writer_active /\ readers_count = 0
      /\ writer_active' = FALSE /\ writer_owner' = NULL
      /\ holds' = [holds EXCEPT ![t] = "nothing"]
      /\ cond' = [cond EXCEPT !["writers"] = condition_signal("writers"),
                              !["readers"] = <<>>]
      /\ state' = SetReady(state, W)
      /\ at' = [at EXCEPT ![t] = "unlock"]
      /\ UNCHANGED <<lock, readers_count, op>>
  BY DEF rwlock_write_unlock, HoldersInv, condition_broadcast
<1>2. /\ condition_signal("writers") \in Seq(Tasks)
      /\ Distinct(condition_signal("writers"))
      /\ SignalWakes("writers") \subseteq Queued(cond["writers"]) \cap Tasks
      /\ Queued(condition_signal("writers")) = Queued(cond["writers"]) \ SignalWakes("writers")
  BY SignalFacts
<1>3. /\ cond \in [Conds -> Seq(Tasks)]
      /\ Queued(cond["readers"]) \subseteq Tasks /\ Queued(cond["writers"]) \subseteq Tasks
      /\ Queued(cond["readers"]) \cap Queued(cond["writers"]) = {}
  <2>1. cond \in [Conds -> Seq(Tasks)]
    BY DEF MonitorInv, MonitorTypeOK
  <2>2. Queued(cond["readers"]) \subseteq Tasks /\ Queued(cond["writers"]) \subseteq Tasks
    BY <2>1, QueuedBasics
  <2>3. QED
    BY <2>1, <2>2 DEF MonitorInv, CondInv
<1>4. /\ cond' \in [Conds -> Seq(Tasks)]
      /\ cond'["writers"] = condition_signal("writers") /\ cond'["readers"] = <<>>
  BY <1>1, <1>2, <1>3, QueuedBasics
<1>5. BroadcastWakes("readers") = Queued(cond["readers"])
  BY DEF BroadcastWakes
<1>6. /\ W \in SUBSET Tasks
      /\ \A u \in W : \E c \in Conds : u \in Queued(cond[c])
      /\ \A c \in Conds : Queued(cond'[c]) = Queued(cond[c]) \ W /\ Distinct(cond'[c])
  <2>1. Queued(cond'["writers"]) = Queued(cond["writers"]) \ W
    BY <1>2, <1>3, <1>4, <1>5
  <2>2. Queued(cond'["readers"]) = Queued(cond["readers"]) \ W
    BY <1>4, <1>5, QueuedBasics
  <2>3. Distinct(cond'["readers"]) /\ Distinct(cond'["writers"])
    BY <1>2, <1>4, QueuedBasics
  <2>4. QED
    BY <1>2, <1>3, <1>5, <2>1, <2>2, <2>3
<1> HIDE DEF W
<1>7. MonitorInv'
  BY <1>1, <1>4, <1>6, WakeKeeps
<1>8. at[t] = "body" /\ at'[t] = "unlock" /\ \A u \in Tasks \ {t} : at'[u] = at[u]
  BY <1>1 DEF Runs, MonitorInv, MonitorTypeOK
<1>9. /\ holds'[t] = "nothing" /\ \A u \in Tasks \ {t} : holds'[u] = holds[u]
      /\ RwTypeOK'
  BY <1>1 DEF RwTypeOK
<1>10. HoldersInv'
  <2>1. Reading' = Reading
    BY <1>1, <1>9 DEF Reading
  <2>2. QED
    BY <1>1, <1>9, <2>1 DEF HoldersInv
<1>11. CallInv'
  <2>1. Queued(cond'["readers"]) = {} /\ Queued(cond'["writers"]) \subseteq Queued(cond["writers"])
    BY <1>2, <1>4, QueuedBasics
  <2>2. op' = op /\ op[t] = "write_unlock"
    BY <1>1
  <2>3. \A u \in Tasks : op'[u] = "none" <=> at'[u] = "idle"
    BY <1>8, <2>2 DEF CallInv
  <2>4. \A u \in Tasks : at'[u] \in {"lock", "wait", "body"} =>
          /\ op'[u] \in LockOps => holds'[u] = "nothing"
          /\ op'[u] = "read_unlock" => holds'[u] = "read"
          /\ op'[u] = "write_unlock" => holds'[u] # "read"
    BY <1>8, <1>9, <2>2 DEF CallInv
  <2>5. \A u \in Tasks : at'[u] = "unlock" /\ op'[u] = "write_lock" => holds'[u] = "write"
    BY <1>8, <1>9, <2>2 DEF CallInv
  <2>6. QED
    BY <2>1, <2>2, <2>3, <2>4, <2>5 DEF CallInv
<1>12. SleepersHaveWaker'
  <2>1. cond'["readers"] = <<>>
    BY <1>4
  <2>2. CASE cond'["writers"] # <<>>
    <3>1. cond["writers"] # <<>>
      BY <2>2, <1>4 DEF condition_signal
    <3>2. PICK f \in SignalWakes("writers") :
            f \in Tasks /\ op[f] = "write_lock" /\ holds[f] = "nothing"
      BY <3>1, WokenWriter
    <3>3. op'[f] = "write_lock" /\ holds'[f] = "nothing" /\ f \notin Queued(cond'["writers"])
      BY <3>2, <1>1, <1>2, <1>4, <1>9
    <3>4. QED
      BY <2>1, <3>2, <3>3 DEF SleepersHaveWaker
  <2>3. CASE cond'["writers"] = <<>>
    BY <2>1, <2>3 DEF SleepersHaveWaker
  <2>4. QED
    BY <2>2, <2>3
<1>13. QED
  BY <1>7, <1>9, <1>10, <1>11, <1>12

-----------------------------------------------------------------------------
(* The theorems. *)

\* Every step keeps the invariant.
LEMMA NextIInv == IInv /\ [Next]_vars => IInv'
<1> SUFFICES ASSUME IInv, [Next]_vars PROVE IInv'
  OBVIOUS
<1>1. CASE UNCHANGED vars
  BY <1>1 DEF IInv, vars, monitorVars, rwVars, MonitorInv, MonitorTypeOK, LockInv, CondInv,
     PlaceInv, Inside, RwTypeOK, HoldersInv, Reading, CallInv, SleepersHaveWaker
<1>2. ASSUME NEW t \in Tasks, Call(t) PROVE IInv'
  BY <1>2, CallKeeps
<1>3. ASSUME NEW t \in Tasks, Continue(t) PROVE IInv'
  <2>1. CASE (Granted(t) \/ Relock(t)) /\ UNCHANGED rwVars
    BY <2>1, GrantedRelockKeeps
  <2>2. CASE Return(t)
    BY <2>2, ReturnKeeps
  <2>3. CASE Body(t)
    <3> USE <2>3 DEF Body
    <3>1. CASE op[t] = "read_lock" /\ rwlock_read_lock(t)
      BY <3>1, SleepKeeps, TakeReadKeeps DEF rwlock_read_lock
    <3>2. CASE op[t] = "read_trylock" /\ rwlock_read_trylock(t)
      BY <3>2, RefusedKeeps, TakeReadKeeps DEF rwlock_read_trylock
    <3>3. CASE op[t] = "read_unlock" /\ rwlock_read_unlock(t)
      BY <3>3, ReadUnlockKeeps
    <3>4. CASE op[t] = "write_lock" /\ rwlock_write_lock(t)
      BY <3>4, SleepKeeps, TakeWriteKeeps DEF rwlock_write_lock
    <3>5. CASE op[t] = "write_trylock" /\ rwlock_write_trylock(t)
      BY <3>5, RefusedKeeps, TakeWriteKeeps DEF rwlock_write_trylock
    <3>6. CASE op[t] = "write_unlock" /\ rwlock_write_unlock(t)
      <4>1. CASE writer_owner = t
        BY <3>6, <4>1, WriteUnlockKeeps
      <4>2. CASE writer_owner # t
        BY <3>6, <4>2, RefusedKeeps DEF rwlock_write_unlock
      <4>3. QED
        BY <4>1, <4>2
    <3>7. QED
      BY <3>1, <3>2, <3>3, <3>4, <3>5, <3>6
  <2>4. QED
    BY <1>3, <2>1, <2>2, <2>3 DEF Continue
<1>4. QED
  BY <1>1, <1>2, <1>3 DEF Next

\* The strengthened invariant holds in every state of rwlock.c.
THEOREM Invariance == Spec => []IInv
BY InitIInv, NextIInv, PTL DEF Spec

\* The state has its type.
THEOREM TypeCorrect == Spec => []TypeOK
<1>1. IInv => TypeOK
  BY DEF IInv, MonitorInv, RwTypeOK, TypeOK
<1>2. QED
  BY <1>1, Invariance, PTL

\* While a task holds the lock for writing no other task holds it at all, whatever
\* the number of tasks and however their calls interleave.
THEOREM WritersExclude == Spec => []WriterAlone
<1>1. IInv => WriterAlone
  <2> SUFFICES ASSUME IInv, NEW t \in Tasks, NEW u \in Tasks, holds[t] = "write", t # u
               PROVE  holds[u] = "nothing"
    BY DEF WriterAlone
  <2> USE SyncAssumption, RwLockAssumption DEF IInv
  <2>1. writer_owner = t /\ writer_active /\ Cardinality(Reading) = 0
    BY DEF HoldersInv
  <2>2. Reading = {}
    <3>1. IsFiniteSet(Reading)
      BY FS_Subset DEF Reading
    <3>2. QED
      BY <2>1, <3>1, FS_EmptySet
  <2>3. QED
    BY <2>1, <2>2 DEF Reading, HoldersInv, RwTypeOK
<1>2. QED
  BY <1>1, Invariance, PTL

\* A task asleep on a condition of the lock always has somebody to wake it: the
\* signals and broadcasts of rwlock.c lose no wake-up.
THEOREM NoLostWakeup == Spec => []SleepersHaveWaker
<1>1. IInv => SleepersHaveWaker
  BY DEF IInv
<1>2. QED
  BY <1>1, Invariance, PTL

\* The bodies of the operations of the lock exclude one another: the mutex of the
\* object and its conditions never let two tasks in.
THEOREM BodiesExclusive == Spec => []OneInside
<1>1. IInv => OneInside
  BY OwnerInside DEF IInv
<1>2. QED
  BY <1>1, Invariance, PTL
=============================================================================
