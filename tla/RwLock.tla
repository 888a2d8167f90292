------------------------------- MODULE RwLock -------------------------------
(***************************************************************************)
(* rwlock.c: a read/write lock made of one mutex and the conditions        *)
(* "readers" and "writers" (see Monitor).                                  *)
(***************************************************************************)
EXTENDS Monitor, FiniteSets

ASSUME RwLockAssumption ==
    Conds = {"readers", "writers"} /\ NULL \notin Conds /\ IsFiniteSet(Tasks)

VARIABLES
    readers_count, writer_active, writer_owner,  \* rwlock_t
    op,     \* the operation each task is in
    holds   \* history: what each task may do with the protected data

rwVars == <<readers_count, writer_active, writer_owner, op, holds>>
vars == <<monitorVars, rwVars>>

Ops == {"none", "read_lock", "read_trylock", "read_unlock",
        "write_lock", "write_trylock", "write_unlock"}

TypeOK ==
    /\ MonitorTypeOK
    /\ readers_count \in Nat
    /\ writer_active \in BOOLEAN
    /\ writer_owner \in Tasks \cup {NULL}
    /\ op \in [Tasks -> Ops]
    /\ holds \in [Tasks -> {"nothing", "read", "write"}]

\* rwlock_init.
Init ==
    /\ MonitorInit
    /\ readers_count = 0
    /\ writer_active = FALSE
    /\ writer_owner = NULL
    /\ op = [t \in Tasks |-> "none"]
    /\ holds = [t \in Tasks |-> "nothing"]

-----------------------------------------------------------------------------
(* Mutated forms of the definitions below. *)

\* Only an active writer keeps a writer out.
MustWaitToWriteIgnoringReaders == writer_active

\* The last reader signals nobody.
rwlock_read_unlock_silent(t) ==
    /\ readers_count' = readers_count - 1
    /\ holds' = [holds EXCEPT ![t] = "nothing"]
    /\ Finish(t, NULL)
    /\ UNCHANGED <<writer_active, writer_owner, op>>

\* Waiting readers are not woken by the writer that leaves.
rwlock_write_unlock_no_broadcast(t) ==
    \/ /\ writer_owner = t
       /\ writer_active' = FALSE
       /\ writer_owner' = NULL
       /\ holds' = [holds EXCEPT ![t] = "nothing"]
       /\ Finish(t, "writers")
       /\ UNCHANGED <<readers_count, op>>
    \/ writer_owner # t /\ Finish(t, NULL) /\ UNCHANGED rwVars

-----------------------------------------------------------------------------
(* The operations.  A call starts with mutex_lock (or mutex_trylock, whose  *)
(* failure ends the call and changes nothing).  Callers release only what   *)
(* they hold, except that any task may try rwlock_write_unlock; none of     *)
(* them asks for the lock while it holds it.                                *)

Start(t, o) ==
    /\ op[t] = "none"
    /\ op' = [op EXCEPT ![t] = o]
    /\ UNCHANGED <<readers_count, writer_active, writer_owner, holds>>

Call(t) ==
    \/ holds[t] = "nothing" /\ Start(t, "read_lock") /\ Enter(t)
    \/ holds[t] = "nothing" /\ Start(t, "read_trylock") /\ TryEnter(t)
    \/ holds[t] = "nothing" /\ Start(t, "write_lock") /\ Enter(t)
    \/ holds[t] = "nothing" /\ Start(t, "write_trylock") /\ TryEnter(t)
    \/ holds[t] = "read" /\ Start(t, "read_unlock") /\ Enter(t)
    \/ holds[t] # "read" /\ Start(t, "write_unlock") /\ Enter(t)

\* The loop conditions of rwlock_read_lock and rwlock_write_lock.
MustWaitToRead == writer_active
MustWaitToWrite == readers_count > 0 \/ writer_active

TakeRead(t) ==
    /\ readers_count' = readers_count + 1
    /\ holds' = [holds EXCEPT ![t] = "read"]
    /\ Finish(t, NULL)
    /\ UNCHANGED <<writer_active, writer_owner, op>>

TakeWrite(t) ==
    /\ writer_active' = TRUE
    /\ writer_owner' = t
    /\ holds' = [holds EXCEPT ![t] = "write"]
    /\ Finish(t, NULL)
    /\ UNCHANGED <<readers_count, op>>

rwlock_read_lock(t) ==
    \/ MustWaitToRead /\ condition_wait(t, "readers") /\ UNCHANGED rwVars
    \/ ~MustWaitToRead /\ TakeRead(t)

rwlock_read_trylock(t) ==
    \/ MustWaitToRead /\ Finish(t, NULL) /\ UNCHANGED rwVars
    \/ ~MustWaitToRead /\ TakeRead(t)

rwlock_read_unlock(t) ==
    /\ readers_count' = readers_count - 1
    /\ holds' = [holds EXCEPT ![t] = "nothing"]
    /\ Finish(t, IF readers_count' = 0 THEN "writers" ELSE NULL)
    /\ UNCHANGED <<writer_active, writer_owner, op>>

rwlock_write_lock(t) ==
    \/ MustWaitToWrite /\ condition_wait(t, "writers") /\ UNCHANGED rwVars
    \/ ~MustWaitToWrite /\ TakeWrite(t)

rwlock_write_trylock(t) ==
    \/ MustWaitToWrite /\ Finish(t, NULL) /\ UNCHANGED rwVars
    \/ ~MustWaitToWrite /\ TakeWrite(t)

\* The owner signals one writer and wakes all readers (condition_broadcast).
rwlock_write_unlock(t) ==
    \/ /\ writer_owner = t
       /\ writer_active' = FALSE
       /\ writer_owner' = NULL
       /\ holds' = [holds EXCEPT ![t] = "nothing"]
       /\ cond' = [cond EXCEPT !["writers"] = condition_signal("writers"),
                               !["readers"] = condition_broadcast("readers")]
       /\ state' = SetReady(state, SignalWakes("writers") \cup BroadcastWakes("readers"))
       /\ at' = [at EXCEPT ![t] = "unlock"]
       /\ UNCHANGED <<lock, readers_count, op>>
    \/ writer_owner # t /\ Finish(t, NULL) /\ UNCHANGED rwVars

Body(t) ==
    /\ Runs(t, "body")
    /\ \/ op[t] = "read_lock" /\ rwlock_read_lock(t)
       \/ op[t] = "read_trylock" /\ rwlock_read_trylock(t)
       \/ op[t] = "read_unlock" /\ rwlock_read_unlock(t)
       \/ op[t] = "write_lock" /\ rwlock_write_lock(t)
       \/ op[t] = "write_trylock" /\ rwlock_write_trylock(t)
       \/ op[t] = "write_unlock" /\ rwlock_write_unlock(t)

Return(t) ==
    /\ Leave(t)
    /\ op' = [op EXCEPT ![t] = "none"]
    /\ UNCHANGED <<readers_count, writer_active, writer_owner, holds>>

Continue(t) == \/ (Granted(t) \/ Relock(t)) /\ UNCHANGED rwVars
               \/ Body(t)
               \/ Return(t)

Next == \E t \in Tasks : Call(t) \/ Continue(t)

Spec == Init /\ [][Next]_vars

-----------------------------------------------------------------------------
(* Properties. *)

\* A writer has the data for itself; readers share it only among themselves.
WriterAlone ==
    \A t, u \in Tasks : holds[t] = "write" /\ t # u => holds[u] = "nothing"

\* A task asleep on a condition has somebody to wake it: a reader sleeps only
\* under an active writer, a writer only while the lock is held or another
\* writer was woken and is on its way to look at the lock.
SleepersHaveWaker ==
    /\ cond["readers"] # <<>> => writer_active
    /\ cond["writers"] # <<>> =>
         \/ readers_count > 0
         \/ writer_active
         \/ \E t \in Tasks : /\ op[t] = "write_lock" /\ holds[t] = "nothing"
                             /\ t \notin Queued(cond["writers"])
=============================================================================
