----------------------------- MODULE LockService -----------------------------
(***************************************************************************)
(* What a lock promises to its callers (sync.h: mutex_lock, mutex_trylock, *)
(* mutex_unlock and their recursive variants): a task is outside, waiting  *)
(* in a lock call, or inside; it gets inside only when nobody else is.     *)
(***************************************************************************)
CONSTANT Tasks

VARIABLE status

LockInit == status = [t \in Tasks |-> "out"]

NobodyElseIn(t) == \A u \in Tasks \ {t} : status[u] # "in"

\* The lock call of t returns at once, or t starts to wait for the task inside.
Enter(t) ==
    /\ status[t] = "out"
    /\ NobodyElseIn(t)
    /\ status' = [status EXCEPT ![t] = "in"]

Wait(t) ==
    /\ status[t] = "out"
    /\ \E u \in Tasks : status[u] = "in"
    /\ status' = [status EXCEPT ![t] = "waiting"]

\* t leaves; if somebody waits, exactly one waiting task takes its place.
Leave(t) ==
    /\ status[t] = "in"
    /\ NobodyElseIn(t)
    /\ \/ /\ \A u \in Tasks : status[u] # "waiting"
          /\ status' = [status EXCEPT ![t] = "out"]
       \/ \E u \in Tasks :
             /\ status[u] = "waiting"
             /\ status' = [status EXCEPT ![t] = "out", ![u] = "in"]

LockNext == \E t \in Tasks : Enter(t) \/ Wait(t) \/ Leave(t)

LockSpec == LockInit /\ [][LockNext]_status
=============================================================================
