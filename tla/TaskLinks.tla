----------------------------- MODULE TaskLinks -----------------------------
(***************************************************************************)
(* Lists of tasks that are linked through a field of task_t: next for the  *)
(* queues of the scheduler, next_wait for those of the mutexes, semaphores *)
(* and conditions.                                                         *)
(***************************************************************************)
EXTENDS Naturals, Sequences

(***************************************************************************)
(* The tasks that a loop  while (p) p = link[p]  meets in n rounds.        *)
(***************************************************************************)
Walk(tasks, nil, link, p, n) ==
    LET rest[i \in 0..n] ==
            [x \in tasks \cup {nil} |->
                IF i = 0 \/ x = nil THEN <<>> ELSE <<x>> \o rest[i - 1][link[x]]]
    IN  IF p = nil THEN <<>> ELSE rest[n][p]
=============================================================================
