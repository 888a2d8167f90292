-------------------------------- MODULE Pipe --------------------------------
(***************************************************************************)
(* pipe.c: pipe_write and pipe_read on one pipe, a byte ring under a mutex *)
(* with the conditions not_full and not_empty (see Monitor).  An operation *)
(* moves as many bytes as fit, signals, and goes round its loop until all  *)
(* bytes asked for have been moved.                                        *)
(*                                                                         *)
(* reader_closed and writer_closed stay false: pipe_close is declared in   *)
(* ipc.h and defined nowhere, so the branches on them are never taken.     *)
(* Bytes are numbered in the order in which pipe_write copies them, so     *)
(* that a lost, duplicated or reordered byte shows.                        *)
(***************************************************************************)
EXTENDS Monitor, FiniteSetsExt

CONSTANTS Readers, Writers, \* who reads and who writes
          Counts,   \* the byte counts of the calls
          size,     \* pipe->size (PIPE_BUF_SIZE)
          MaxBytes  \* bound on the number of bytes asked to be written

ASSUME PipeAssumption ==
    /\ size \in Nat \ {0} /\ MaxBytes \in Nat
    /\ Counts \subseteq Nat \ {0} /\ Conds = {"not_full", "not_empty"}
    /\ Readers \cup Writers = Tasks /\ Readers \cap Writers = {}

VARIABLES
    buffer, read_pos, write_pos, count,  \* pipe_t; bytes are numbers, 0: never written
    todo,       \* bytes the call of each task has yet to move (0: no call)
    sent,       \* history: number of bytes copied into the pipe
    received    \* history: the bytes copied out of the pipe, in order

pipeVars == <<buffer, read_pos, write_pos, count, todo, sent, received>>
vars == <<monitorVars, pipeVars>>

Cells == 0..(size - 1)

TypeOK ==
    /\ MonitorTypeOK
    /\ buffer \in [Cells -> 0..MaxBytes]
    /\ read_pos \in Cells /\ write_pos \in Cells
    /\ count \in 0..size
    /\ todo \in [Tasks -> Nat]
    /\ sent \in 0..MaxBytes
    /\ received \in Seq(1..MaxBytes)

\* pipe_create.
Init ==
    /\ MonitorInit
    /\ buffer = [c \in Cells |-> 0]
    /\ read_pos = 0 /\ write_pos = 0 /\ count = 0
    /\ todo = [t \in Tasks |-> 0]
    /\ sent = 0 /\ received = <<>>

MinOf(a, b) == IF a <= b THEN a ELSE b

-----------------------------------------------------------------------------
(* Mutated forms of the definitions below. *)

\* The second part of a wrapped copy goes on past the end of the first.
CopyInRestarts(n) ==
    [c \in Cells |-> IF c >= write_pos /\ c < write_pos + n THEN sent + 1 + (c - write_pos)
                     ELSE buffer[c]]

\* The writer never tells the readers.
pipe_write_silent(t) ==
    \/ /\ count = size
       /\ condition_wait(t, "not_full")
       /\ UNCHANGED pipeVars
    \/ LET n == MinOf(todo[t], size - count)
       IN  /\ count # size
           /\ buffer' = [c \in Cells |->
                           IF \E i \in 0..(n - 1) : c = (write_pos + i) % size
                           THEN sent + 1 + ((c - write_pos + size) % size) ELSE buffer[c]]
           /\ write_pos' = (write_pos + n) % size
           /\ count' = count + n
           /\ sent' = sent + n
           /\ todo' = [todo EXCEPT ![t] = @ - n]
           /\ IF todo[t] = n THEN Finish(t, NULL) ELSE UNCHANGED monitorVars
           /\ UNCHANGED <<read_pos, received>>

-----------------------------------------------------------------------------
(* The operations. *)

\* Bytes that were or will be written by the calls made so far.
Asked == sent + MapThenSumSet(LAMBDA w : todo[w], Writers)

Call(t) ==
    /\ todo[t] = 0
    /\ \E n \in Counts :
          /\ t \in Writers => Asked + n <= MaxBytes
          /\ todo' = [todo EXCEPT ![t] = n]
    /\ Enter(t)
    /\ UNCHANGED <<buffer, read_pos, write_pos, count, sent, received>>

\* How many bytes this round of the loop moves.
ToWrite(t) == MinOf(todo[t], size - count)
ToRead(t) == MinOf(todo[t], count)

\* The position n bytes further, for n at most size: two copies if the data
\* wraps around, one otherwise.
Advance(pos, n) ==
    LET first_part == size - pos
    IN  IF n <= first_part
        THEN IF pos + n = size THEN 0 ELSE pos + n
        ELSE n - first_part

\* The buffer after the next n bytes were copied in at write_pos.
CopyIn(n) ==
    LET first_part == MinOf(n, size - write_pos)
    IN  [c \in Cells |->
            IF c >= write_pos /\ c < write_pos + first_part THEN sent + 1 + (c - write_pos)
            ELSE IF c < n - first_part THEN sent + 1 + first_part + c
            ELSE buffer[c]]

\* The n bytes copied out from read_pos.
CopyOut(n) ==
    LET first_part == MinOf(n, size - read_pos)
    IN  [i \in 1..n |-> IF i <= first_part THEN buffer[read_pos + i - 1]
                        ELSE buffer[i - first_part - 1]]

\* The end of a round: signal condition c and leave the loop if all is moved.
Round(t, n, c) ==
    /\ todo' = [todo EXCEPT ![t] = @ - n]
    /\ cond' = [cond EXCEPT ![c] = condition_signal(c)]
    /\ state' = SetReady(state, SignalWakes(c))
    /\ at' = IF todo[t] = n THEN [at EXCEPT ![t] = "unlock"] ELSE at
    /\ UNCHANGED lock

pipe_write(t) ==
    \/ count = size /\ condition_wait(t, "not_full") /\ UNCHANGED pipeVars
    \/ /\ count # size
       /\ buffer' = CopyIn(ToWrite(t))
       /\ write_pos' = Advance(write_pos, ToWrite(t))
       /\ count' = count + ToWrite(t)
       /\ sent' = sent + ToWrite(t)
       /\ Round(t, ToWrite(t), "not_empty")
       /\ UNCHANGED <<read_pos, received>>

pipe_read(t) ==
    \/ count = 0 /\ condition_wait(t, "not_empty") /\ UNCHANGED pipeVars
    \/ /\ count # 0
       /\ received' = received \o CopyOut(ToRead(t))
       /\ read_pos' = Advance(read_pos, ToRead(t))
       /\ count' = count - ToRead(t)
       /\ Round(t, ToRead(t), "not_full")
       /\ UNCHANGED <<buffer, write_pos, sent>>

Body(t) ==
    /\ Runs(t, "body")
    /\ \/ t \in Writers /\ pipe_write(t)
       \/ t \in Readers /\ pipe_read(t)

Continue(t) == \/ (Granted(t) \/ Relock(t) \/ Leave(t)) /\ UNCHANGED pipeVars
               \/ Body(t)

Next == \E t \in Tasks : Call(t) \/ Continue(t)

Spec == Init /\ [][Next]_vars

-----------------------------------------------------------------------------
(* Properties. *)

\* What was read, followed by what is in the ring, is what was written: no byte
\* is lost, duplicated or reordered, across wrap-around and partial transfers.
ByteStream ==
    received \o CopyOut(count) = [i \in 1..sent |-> i]
=============================================================================
