----------------------------- MODULE PipeProofs -----------------------------
(***************************************************************************)
(* Proofs about pipe.c for any number of readers and writers, any counts   *)
(* and any size of the pipe: the bytes come out as they went in.           *)
(***************************************************************************)
EXTENDS Pipe, MonitorFacts, SequenceTheorems

\* The types that do not depend on MaxBytes, the bound on the number of calls.
PipeTypeOK ==
    /\ buffer \in [Cells -> Nat]
    /\ read_pos \in Cells /\ write_pos \in Cells
    /\ count \in 0..size
    /\ todo \in [Tasks -> Nat]
    /\ sent \in Nat
    /\ received \in Seq(Nat)

\* The cell i bytes (at most size) after the one at pos.
Cell(pos, i) == IF pos + i < size THEN pos + i ELSE pos + i - size

\* The bytes received are the first ones sent, the cells from read_pos on hold the
\* others, and write_pos is behind them.
StreamInv ==
    /\ sent = Len(received) + count
    /\ \A i \in 1..Len(received) : received[i] = i
    /\ \A i \in 1..count : buffer[Cell(read_pos, i - 1)] = Len(received) + i
    /\ write_pos = Cell(read_pos, count)

\* The inductive invariant.
IInv == MonitorInv /\ PipeTypeOK /\ StreamInv

-----------------------------------------------------------------------------
(* Copying in and out. *)

\* The position that pipe_write and pipe_read go on from is that of the next cell.
LEMMA AdvanceFacts ==
    ASSUME NEW pos \in Cells, NEW n \in 0..size
    PROVE  Advance(pos, n) = Cell(pos, n) /\ Cell(pos, n) \in Cells
BY PipeAssumption DEF Advance, Cell, Cells

\* copying n bytes in changes the next n cells only, and puts the bytes there in
\* their order.
LEMMA CopyInFacts ==
    ASSUME PipeTypeOK, StreamInv, NEW n \in 0..(size - count)
    PROVE  /\ CopyIn(n) \in [Cells -> Nat]
           /\ \A i \in 1..(count + n) :
                 CopyIn(n)[Cell(read_pos, i - 1)] = Len(received) + i
<1> USE PipeAssumption
<1>1. /\ size \in Nat \ {0} /\ count \in 0..size /\ sent \in Nat /\ n \in Nat
      /\ n <= size - count
      /\ read_pos \in Cells /\ write_pos \in Cells /\ buffer \in [Cells -> Nat]
      /\ Len(received) \in Nat /\ sent = Len(received) + count
      /\ write_pos = Cell(read_pos, count)
  BY DEF PipeTypeOK, StreamInv
<1> DEFINE fp == MinOf(n, size - write_pos)
<1>2. /\ fp \in Nat /\ fp <= n /\ fp <= size - write_pos
      /\ fp = n \/ fp = size - write_pos
  BY <1>1 DEF MinOf, Cells
<1>3. CopyIn(n) = [c \in Cells |->
            IF c >= write_pos /\ c < write_pos + fp THEN sent + 1 + (c - write_pos)
            ELSE IF c < n - fp THEN sent + 1 + fp + c
            ELSE buffer[c]]
  BY DEF CopyIn
<1> HIDE DEF fp
<1>4. CopyIn(n) \in [Cells -> Nat]
  <2> SUFFICES ASSUME NEW c \in Cells
               PROVE  (IF c >= write_pos /\ c < write_pos + fp THEN sent + 1 + (c - write_pos)
                       ELSE IF c < n - fp THEN sent + 1 + fp + c ELSE buffer[c]) \in Nat
    BY <1>3
  <2>1. buffer[c] \in Nat /\ c \in Nat /\ write_pos \in Nat
    BY <1>1 DEF Cells
  <2>2. c >= write_pos => sent + 1 + (c - write_pos) \in Nat
    BY <1>1, <2>1
  <2>3. sent + 1 + fp + c \in Nat
    BY <1>1, <1>2, <2>1
  <2>4. QED
    BY <2>1, <2>2, <2>3
<1>5. ASSUME NEW i \in 1..(count + n)
      PROVE  CopyIn(n)[Cell(read_pos, i - 1)] = Len(received) + i
  <2> DEFINE c == Cell(read_pos, i - 1)
  <2>1. /\ i \in Nat \ {0} /\ i <= size
        /\ c = IF read_pos + (i - 1) < size THEN read_pos + (i - 1)
               ELSE read_pos + (i - 1) - size
    BY <1>1 DEF Cell
  <2>2. c \in Cells /\ read_pos \in 0..(size - 1)
    BY <1>1, <2>1 DEF Cells
  <2>3. write_pos = IF read_pos + count < size THEN read_pos + count ELSE read_pos + count - size
    BY <1>1 DEF Cell
  <2>4. i <= count => buffer[c] = Len(received) + i
    BY <1>1, <2>1 DEF StreamInv
  <2>5. CopyIn(n)[c] =
            IF c >= write_pos /\ c < write_pos + fp THEN sent + 1 + (c - write_pos)
            ELSE IF c < n - fp THEN sent + 1 + fp + c ELSE buffer[c]
    BY <1>3, <2>2
  <2> HIDE DEF c
  <2>6. CASE i <= count
    <3>1. ~(c >= write_pos /\ c < write_pos + fp) /\ ~(c < n - fp)
      BY <1>1, <1>2, <2>1, <2>2, <2>3, <2>6 DEF Cells
    <3>2. QED
      BY <2>4, <2>5, <2>6, <3>1 DEF c
  <2>7. CASE i > count
    <3>1. CASE c >= write_pos /\ c < write_pos + fp
      BY <1>1, <1>2, <2>1, <2>2, <2>3, <2>5, <2>7, <3>1 DEF c
    <3>2. CASE ~(c >= write_pos /\ c < write_pos + fp)
      <4>1. c < n - fp /\ sent + 1 + fp + c = Len(received) + i
        BY <1>1, <1>2, <2>1, <2>2, <2>3, <2>7, <3>2 DEF Cells
      <4>2. QED
        BY <2>5, <3>2, <4>1 DEF c
    <3>3. QED
      BY <3>1, <3>2
  <2>8. QED
    BY <1>1, <2>1, <2>6, <2>7
<1>6. QED
  BY <1>4, <1>5

\* Copying out takes the next n bytes in their order.
LEMMA CopyOutFacts ==
    ASSUME PipeTypeOK, StreamInv, NEW n \in 0..count
    PROVE  /\ CopyOut(n) \in Seq(Nat) /\ Len(CopyOut(n)) = n
           /\ \A i \in 1..n : CopyOut(n)[i] = Len(received) + i
<1> USE PipeAssumption
<1>1. /\ size \in Nat \ {0} /\ count \in 0..size /\ n \in Nat
      /\ read_pos \in 0..(size - 1) /\ buffer \in [Cells -> Nat] /\ Len(received) \in Nat
  BY DEF PipeTypeOK, Cells
<1> DEFINE fp == MinOf(n, size - read_pos)
<1>2. /\ fp \in Nat /\ fp <= n /\ fp <= size - read_pos
      /\ fp = n \/ fp = size - read_pos
  BY <1>1 DEF MinOf
<1>3. CopyOut(n) = [i \in 1..n |-> IF i <= fp THEN buffer[read_pos + i - 1]
                                   ELSE buffer[i - fp - 1]]
  BY DEF CopyOut
<1> HIDE DEF fp
<1>4. ASSUME NEW i \in 1..n PROVE CopyOut(n)[i] = Len(received) + i
  <2>1. i \in 1..count /\ i \in Nat
    BY <1>1
  <2>2. Cell(read_pos, i - 1) = IF i <= fp THEN read_pos + i - 1 ELSE i - fp - 1
    BY <1>1, <1>2, <2>1 DEF Cell
  <2>3. CopyOut(n)[i] = buffer[Cell(read_pos, i - 1)]
    BY <1>3, <2>2
  <2>4. QED
    BY <2>1, <2>3 DEF StreamInv
<1>5. CopyOut(n) \in Seq(Nat) /\ Len(CopyOut(n)) = n
  <2>1. DOMAIN CopyOut(n) = 1..n /\ \A i \in 1..n : CopyOut(n)[i] \in Nat
    BY <1>1, <1>3, <1>4
  <2>2. CopyOut(n) = [i \in 1..n |-> CopyOut(n)[i]]
    BY <1>3
  <2>3. QED
    BY <1>1, <2>1, <2>2
<1>6. QED
  BY <1>4, <1>5

\* The bytes 1..n followed by the bytes after them.
LEMMA ContinuedStream ==
    ASSUME NEW r \in Seq(Nat), NEW s \in Seq(Nat),
           \A i \in 1..Len(r) : r[i] = i, \A i \in 1..Len(s) : s[i] = Len(r) + i
    PROVE  /\ r \o s \in Seq(Nat) /\ Len(r \o s) = Len(r) + Len(s)
           /\ \A i \in 1..(Len(r) + Len(s)) : (r \o s)[i] = i
<1> DEFINE q == r \o s
<1>1. /\ q \in Seq(Nat) /\ Len(q) = Len(r) + Len(s) /\ Len(r) \in Nat /\ Len(s) \in Nat
      /\ \A i \in 1..(Len(r) + Len(s)) : q[i] = IF i <= Len(r) THEN r[i] ELSE s[i - Len(r)]
  BY ConcatProperties
<1> HIDE DEF q
<1>2. ASSUME NEW i \in 1..(Len(r) + Len(s)) PROVE q[i] = i
  <2>1. CASE i <= Len(r)
    <3>1. i \in 1..Len(r)
      BY <1>1, <2>1
    <3>2. QED
      BY <1>1, <2>1, <3>1
  <2>2. CASE ~(i <= Len(r))
    <3>1. i - Len(r) \in 1..Len(s) /\ Len(r) + (i - Len(r)) = i
      BY <1>1, <2>2
    <3>2. s[i - Len(r)] = Len(r) + (i - Len(r))
      BY <3>1
    <3>3. QED
      BY <1>1, <2>2, <3>1, <3>2
  <2>3. QED
    BY <2>1, <2>2
<1>3. QED
  BY <1>1, <1>2 DEF q

-----------------------------------------------------------------------------
(* The invariant holds initially and is kept by every action. *)

\* A pipe that pipe_create has just set up is empty.
LEMMA InitIInv == Init => IInv
<1> SUFFICES ASSUME Init PROVE IInv
  OBVIOUS
<1> USE PipeAssumption DEF Init
<1>1. MonitorInv
  BY MonitorInitInv
<1>2. PipeTypeOK
  <2>1. 0 \in Cells /\ 0 \in 0..size /\ <<>> \in Seq(Nat)
    BY DEF Cells
  <2>2. buffer \in [Cells -> Nat] /\ todo \in [Tasks -> Nat]
    OBVIOUS
  <2>3. QED
    BY <2>1, <2>2 DEF PipeTypeOK
<1>3. StreamInv
  BY DEF StreamInv, Cell
<1>4. QED
  BY <1>1, <1>2, <1>3 DEF IInv

\* Calls, the steps of the mutex and the conditions, and waiting leave the bytes alone.
LEMMA OutsideKeeps ==
    ASSUME IInv, MonitorInv', todo' \in [Tasks -> Nat],
           UNCHANGED <<buffer, read_pos, write_pos, count, sent, received>>
    PROVE  IInv'
BY DEF IInv, PipeTypeOK, StreamInv, Cell

\* The end of a round: the mutex and the conditions are left in order.
LEMMA RoundKeeps ==
    ASSUME IInv, NEW t \in Tasks, Runs(t, "body"), NEW n \in 0..todo[t], NEW c \in Conds,
           Round(t, n, c)
    PROVE  MonitorInv' /\ todo' \in [Tasks -> Nat]
<1>1. todo \in [Tasks -> Nat] /\ todo[t] \in Nat
  BY DEF IInv, PipeTypeOK
<1>2. todo' \in [Tasks -> Nat]
  <2>1. todo[t] - n \in Nat
    BY <1>1
  <2>2. QED
    BY <1>1, <2>1 DEF Round
<1>3. /\ cond' = [cond EXCEPT ![c] = condition_signal(c)] /\ lock' = lock
      /\ state' = SetReady(state, SignalWakes(c))
      /\ at' = at \/ at' = [at EXCEPT ![t] = "unlock"]
  BY DEF Round
<1>4. MonitorInv'
  BY <1>3, SignalKeeps DEF IInv
<1>5. QED
  BY <1>2, <1>4

\* A round of pipe_write: the bytes of its call go behind those in the pipe.
LEMMA WriteKeeps ==
    ASSUME IInv, NEW t \in Tasks, Runs(t, "body"), count # size, pipe_write(t)
    PROVE  IInv'
<1> USE PipeAssumption
<1> DEFINE n == ToWrite(t)
<1>1. /\ buffer' = CopyIn(n) /\ write_pos' = Advance(write_pos, n) /\ count' = count + n
      /\ sent' = sent + n /\ Round(t, n, "not_empty") /\ read_pos' = read_pos
      /\ received' = received
  BY DEF pipe_write
<1>2. /\ PipeTypeOK /\ StreamInv /\ size \in Nat \ {0} /\ count \in 0..size /\ todo[t] \in Nat
      /\ read_pos \in 0..(size - 1) /\ write_pos \in Cells /\ sent \in Nat
      /\ Len(received) \in Nat /\ sent = Len(received) + count
      /\ write_pos = Cell(read_pos, count)
  BY DEF IInv, PipeTypeOK, StreamInv, Cells
<1>3. n \in 0..(size - count) /\ n \in 0..todo[t] /\ n \in 0..size
  BY <1>2 DEF ToWrite, MinOf
<1> HIDE DEF n
<1>4. MonitorInv' /\ todo' \in [Tasks -> Nat]
  BY <1>1, <1>3, RoundKeeps
<1>5. /\ CopyIn(n) \in [Cells -> Nat]
      /\ \A i \in 1..(count + n) : CopyIn(n)[Cell(read_pos, i - 1)] = Len(received) + i
  BY <1>2, <1>3, CopyInFacts
<1>6. Cell(write_pos, n) \in Cells /\ Advance(write_pos, n) = Cell(write_pos, n)
  BY <1>2, <1>3, AdvanceFacts
<1>7. Cell(write_pos, n) = Cell(read_pos, count + n)
  BY <1>2, <1>3 DEF Cell, Cells
<1>8. PipeTypeOK'
  BY <1>1, <1>2, <1>3, <1>4, <1>5, <1>6 DEF PipeTypeOK
<1>9. StreamInv'
  <2>1. sent' = Len(received') + count'
    BY <1>1, <1>2, <1>3
  <2>2. \A i \in 1..count' : buffer'[Cell(read_pos', i - 1)] = Len(received') + i
    BY <1>1, <1>5
  <2>3. write_pos' = Cell(read_pos', count')
    BY <1>1, <1>6, <1>7
  <2>4. \A i \in 1..Len(received') : received'[i] = i
    BY <1>1, <1>2 DEF StreamInv
  <2>5. QED
    BY <2>1, <2>2, <2>3, <2>4 DEF StreamInv, Cell
<1>10. QED
  BY <1>4, <1>8, <1>9 DEF IInv

\* A round of pipe_read: the bytes taken out are the next ones.
LEMMA ReadKeeps ==
    ASSUME IInv, NEW t \in Tasks, Runs(t, "body"), count # 0, pipe_read(t)
    PROVE  IInv'
<1> USE PipeAssumption
<1> DEFINE n == ToRead(t)
<1>1. /\ received' = received \o CopyOut(n) /\ read_pos' = Advance(read_pos, n)
      /\ count' = count - n /\ Round(t, n, "not_full") /\ buffer' = buffer
      /\ write_pos' = write_pos /\ sent' = sent
  BY DEF pipe_read
<1>2. /\ PipeTypeOK /\ StreamInv /\ size \in Nat \ {0} /\ count \in 0..size /\ todo[t] \in Nat
      /\ read_pos \in 0..(size - 1) /\ write_pos \in Cells /\ sent \in Nat
      /\ received \in Seq(Nat)
      /\ Len(received) \in Nat /\ sent = Len(received) + count
      /\ write_pos = Cell(read_pos, count)
  BY DEF IInv, PipeTypeOK, StreamInv, Cells
<1>3. n \in 0..count /\ n \in 0..todo[t] /\ n \in 0..size
  BY <1>2 DEF ToRead, MinOf
<1> HIDE DEF n
<1>4. MonitorInv' /\ todo' \in [Tasks -> Nat]
  BY <1>1, <1>3, RoundKeeps
<1>5. /\ CopyOut(n) \in Seq(Nat) /\ Len(CopyOut(n)) = n
      /\ \A i \in 1..n : CopyOut(n)[i] = Len(received) + i
  BY <1>2, <1>3, CopyOutFacts
<1>6. /\ received' \in Seq(Nat) /\ Len(received') = Len(received) + n
      /\ \A i \in 1..(Len(received) + n) : received'[i] = i
  <2>1. \A i \in 1..Len(received) : received[i] = i
    BY <1>2 DEF StreamInv
  <2>2. QED
    BY <1>1, <1>2, <1>5, <2>1, ContinuedStream
<1>7. read_pos' = Cell(read_pos, n) /\ read_pos' \in Cells
  BY <1>1, <1>2, <1>3, AdvanceFacts DEF Cells
<1>8. ASSUME NEW j \in 0..(count - n) PROVE Cell(read_pos', j) = Cell(read_pos, n + j)
  BY <1>2, <1>3, <1>7 DEF Cell
<1>9. PipeTypeOK'
  BY <1>1, <1>2, <1>3, <1>4, <1>6, <1>7 DEF PipeTypeOK
<1>10. StreamInv'
  <2>1. sent' = Len(received') + count'
    BY <1>1, <1>2, <1>3, <1>6
  <2>2. ASSUME NEW i \in 1..(count - n)
        PROVE  buffer'[Cell(read_pos', i - 1)] = Len(received') + i
    <3>1. /\ i - 1 \in 0..(count - n) /\ n + i \in 1..count
          /\ n + (i - 1) = (n + i) - 1 /\ Len(received') + i = Len(received) + (n + i)
      BY <1>2, <1>3, <1>6
    <3>2. Cell(read_pos', i - 1) = Cell(read_pos, (n + i) - 1)
      BY <1>8, <3>1
    <3>3. buffer[Cell(read_pos, (n + i) - 1)] = Len(received) + (n + i)
      BY <1>2, <3>1 DEF StreamInv
    <3>4. QED
      BY <1>1, <3>1, <3>2, <3>3
  <2>3. write_pos' = Cell(read_pos', count')
    <3>1. count - n \in 0..(count - n) /\ n + (count - n) = count
      BY <1>2, <1>3
    <3>2. QED
      BY <1>1, <1>2, <1>8, <3>1
  <2>4. QED
    BY <1>1, <1>6, <2>1, <2>2, <2>3 DEF StreamInv, Cell
<1>11. QED
  BY <1>4, <1>9, <1>10 DEF IInv

-----------------------------------------------------------------------------
(* The theorems. *)

\* Every step keeps the invariant.
LEMMA NextIInv == IInv /\ [Next]_vars => IInv'
<1> SUFFICES ASSUME IInv, [Next]_vars PROVE IInv'
  OBVIOUS
<1> USE PipeAssumption
<1>1. CASE UNCHANGED vars
  BY <1>1 DEF IInv, vars, monitorVars, pipeVars, MonitorInv, MonitorTypeOK, LockInv, CondInv,
     PlaceInv, Inside, PipeTypeOK, StreamInv, Cell
<1>2. ASSUME NEW t \in Tasks, Call(t) PROVE IInv'
  <2>1. MonitorInv'
    BY <1>2, LockKeeps DEF Call, Enter, IInv
  <2>2. PICK n \in Counts : todo' = [todo EXCEPT ![t] = n]
    BY <1>2 DEF Call
  <2>3. todo' \in [Tasks -> Nat]
    BY <2>2 DEF IInv, PipeTypeOK
  <2>4. QED
    BY <1>2, <2>1, <2>3, OutsideKeeps DEF Call
<1>3. ASSUME NEW t \in Tasks, Continue(t) PROVE IInv'
  <2>1. CASE UNCHANGED pipeVars /\ (Granted(t) \/ Relock(t) \/ Leave(t))
    <3>1. MonitorInv'
      BY <2>1, GrantedKeeps, LockKeeps, LeaveKeeps DEF Relock, IInv
    <3>2. QED
      BY <2>1, <3>1, OutsideKeeps DEF pipeVars, IInv, PipeTypeOK
  <2>2. ASSUME Runs(t, "body"), NEW c \in Conds, condition_wait(t, c), UNCHANGED pipeVars
        PROVE  IInv'
    <3>1. MonitorInv'
      BY <2>2, WaitKeeps DEF IInv
    <3>2. QED
      BY <2>2, <3>1, OutsideKeeps DEF pipeVars, IInv, PipeTypeOK
  <2>3. CASE Runs(t, "body") /\ pipe_write(t)
    BY <2>2, <2>3, WriteKeeps DEF pipe_write
  <2>4. CASE Runs(t, "body") /\ pipe_read(t)
    BY <2>2, <2>4, ReadKeeps DEF pipe_read
  <2>5. QED
    BY <1>3, <2>1, <2>3, <2>4 DEF Continue, Body
<1>4. QED
  BY <1>1, <1>2, <1>3 DEF Next

\* The invariant holds throughout.
THEOREM Invariance == Spec => []IInv
BY InitIInv, NextIInv, PTL DEF Spec

\* What was read from the pipe, followed by what is in it, is what was written:
\* pipe_read and pipe_write neither lose, duplicate nor reorder a byte, whoever
\* reads and writes and however the copies wrap around the end of the buffer.
THEOREM StreamKept == Spec => []ByteStream
<1>1. IInv => ByteStream
  <2> SUFFICES ASSUME IInv PROVE ByteStream
    OBVIOUS
  <2> DEFINE all == [i \in 1..sent |-> i]
             out == received \o CopyOut(count)
  <2>1. /\ PipeTypeOK /\ StreamInv /\ count \in Nat /\ sent \in Nat
        /\ received \in Seq(Nat) /\ Len(received) \in Nat /\ sent = Len(received) + count
        /\ \A i \in 1..Len(received) : received[i] = i
    BY PipeAssumption DEF IInv, PipeTypeOK, StreamInv
  <2>2. /\ CopyOut(count) \in Seq(Nat) /\ Len(CopyOut(count)) = count
        /\ \A i \in 1..count : CopyOut(count)[i] = Len(received) + i
    BY <2>1, CopyOutFacts
  <2>3. out \in Seq(Nat) /\ Len(out) = sent /\ \A i \in 1..sent : out[i] = i
    BY <2>1, <2>2, ContinuedStream
  <2>4. all \in Seq(Nat) /\ Len(all) = sent /\ \A i \in 1..sent : all[i] = i
    BY <2>1
  <2> HIDE DEF all, out
  <2>5. out = all
    BY <2>3, <2>4, SeqEqual
  <2>6. QED
    BY <2>5 DEF ByteStream, all, out
<1>2. QED
  BY <1>1, Invariance, PTL

\* The rounds of pipe_read and pipe_write exclude one another: the mutex of the
\* object and its conditions never let two tasks in.
THEOREM BodiesExclusive == Spec => []OneInside
<1>1. IInv => OneInside
  BY OwnerInside DEF IInv
<1>2. QED
  BY <1>1, Invariance, PTL
=============================================================================
