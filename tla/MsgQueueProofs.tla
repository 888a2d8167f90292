--------------------------- MODULE MsgQueueProofs ---------------------------
(***************************************************************************)
(* Proofs about msg_queue.c for any number of tasks, messages and slots:   *)
(* the ring buffer implements the bounded channel, and no wake-up is lost  *)
(* until a task that was signalled gives up.                               *)
(***************************************************************************)
EXTENDS MsgQueue, MonitorFacts, FiniteSetTheorems, SequenceTheorems, WellFoundedInduction

MqTypeOK ==
    /\ buffer \in [Slots -> Messages \cup {NULL}]
    /\ head \in Slots /\ tail \in Slots
    /\ msg_count \in 0..max_msgs
    /\ op \in [Tasks -> Calls \cup Received \cup {NoOp}]
    /\ timed \subseteq Tasks
    /\ swallowed \in BOOLEAN

\* tail follows the newest message, and every slot in use holds a message.
RingInv ==
    /\ tail = Slot(msg_count + 1)
    /\ \A i \in 1..msg_count : buffer[Slot(i)] \in Messages

\* Who sleeps on which condition, and where a task is that was signalled and has
\* not looked at the result of condition_timedwait.
SleepInv ==
    /\ \A t \in timed : at[t] \in {"lock", "body"}
    /\ \A t \in Tasks : /\ t \in Queued(cond["not_empty"]) => op[t].fn = "receive"
                        /\ t \in Queued(cond["not_full"]) => op[t].fn = "send"

\* The tasks in a call of fn that were signalled and have not tested the loop
\* condition since.
Woken(fn) == {t \in Tasks : op[t].fn = fn /\ (Runs(t, "wait") \/ t \in timed)}

\* While somebody sleeps, there are as many woken receivers as messages, and as
\* many woken senders as free slots.
WakeInv ==
    ~swallowed => /\ cond["not_empty"] # <<>> => msg_count <= Cardinality(Woken("receive"))
                  /\ cond["not_full"] # <<>> =>
                        max_msgs - msg_count <= Cardinality(Woken("send"))

\* The inductive invariant.
IInv == MonitorInv /\ MqTypeOK /\ RingInv /\ SleepInv /\ WakeInv

-----------------------------------------------------------------------------
(* The ring buffer. *)

\* An index that ran past the end of the buffer continues at its start.
LEMMA Wrap ==
    ASSUME NEW x \in 0..(2 * max_msgs - 1)
    PROVE  x % max_msgs = (IF x < max_msgs THEN x ELSE x - max_msgs) /\ x % max_msgs \in Slots
<1>1. max_msgs \in Nat \ {0}
  BY MsgQueueAssumption
<1>2. x % max_msgs = IF x < max_msgs THEN x ELSE x - max_msgs
  BY <1>1
<1>3. QED
  BY <1>1, <1>2 DEF Slots

\* Where the i-th oldest message is.
LEMMA SlotFacts ==
    ASSUME head \in Slots
    PROVE  /\ \A i \in 1..(max_msgs + 1) : Slot(i) \in Slots
           /\ \A i, j \in 1..max_msgs : Slot(i) = Slot(j) => i = j
           /\ \A i \in 2..max_msgs : (Slot(i) - 1 + max_msgs) % max_msgs = Slot(i - 1)
           /\ \A i \in 1..max_msgs : (Slot(i) + 1) % max_msgs = Slot(i + 1)
           /\ (head + 1) % max_msgs \in Slots
           /\ \A i \in 1..max_msgs : (((head + 1) % max_msgs) + i - 1) % max_msgs = Slot(i + 1)
           /\ Slot(1) = head
<1>1. max_msgs \in Nat \ {0} /\ head \in 0..(max_msgs - 1)
  BY MsgQueueAssumption DEF Slots
<1>2. \A i \in 1..(max_msgs + 1) :
        /\ Slot(i) \in Slots
        /\ Slot(i) = IF head + i - 1 < max_msgs THEN head + i - 1 ELSE head + i - 1 - max_msgs
  <2> SUFFICES ASSUME NEW i \in 1..(max_msgs + 1)
               PROVE  /\ Slot(i) \in Slots
                      /\ Slot(i) = IF head + i - 1 < max_msgs THEN head + i - 1
                                   ELSE head + i - 1 - max_msgs
    OBVIOUS
  <2>1. head + i - 1 \in 0..(2 * max_msgs - 1)
    BY <1>1
  <2>2. QED
    BY <1>1, <2>1, Wrap DEF Slot
<1>3. \A i, j \in 1..max_msgs : Slot(i) = Slot(j) => i = j
  BY <1>1, <1>2
<1>4. ASSUME NEW i \in 2..max_msgs PROVE (Slot(i) - 1 + max_msgs) % max_msgs = Slot(i - 1)
  <2>1. Slot(i) - 1 + max_msgs \in 0..(2 * max_msgs - 1) /\ i - 1 \in 1..(max_msgs + 1)
    BY <1>1, <1>2 DEF Slots
  <2>2. QED
    BY <1>1, <1>2, <2>1, Wrap
<1>5. ASSUME NEW i \in 1..max_msgs PROVE (Slot(i) + 1) % max_msgs = Slot(i + 1)
  <2>1. Slot(i) + 1 \in 0..(2 * max_msgs - 1) /\ i + 1 \in 1..(max_msgs + 1)
    BY <1>1, <1>2 DEF Slots
  <2>2. QED
    BY <1>1, <1>2, <2>1, Wrap
<1>6. /\ (head + 1) % max_msgs \in Slots
      /\ (head + 1) % max_msgs = IF head + 1 < max_msgs THEN head + 1 ELSE head + 1 - max_msgs
  <2>1. head + 1 \in 0..(2 * max_msgs - 1)
    BY <1>1
  <2>2. QED
    BY <1>1, <2>1, Wrap
<1>7. ASSUME NEW i \in 1..max_msgs
      PROVE  (((head + 1) % max_msgs) + i - 1) % max_msgs = Slot(i + 1)
  <2> DEFINE h == (head + 1) % max_msgs
  <2>1. h \in Slots /\ h = IF head + 1 < max_msgs THEN head + 1 ELSE head + 1 - max_msgs
    BY <1>6
  <2> HIDE DEF h
  <2>2. h + i - 1 \in 0..(2 * max_msgs - 1) /\ i + 1 \in 1..(max_msgs + 1)
    BY <1>1, <2>1 DEF Slots
  <2>3. (h + i - 1) % max_msgs = IF h + i - 1 < max_msgs THEN h + i - 1 ELSE h + i - 1 - max_msgs
    BY <1>1, <2>1, <2>2, Wrap DEF Slots
  <2>4. (h + i - 1) % max_msgs = Slot(i + 1)
    BY <1>1, <1>2, <2>1, <2>2, <2>3
  <2>5. QED
    BY <2>4 DEF h
<1>8. Slot(1) = head
  BY <1>1, <1>2
<1>9. QED
  BY <1>2, <1>3, <1>4, <1>5, <1>6, <1>7, <1>8

\* A set of numbers has a least one.
LEMMA Least ==
    ASSUME NEW H \in SUBSET Nat, H # {}
    PROVE  \E i \in H : \A j \in H : i <= j
<1>1. PICK i \in H : \A j \in H : <<j, i>> \notin OpToRel(<, Nat)
  BY NatLessThanWellFounded, WFMin
<1>2. \A j \in H : ~(j < i)
  BY <1>1 DEF OpToRel
<1>3. QED
  BY <1>2

\* The search of msgq_receive: the oldest message that matches, if there is one.
LEMMA FindFacts ==
    ASSUME NEW type, msg_count \in Nat
    PROVE  Find(type) # 0 =>
             /\ Find(type) \in 1..msg_count
             /\ type = 0 \/ buffer[Slot(Find(type))].type = type
             /\ \A j \in 1..(Find(type) - 1) : ~(type = 0 \/ buffer[Slot(j)].type = type)
<1> DEFINE hits == {i \in 1..msg_count : type = 0 \/ buffer[Slot(i)].type = type}
<1> SUFFICES ASSUME Find(type) # 0
             PROVE  /\ Find(type) \in hits
                    /\ \A j \in 1..(Find(type) - 1) : j \notin hits
  OBVIOUS
<1>1. hits # {} /\ Find(type) = CHOOSE i \in hits : \A j \in hits : i <= j
  BY DEF Find
<1>2. hits \in SUBSET Nat
  OBVIOUS
<1> HIDE DEF hits
<1>3. \E i \in hits : \A j \in hits : i <= j
  BY <1>1, <1>2, Least
<1>4. Find(type) \in hits /\ \A j \in hits : Find(type) <= j
  BY <1>1, <1>3
<1>5. Find(type) \in Nat /\ \A j \in hits : j \in Nat
  BY <1>2, <1>4
<1>6. QED
  BY <1>4, <1>5

\* The messages in the buffer are a sequence.
LEMMA ChanFacts ==
    ASSUME MqTypeOK, RingInv
    PROVE  /\ chan \in Seq(Messages) /\ Len(chan) = msg_count
           /\ \A i \in 1..msg_count : chan[i] = buffer[Slot(i)]
<1>1. msg_count \in Nat /\ \A i \in 1..msg_count : buffer[Slot(i)] \in Messages
  BY DEF MqTypeOK, RingInv
<1>2. QED
  BY <1>1 DEF chan

\* Storing a message appends it to the channel.
LEMMA SendRing ==
    ASSUME MqTypeOK, RingInv, NEW m \in Messages, msg_count < max_msgs,
           buffer' = [buffer EXCEPT ![tail] = m], tail' = (tail + 1) % max_msgs,
           msg_count' = msg_count + 1, head' = head
    PROVE  /\ buffer' \in [Slots -> Messages \cup {NULL}] /\ head' \in Slots /\ tail' \in Slots
           /\ msg_count' \in 0..max_msgs
           /\ RingInv'
           /\ chan' = Append(chan, m)
<1>1. /\ max_msgs \in Nat \ {0} /\ msg_count \in Nat /\ head \in Slots /\ tail \in Slots
      /\ buffer \in [Slots -> Messages \cup {NULL}]
  BY MsgQueueAssumption DEF MqTypeOK
<1>2. \A i \in 1..msg_count : Slot(i) \in Slots /\ Slot(i) # tail
  <2>1. msg_count + 1 \in 1..max_msgs /\ tail = Slot(msg_count + 1)
    BY <1>1 DEF RingInv
  <2>2. QED
    BY <1>1, <2>1, SlotFacts
<1>3. \A i \in 1..(max_msgs + 1) : Slot(i)' = Slot(i)
  BY DEF Slot
<1>4. /\ buffer' \in [Slots -> Messages \cup {NULL}] /\ buffer'[tail] = m
      /\ \A i \in 1..msg_count : buffer'[Slot(i)] = buffer[Slot(i)]
  BY <1>1, <1>2
<1>5. tail' \in Slots /\ tail' = Slot(msg_count + 2) /\ tail = Slot(msg_count + 1)
  <2>1. msg_count + 1 \in 1..max_msgs /\ tail = Slot(msg_count + 1)
    BY <1>1 DEF RingInv
  <2>2. (Slot(msg_count + 1) + 1) % max_msgs = Slot((msg_count + 1) + 1)
    BY <1>1, <2>1, SlotFacts
  <2>3. (msg_count + 1) + 1 = msg_count + 2 /\ msg_count + 2 \in 1..(max_msgs + 1)
    BY <1>1
  <2>4. QED
    BY <1>1, <2>1, <2>2, <2>3, SlotFacts
<1>6. RingInv'
  <2>1. tail' = Slot(msg_count + 1)'
    <3>1. Slot(msg_count + 1)' = (head' + (msg_count' + 1) - 1) % max_msgs
      BY DEF Slot
    <3>2. msg_count' + 1 = msg_count + 2
      BY <1>1
    <3>3. QED
      BY <1>5, <3>1, <3>2 DEF Slot
  <2>2. \A i \in 1..msg_count' : buffer'[Slot(i)'] \in Messages
    <3> SUFFICES ASSUME NEW i \in 1..(msg_count + 1) PROVE buffer'[Slot(i)'] \in Messages
      OBVIOUS
    <3>1. CASE i = msg_count + 1
      BY <3>1, <1>1, <1>3, <1>4, <1>5
    <3>2. CASE i \in 1..msg_count
      BY <3>2, <1>1, <1>3, <1>4 DEF RingInv
    <3>3. QED
      BY <1>1, <3>1, <3>2
  <2>3. QED
    BY <2>1, <2>2 DEF RingInv
<1>7. chan' = Append(chan, m)
  <2>1. chan' = [i \in 1..(msg_count + 1) |-> buffer'[Slot(i)']]
    BY DEF chan
  <2>2. \A i \in 1..(msg_count + 1) :
          buffer'[Slot(i)'] = IF i = msg_count + 1 THEN m ELSE chan[i]
    BY <1>1, <1>3, <1>4, <1>5, ChanFacts
  <2>3. chan \in Seq(Messages) /\ Len(chan) = msg_count
    BY ChanFacts
  <2>4. /\ Append(chan, m) \in Seq(Messages) /\ Len(Append(chan, m)) = msg_count + 1
        /\ \A i \in 1..(msg_count + 1) :
              Append(chan, m)[i] = IF i = msg_count + 1 THEN m ELSE chan[i]
    BY <1>1, <2>3, AppendProperties
  <2>5. chan' \in Seq(Messages) /\ Len(chan') = msg_count + 1
    BY <1>1, <1>6, <2>1 DEF RingInv
  <2>6. QED
    BY <2>1, <2>2, <2>4, <2>5, SeqEqual
<1>8. QED
  BY <1>1, <1>4, <1>5, <1>6, <1>7

\* What is left of a sequence without its k-th element.
LEMMA WithoutElement ==
    ASSUME NEW M, NEW s \in Seq(M), NEW k \in 1..Len(s), NEW r,
           r = [i \in 1..(Len(s) - 1) |-> IF i < k THEN s[i] ELSE s[i + 1]]
    PROVE  r = SubSeq(s, 1, k - 1) \o SubSeq(s, k + 1, Len(s))
<1> DEFINE a == SubSeq(s, 1, k - 1)
           b == SubSeq(s, k + 1, Len(s))
<1>1. /\ a \in Seq(M) /\ Len(a) = k - 1
      /\ \A i \in 1..(k - 1) : a[i] = s[i]
  OBVIOUS
<1>2. /\ b \in Seq(M) /\ Len(b) = Len(s) - k
      /\ \A i \in 1..(Len(s) - k) : b[i] = s[k + i]
  OBVIOUS
<1> HIDE DEF a, b
<1>3. /\ a \o b \in Seq(M) /\ Len(a \o b) = Len(s) - 1
      /\ \A i \in 1..(Len(s) - 1) : (a \o b)[i] = IF i < k THEN s[i] ELSE s[i + 1]
  <2>1. /\ a \o b \in Seq(M) /\ Len(a \o b) = Len(a) + Len(b)
        /\ \A i \in 1..(Len(a) + Len(b)) :
              (a \o b)[i] = IF i <= Len(a) THEN a[i] ELSE b[i - Len(a)]
    BY <1>1, <1>2, ConcatProperties
  <2>2. ASSUME NEW i \in 1..(Len(s) - 1), i >= k PROVE b[i - Len(a)] = s[i + 1]
    <3>1. i - Len(a) \in 1..(Len(s) - k) /\ k + (i - Len(a)) = i + 1
      BY <1>1, <2>2
    <3>2. QED
      BY <3>1, <1>2
  <2>3. QED
    BY <1>1, <1>2, <2>1, <2>2
<1>4. r \in Seq(M) /\ Len(r) = Len(s) - 1
  OBVIOUS
<1>5. QED
  BY <1>3, <1>4, SeqEqual DEF a, b

\* Taking the k-th message out leaves the others in their order.
LEMMA DequeueRing ==
    ASSUME MqTypeOK, RingInv, NEW k \in 1..msg_count, Dequeue(k),
           msg_count' = msg_count - 1, tail' = tail
    PROVE  /\ buffer' \in [Slots -> Messages \cup {NULL}] /\ head' \in Slots /\ tail' \in Slots
           /\ msg_count' \in 0..max_msgs
           /\ RingInv'
           /\ chan' = SubSeq(chan, 1, k - 1) \o SubSeq(chan, k + 1, Len(chan))
<1>1. /\ max_msgs \in Nat \ {0} /\ msg_count \in 0..max_msgs /\ head \in Slots /\ tail \in Slots
      /\ buffer \in [Slots -> Messages \cup {NULL}] /\ k \in 1..max_msgs
  BY MsgQueueAssumption DEF MqTypeOK
<1>2. /\ head' = (head + 1) % max_msgs /\ head' \in Slots
      /\ \A i \in 1..max_msgs : Slot(i)' = Slot(i + 1)
  <2>1. head' = (head + 1) % max_msgs /\ head' \in Slots
    BY <1>1, SlotFacts DEF Dequeue
  <2>2. \A i \in 1..max_msgs : Slot(i)' = (((head + 1) % max_msgs) + i - 1) % max_msgs
    BY <2>1 DEF Slot
  <2>3. QED
    BY <1>1, <2>1, <2>2, SlotFacts
<1>3. buffer' = [s \in Slots |-> IF \E j \in 2..k : s = Slot(j)
                                 THEN buffer[(s - 1 + max_msgs) % max_msgs] ELSE buffer[s]]
  BY DEF Dequeue
<1>4. \A i \in 1..(msg_count - 1) :
        buffer'[Slot(i)'] = IF i < k THEN buffer[Slot(i)] ELSE buffer[Slot(i + 1)]
  <2> SUFFICES ASSUME NEW i \in 1..(msg_count - 1)
               PROVE  buffer'[Slot(i + 1)] =
                         IF i < k THEN buffer[Slot(i)] ELSE buffer[Slot(i + 1)]
    BY <1>1, <1>2
  <2>1. i + 1 \in 1..max_msgs /\ i + 1 \in 2..max_msgs /\ (i + 1) - 1 = i
    BY <1>1
  <2>2. Slot(i + 1) \in Slots
    BY <1>1, <2>1, SlotFacts
  <2>3. (\E j \in 2..k : Slot(i + 1) = Slot(j)) <=> i < k
    <3>1. ASSUME NEW j \in 2..k, Slot(i + 1) = Slot(j) PROVE i < k
      <4>1. j \in 1..max_msgs
        BY <1>1
      <4>2. i + 1 = j
        BY <1>1, <2>1, <3>1, <4>1, SlotFacts
      <4>3. QED
        BY <1>1, <4>2
    <3>2. ASSUME i < k PROVE \E j \in 2..k : Slot(i + 1) = Slot(j)
      <4>1. i + 1 \in 2..k
        BY <1>1, <3>2
      <4>2. QED
        BY <4>1
    <3>3. QED
      BY <3>1, <3>2
  <2>4. (Slot(i + 1) - 1 + max_msgs) % max_msgs = Slot(i)
    BY <1>1, <2>1, SlotFacts
  <2>5. QED
    BY <1>3, <2>2, <2>3, <2>4
<1>5. RingInv'
  <2>1. tail' = Slot(msg_count + 1)'
    <3>1. Slot(msg_count + 1)' = (head' + (msg_count' + 1) - 1) % max_msgs
      BY DEF Slot
    <3>2. msg_count' + 1 = msg_count /\ msg_count \in 1..max_msgs
      BY <1>1
    <3>3. (head' + msg_count - 1) % max_msgs = Slot(msg_count + 1)
      BY <1>1, <1>2, <3>2, SlotFacts
    <3>4. QED
      BY <3>1, <3>2, <3>3 DEF RingInv
  <2>2. ASSUME NEW i \in 1..(msg_count - 1) PROVE buffer'[Slot(i)'] \in Messages
    <3>1. i \in 1..msg_count /\ i + 1 \in 1..msg_count
      BY <1>1
    <3>2. QED
      BY <1>4, <3>1 DEF RingInv
  <2>3. QED
    BY <2>1, <2>2 DEF RingInv
<1>6. chan' = SubSeq(chan, 1, k - 1) \o SubSeq(chan, k + 1, Len(chan))
  <2>1. /\ chan \in Seq(Messages) /\ Len(chan) = msg_count
        /\ \A i \in 1..msg_count : chan[i] = buffer[Slot(i)]
    BY ChanFacts
  <2>2. chan' = [i \in 1..(msg_count - 1) |-> buffer'[Slot(i)']]
    BY DEF chan
  <2>3. ASSUME NEW i \in 1..(msg_count - 1)
        PROVE  buffer'[Slot(i)'] = IF i < k THEN chan[i] ELSE chan[i + 1]
    <3>1. i \in 1..msg_count /\ i + 1 \in 1..msg_count
      BY <1>1
    <3>2. QED
      BY <1>4, <2>1, <3>1
  <2>4. chan' = [i \in 1..(Len(chan) - 1) |-> IF i < k THEN chan[i] ELSE chan[i + 1]]
    BY <2>1, <2>2, <2>3
  <2>5. QED
    BY <2>1, <2>4, WithoutElement
<1>7. buffer' \in [Slots -> Messages \cup {NULL}]
  <2> SUFFICES ASSUME NEW s \in Slots
               PROVE  (IF \E j \in 2..k : s = Slot(j)
                       THEN buffer[(s - 1 + max_msgs) % max_msgs] ELSE buffer[s])
                         \in Messages \cup {NULL}
    BY <1>3
  <2>1. s - 1 + max_msgs \in 0..(2 * max_msgs - 1)
    BY <1>1 DEF Slots
  <2>2. (s - 1 + max_msgs) % max_msgs \in Slots
    BY <1>1, <2>1, Wrap
  <2>3. QED
    BY <1>1, <2>2
<1>8. QED
  BY <1>1, <1>2, <1>5, <1>6, <1>7

-----------------------------------------------------------------------------
(* The invariant holds initially, and the steps outside the bodies keep it. *)

\* A step of the channel.
ChanStep == [Channel!ChanNext]_<<chan, got>>

\* A set of tasks, and the set with one task more or less, can be counted.
LEMMA TasksFinite ==
    ASSUME NEW S \in SUBSET Tasks
    PROVE  /\ Cardinality(S) \in Nat
           /\ S # {} <=> Cardinality(S) > 0
           /\ \A t \in Tasks : Cardinality(S \ {t}) >= Cardinality(S) - 1
           /\ \A t \in Tasks \ S : Cardinality(S \cup {t}) = Cardinality(S) + 1
<1>1. IsFiniteSet(S)
  BY MsgQueueAssumption, FS_Subset
<1>2. Cardinality(S) \in Nat
  BY <1>1, FS_CardinalityType
<1>3. S # {} <=> Cardinality(S) > 0
  BY <1>1, <1>2, FS_EmptySet
<1>4. \A t \in Tasks : Cardinality(S \ {t}) >= Cardinality(S) - 1
  BY <1>1, <1>2, FS_RemoveElement
<1>5. \A t \in Tasks \ S : Cardinality(S \cup {t}) = Cardinality(S) + 1
  BY <1>1, <1>2, FS_AddElement
<1>6. QED
  BY <1>2, <1>3, <1>4, <1>5

\* An untouched ring buffer.
LEMMA SameRing ==
    ASSUME UNCHANGED mqVars
    PROVE  (RingInv => RingInv') /\ chan' = chan
<1>1. head' = head /\ tail' = tail /\ msg_count' = msg_count /\ buffer' = buffer
  BY DEF mqVars
<1>2. QED
  BY <1>1 DEF RingInv, chan, Slot

\* A queue that msgq_create has just set up is an empty channel.
LEMMA InitIInv == Init => IInv /\ Channel!ChanInit
<1> SUFFICES ASSUME Init PROVE IInv /\ Channel!ChanInit
  OBVIOUS
<1> USE SyncAssumption, MsgQueueAssumption DEF Init
<1>1. MonitorInv
  BY MonitorInitInv
<1>2. MqTypeOK
  <2>1. 0 \in Slots /\ msg_count \in 0..max_msgs
    BY DEF Slots
  <2>2. buffer \in [Slots -> Messages \cup {NULL}]
    OBVIOUS
  <2>3. op \in [Tasks -> Calls \cup Received \cup {NoOp}]
    OBVIOUS
  <2>4. QED
    BY <2>1, <2>2, <2>3 DEF MqTypeOK
<1>3. RingInv
  <2>1. Slot(1) = head
    BY <1>2, SlotFacts DEF MqTypeOK
  <2>2. QED
    BY <2>1 DEF RingInv
<1>4. cond["not_empty"] = <<>> /\ cond["not_full"] = <<>>
  BY DEF MonitorInit
<1>5. SleepInv /\ WakeInv
  BY <1>4, QueuedBasics DEF SleepInv, WakeInv
<1>6. chan = <<>> /\ got = [t \in Tasks |-> NULL]
  BY DEF chan, got, NoOp
<1>7. QED
  BY <1>1, <1>2, <1>3, <1>5, <1>6 DEF IInv, Channel!ChanInit

\* Calling msgq_send or msgq_receive, up to its mutex_lock.
LEMMA CallKeeps ==
    ASSUME IInv, NEW t \in Tasks, Call(t)
    PROVE  IInv' /\ UNCHANGED <<chan, got>>
<1> USE SyncAssumption, MsgQueueAssumption DEF IInv
<1>1. PICK call \in Calls : op' = [op EXCEPT ![t] = call]
  BY DEF Call
<1>2. /\ op[t] = NoOp /\ cond' = cond /\ timed' = timed /\ swallowed' = swallowed
      /\ UNCHANGED mqVars /\ Runs(t, "idle") /\ Lock(t)
  BY DEF Call, Enter
<1>3. MonitorInv'
  BY <1>2, LockKeeps
<1>4. /\ at[t] = "idle" /\ at'[t] \in {"body", "lock"}
      /\ \A u \in Tasks \ {t} : at'[u] = at[u] /\ state'[u] = state[u]
  BY <1>2 DEF Lock, SetBlocked, Runs, MonitorInv, MonitorTypeOK
<1>5. /\ op[t].fn = "none" /\ op'[t] = call /\ call.fn \in {"send", "receive"}
      /\ \A u \in Tasks \ {t} : op'[u] = op[u]
      /\ op' \in [Tasks -> Calls \cup Received \cup {NoOp}]
  BY <1>1, <1>2 DEF MqTypeOK, NoOp, Calls
<1>6. MqTypeOK'
  BY <1>2, <1>5 DEF MqTypeOK, mqVars
<1>7. RingInv' /\ chan' = chan
  BY <1>2, SameRing
<1>8. t \notin timed /\ t \notin Queued(cond["not_empty"]) /\ t \notin Queued(cond["not_full"])
  BY <1>4 DEF SleepInv, MonitorInv, CondInv
<1>9. SleepInv'
  BY <1>2, <1>4, <1>5, <1>8 DEF SleepInv, MqTypeOK
<1>10. \A fn \in {"send", "receive"} : Woken(fn)' = Woken(fn)
  BY <1>2, <1>4, <1>5, <1>8 DEF Woken, Runs
<1>11. WakeInv'
  BY <1>2, <1>10 DEF WakeInv, mqVars
<1>12. got' = got
  BY <1>5 DEF got
<1>13. QED
  BY <1>3, <1>6, <1>7, <1>9, <1>11, <1>12

\* Returning from mutex_lock.
LEMMA GrantKeeps ==
    ASSUME IInv, NEW t \in Tasks, Granted(t), UNCHANGED <<mqVars, op, timed, swallowed>>
    PROVE  IInv' /\ UNCHANGED <<chan, got>>
<1> USE SyncAssumption, MsgQueueAssumption DEF IInv
<1>1. MonitorInv'
  BY GrantedKeeps
<1>2. /\ cond' = cond /\ state' = state /\ at[t] = "lock" /\ at'[t] = "body"
      /\ \A u \in Tasks \ {t} : at'[u] = at[u]
  BY DEF Granted, Runs, MonitorInv, MonitorTypeOK
<1>3. MqTypeOK'
  BY DEF MqTypeOK, mqVars
<1>4. RingInv' /\ chan' = chan /\ got' = got
  BY SameRing DEF got
<1>5. SleepInv'
  BY <1>2 DEF SleepInv, MqTypeOK
<1>6. \A fn \in {"send", "receive"} : Woken(fn)' = Woken(fn)
  BY <1>2 DEF Woken, Runs
<1>7. WakeInv'
  BY <1>2, <1>6 DEF WakeInv, mqVars
<1>8. QED
  BY <1>1, <1>3, <1>4, <1>5, <1>7

\* The end of condition_timedwait: a woken task stays one on its way to the loop test.
LEMMA RewaitKeeps ==
    ASSUME IInv, NEW t \in Tasks, Rewait(t)
    PROVE  IInv' /\ UNCHANGED <<chan, got>>
<1> USE SyncAssumption, MsgQueueAssumption DEF IInv
<1>1. /\ cond' = cond /\ timed' = timed \cup {t} /\ swallowed' = swallowed /\ op' = op
      /\ UNCHANGED mqVars /\ Runs(t, "wait") /\ Lock(t)
  BY DEF Rewait, Relock
<1>2. MonitorInv'
  BY <1>1, LockKeeps
<1>3. /\ at'[t] \in {"body", "lock"}
      /\ \A u \in Tasks \ {t} : at'[u] = at[u] /\ state'[u] = state[u]
  BY <1>1 DEF Lock, SetBlocked, MonitorInv, MonitorTypeOK
<1>4. MqTypeOK'
  BY <1>1 DEF MqTypeOK, mqVars
<1>5. RingInv' /\ chan' = chan /\ got' = got
  BY <1>1, SameRing DEF got
<1>6. SleepInv'
  BY <1>1, <1>3 DEF SleepInv, MqTypeOK
<1>7. \A fn \in {"send", "receive"} : Woken(fn)' = Woken(fn)
  BY <1>1, <1>3 DEF Woken, Runs
<1>8. WakeInv'
  BY <1>1, <1>7 DEF WakeInv, mqVars
<1>9. QED
  BY <1>2, <1>4, <1>5, <1>6, <1>8

\* The return from msgq_send or msgq_receive.
LEMMA ReturnKeeps ==
    ASSUME IInv, NEW t \in Tasks, Return(t)
    PROVE  IInv' /\ ChanStep
<1> USE SyncAssumption, MsgQueueAssumption DEF IInv
<1>1. MonitorInv'
  BY LeaveKeeps DEF Return
<1>2. /\ cond' = cond /\ UNCHANGED <<mqVars, timed, swallowed>> /\ op' = [op EXCEPT ![t] = NoOp]
      /\ at[t] = "unlock" /\ at'[t] = "idle" /\ \A u \in Tasks \ {t} : at'[u] = at[u]
      /\ \A u \in Tasks : state'[u] = IF u \in UnlockWakes(lock, t) THEN "TASK_READY" ELSE state[u]
  BY DEF Return, Leave, Runs, MonitorInv, MonitorTypeOK, SetReady
<1>3. /\ op'[t].fn = "none" /\ \A u \in Tasks \ {t} : op'[u] = op[u]
      /\ op' \in [Tasks -> Calls \cup Received \cup {NoOp}]
  BY <1>2 DEF MqTypeOK, NoOp
<1>4. MqTypeOK'
  BY <1>2, <1>3 DEF MqTypeOK, mqVars
<1>5. RingInv' /\ chan' = chan
  BY <1>2, SameRing
<1>6. t \notin timed /\ t \notin Queued(cond["not_empty"]) /\ t \notin Queued(cond["not_full"])
  BY <1>2 DEF SleepInv, MonitorInv, CondInv
<1>7. SleepInv'
  BY <1>2, <1>3, <1>6 DEF SleepInv, MqTypeOK
<1>8. \A u \in UnlockWakes(lock, t) : u \in Tasks => at[u] = "lock"
  <2>1. lock.owner = t
    BY <1>2 DEF MonitorInv, PlaceInv, Inside
  <2>2. UnlockWakes(lock, t) \subseteq Queued(lock.waiting_tasks)
    BY <2>1, UnlockFacts
  <2>3. QED
    BY <2>2 DEF MonitorInv, LockInv
<1>9. \A fn \in {"send", "receive"} : Woken(fn)' = Woken(fn)
  BY <1>2, <1>3, <1>6, <1>8 DEF Woken, Runs
<1>10. WakeInv'
  BY <1>2, <1>9 DEF WakeInv, mqVars
<1>11. got' = [got EXCEPT ![t] = NULL]
  BY <1>3 DEF got
<1>12. ChanStep
  <2>1. CASE got[t] = NULL
    <3>1. got' = got
      BY <1>11, <2>1 DEF got
    <3>2. QED
      BY <1>5, <3>1 DEF ChanStep
  <2>2. CASE got[t] # NULL
    <3>1. Channel!Return(t)
      BY <1>5, <1>11, <2>2 DEF Channel!Return
    <3>2. QED
      BY <3>1 DEF ChanStep, Channel!ChanNext
  <2>3. QED
    BY <2>1, <2>2
<1>13. QED
  BY <1>1, <1>4, <1>5, <1>7, <1>10, <1>12

-----------------------------------------------------------------------------
(* The bodies of msgq_send and msgq_receive. *)

\* What holds of a task in the body of its call.
LEMMA InBody ==
    ASSUME IInv, NEW t \in Tasks, Runs(t, "body")
    PROVE  /\ at[t] = "body" /\ state[t] = "TASK_READY" /\ lock.owner = t
           /\ t \notin Queued(cond["not_empty"]) /\ t \notin Queued(cond["not_full"])
BY MsgQueueAssumption DEF IInv, Runs, MonitorInv, CondInv, PlaceInv, Inside

\* A call that gives up: it came too late, does not want to wait, or finds no message
\* of its type.  If it had been signalled, the signal is swallowed.
LEMMA GiveUpKeeps ==
    ASSUME IInv, NEW t \in Tasks, Runs(t, "body"), Finish(t, NULL), UNCHANGED <<mqVars, op>>,
           timed' = timed \ {t}, swallowed' = (swallowed \/ t \in timed)
    PROVE  IInv' /\ UNCHANGED <<chan, got>>
<1> USE SyncAssumption, MsgQueueAssumption DEF IInv
<1>1. MonitorInv' /\ at' = [at EXCEPT ![t] = "unlock"] /\ cond' = cond /\ state' = state
  BY FinishKeeps
<1>2. at[t] = "body" /\ at'[t] = "unlock" /\ \A u \in Tasks \ {t} : at'[u] = at[u]
  BY <1>1 DEF Runs, MonitorInv, MonitorTypeOK
<1>3. MqTypeOK'
  BY DEF MqTypeOK, mqVars
<1>4. RingInv' /\ chan' = chan /\ got' = got
  BY SameRing DEF got
<1>5. SleepInv'
  BY <1>1, <1>2 DEF SleepInv, MqTypeOK
<1>6. CASE t \in timed
  BY <1>1, <1>3, <1>4, <1>5, <1>6 DEF WakeInv
<1>7. CASE t \notin timed
  <2>1. \A fn \in {"send", "receive"} : Woken(fn)' = Woken(fn)
    BY <1>1, <1>2, <1>7 DEF Woken, Runs
  <2>2. WakeInv'
    BY <1>1, <1>7, <2>1 DEF WakeInv, mqVars
  <2>3. QED
    BY <1>1, <1>3, <1>4, <1>5, <2>2
<1>8. QED
  BY <1>6, <1>7

\* A call that goes to sleep, (again) after it has tested its loop condition.
LEMMA SleepKeeps ==
    ASSUME IInv, NEW t \in Tasks, Runs(t, "body"), NEW c \in Conds, condition_wait(t, c),
           UNCHANGED <<mqVars, op>>, timed' = timed \ {t}, swallowed' = swallowed,
           \/ c = "not_full" /\ op[t].fn = "send" /\ Full
           \/ c = "not_empty" /\ op[t].fn = "receive" /\ Empty
    PROVE  IInv' /\ UNCHANGED <<chan, got>>
<1> USE SyncAssumption, MsgQueueAssumption DEF IInv
<1>1. /\ MonitorInv' /\ Queued(cond'[c]) = Queued(cond[c]) \cup {t}
      /\ \A d \in Conds \ {c} : cond'[d] = cond[d]
  BY WaitKeeps
<1>2. /\ at[t] = "body" /\ at'[t] = "wait" /\ \A u \in Tasks \ {t} : at'[u] = at[u]
      /\ state'[t] = "TASK_BLOCKED"
      /\ \A u \in Tasks : at[u] = "wait" => state'[u] = state[u]
  <2>1. lock.owner = t /\ at[t] = "body"
    BY InBody
  <2>2. UnlockWakes(lock, t) \subseteq Queued(lock.waiting_tasks)
    BY <2>1, UnlockFacts
  <2>3. \A u \in UnlockWakes(lock, t) : u \in Tasks => at[u] = "lock"
    BY <2>2 DEF MonitorInv, LockInv
  <2>4. /\ \A u \in Tasks : state'[u] = IF u \in UnlockWakes(lock, t) THEN "TASK_READY"
                                        ELSE IF u = t THEN "TASK_BLOCKED" ELSE state[u]
        /\ at' = [at EXCEPT ![t] = "wait"]
    BY DEF condition_wait, SetReady, SetBlocked, MonitorInv, MonitorTypeOK
  <2>5. QED
    BY <2>1, <2>3, <2>4 DEF MonitorInv, MonitorTypeOK
<1>3. MqTypeOK'
  BY DEF MqTypeOK, mqVars
<1>4. RingInv' /\ chan' = chan /\ got' = got
  BY SameRing DEF got
<1>5. SleepInv'
  BY <1>1, <1>2 DEF SleepInv, MqTypeOK
<1>6. \A fn \in {"send", "receive"} :
        Woken(fn)' \in SUBSET Tasks /\ (fn # op[t].fn => Woken(fn)' = Woken(fn))
  BY <1>2 DEF Woken, Runs
<1>7. WakeInv'
  <2>1. CASE c = "not_full"
    <3>1. max_msgs - msg_count' <= 0
      BY <2>1 DEF Full, Empty, mqVars, MqTypeOK
    <3>2. max_msgs - msg_count' <= Cardinality(Woken("send")')
      BY <1>6, <3>1, TasksFinite DEF mqVars, MqTypeOK
    <3>3. Woken("receive")' = Woken("receive") /\ cond'["not_empty"] = cond["not_empty"]
      BY <1>1, <1>6, <2>1
    <3>4. QED
      BY <3>2, <3>3 DEF WakeInv, mqVars
  <2>2. CASE c = "not_empty"
    <3>1. msg_count' <= Cardinality(Woken("receive")')
      BY <1>6, <2>2, TasksFinite DEF Full, Empty, mqVars
    <3>2. Woken("send")' = Woken("send") /\ cond'["not_full"] = cond["not_full"]
      BY <1>1, <1>6, <2>2
    <3>3. QED
      BY <3>1, <3>2 DEF WakeInv, mqVars
  <2>3. QED
    BY <2>1, <2>2
<1>8. QED
  BY <1>1, <1>3, <1>4, <1>5, <1>7

\* msgq_send stores its message and wakes one receiver.
LEMMA SendKeeps ==
    ASSUME IInv, NEW t \in Tasks, Runs(t, "body"), op[t].fn = "send", ~Full,
           buffer' = [buffer EXCEPT ![tail] = op[t].msg], tail' = (tail + 1) % max_msgs,
           msg_count' = msg_count + 1, head' = head, Finish(t, "not_empty"),
           op' = op, timed' = timed \ {t}, swallowed' = swallowed
    PROVE  IInv' /\ ChanStep
<1> USE SyncAssumption, MsgQueueAssumption DEF IInv
<1> DEFINE W == SignalWakes("not_empty")
<1>1. /\ MonitorInv' /\ at' = [at EXCEPT ![t] = "unlock"]
      /\ Queued(cond'["not_empty"]) = Queued(cond["not_empty"]) \ W
      /\ cond'["not_full"] = cond["not_full"]
      /\ \A u \in Tasks : state'[u] = IF u \in W THEN "TASK_READY" ELSE state[u]
  BY FinishKeeps DEF SetReady
<1>2. at[t] = "body" /\ at'[t] = "unlock" /\ \A u \in Tasks \ {t} : at'[u] = at[u]
  BY <1>1 DEF Runs, MonitorInv, MonitorTypeOK
<1>3. /\ W \subseteq Queued(cond["not_empty"]) \cap Tasks
      /\ cond["not_empty"] # <<>> => W = {FirstWaiting(cond["not_empty"])}
      /\ cond'["not_empty"] \in Seq(Tasks) /\ cond["not_empty"] \in Seq(Tasks)
  BY <1>1, SignalFacts DEF MonitorInv, MonitorTypeOK
<1> HIDE DEF W
<1>4. op[t].msg \in Messages /\ msg_count < max_msgs /\ msg_count \in Nat
  BY DEF MqTypeOK, Calls, Received, NoOp, Full
<1>5. /\ buffer' \in [Slots -> Messages \cup {NULL}] /\ head' \in Slots /\ tail' \in Slots
      /\ msg_count' \in 0..max_msgs
      /\ RingInv'
      /\ chan' = Append(chan, op[t].msg)
  BY <1>4, SendRing
<1>6. MqTypeOK'
  BY <1>5 DEF MqTypeOK
<1>7. SleepInv'
  BY <1>1, <1>2 DEF SleepInv, MqTypeOK
<1>8. \A u \in W : at[u] = "wait" /\ state[u] = "TASK_BLOCKED" /\ op[u].fn = "receive"
  BY <1>3 DEF MonitorInv, CondInv, SleepInv
<1>9. /\ Woken("receive")' = Woken("receive") \cup W
      /\ Woken("send")' = Woken("send") \ {t}
      /\ Woken("receive") \cap W = {}
  <2>1. Woken("receive")' = Woken("receive") \cup W
    BY <1>1, <1>2, <1>3, <1>8 DEF Woken, Runs
  <2>2. Woken("send")' = Woken("send") \ {t}
    BY <1>1, <1>2, <1>3, <1>8 DEF Woken, Runs
  <2>3. Woken("receive") \cap W = {}
    BY <1>8 DEF Woken, Runs, SleepInv
  <2>4. QED
    BY <2>1, <2>2, <2>3
<1>10. WakeInv'
  <2> SUFFICES ASSUME ~swallowed
               PROVE  /\ cond'["not_empty"] # <<>> =>
                           msg_count' <= Cardinality(Woken("receive")')
                      /\ cond'["not_full"] # <<>> =>
                           max_msgs - msg_count' <= Cardinality(Woken("send")')
    BY DEF WakeInv
  <2>1. Woken("receive") \in SUBSET Tasks /\ Woken("send") \in SUBSET Tasks
    BY DEF Woken
  <2>2. ASSUME cond'["not_empty"] # <<>> PROVE msg_count' <= Cardinality(Woken("receive")')
    <3>1. cond["not_empty"] # <<>>
      BY <1>1, <1>3, <2>2, QueuedBasics
    <3>2. PICK f \in Tasks \ Woken("receive") : W = {f}
      BY <1>3, <1>9, <3>1
    <3>3. Cardinality(Woken("receive")') = Cardinality(Woken("receive")) + 1
      BY <1>9, <2>1, <3>2, TasksFinite
    <3>4. msg_count <= Cardinality(Woken("receive")) /\ Cardinality(Woken("receive")) \in Nat
      BY <2>1, <3>1, TasksFinite DEF WakeInv
    <3>5. QED
      BY <1>4, <3>3, <3>4
  <2>3. ASSUME cond'["not_full"] # <<>>
        PROVE  max_msgs - msg_count' <= Cardinality(Woken("send")')
    <3>1. /\ max_msgs - msg_count <= Cardinality(Woken("send"))
          /\ Cardinality(Woken("send")) \in Nat
      BY <1>1, <2>1, <2>3, TasksFinite DEF WakeInv
    <3>2. /\ Cardinality(Woken("send") \ {t}) >= Cardinality(Woken("send")) - 1
          /\ Cardinality(Woken("send") \ {t}) \in Nat
      BY <2>1, TasksFinite
    <3>3. Cardinality(Woken("send")') = Cardinality(Woken("send") \ {t})
      BY <1>9
    <3>4. max_msgs \in Nat /\ max_msgs - msg_count' = max_msgs - msg_count - 1
      BY <1>4
    <3>5. QED
      BY <1>4, <3>1, <3>2, <3>3, <3>4
  <2>4. QED
    BY <2>2, <2>3
<1>11. ChanStep
  <2>1. Len(chan) < max_msgs
    BY <1>4, ChanFacts
  <2>2. got' = got
    BY DEF got
  <2>3. Channel!Send(op[t].msg)
    BY <1>5, <2>1, <2>2 DEF Channel!Send
  <2>4. QED
    BY <1>4, <2>3 DEF ChanStep, Channel!ChanNext
<1>12. QED
  BY <1>1, <1>5, <1>6, <1>7, <1>10, <1>11

\* msgq_receive takes a message out and wakes one sender.
LEMMA ReceiveKeeps ==
    ASSUME IInv, NEW t \in Tasks, Runs(t, "body"), op[t].fn = "receive",
           Find(op[t].type) # 0,
           op' = [op EXCEPT ![t] = [fn |-> "received", type |-> op[t].type,
                                    msg |-> buffer[Slot(Find(op[t].type))]]],
           Dequeue(Find(op[t].type)), msg_count' = msg_count - 1, tail' = tail,
           Finish(t, "not_full"), timed' = timed \ {t}, swallowed' = swallowed
    PROVE  IInv' /\ ChanStep
<1> USE SyncAssumption, MsgQueueAssumption DEF IInv
<1> DEFINE W == SignalWakes("not_full")
           k == Find(op[t].type)
           type == op[t].type
<1>1. /\ MonitorInv' /\ at' = [at EXCEPT ![t] = "unlock"]
      /\ Queued(cond'["not_full"]) = Queued(cond["not_full"]) \ W
      /\ cond'["not_empty"] = cond["not_empty"]
      /\ \A u \in Tasks : state'[u] = IF u \in W THEN "TASK_READY" ELSE state[u]
  BY FinishKeeps DEF SetReady
<1>2. at[t] = "body" /\ at'[t] = "unlock" /\ \A u \in Tasks \ {t} : at'[u] = at[u]
  BY <1>1 DEF Runs, MonitorInv, MonitorTypeOK
<1>3. /\ W \subseteq Queued(cond["not_full"]) \cap Tasks
      /\ cond["not_full"] # <<>> => W = {FirstWaiting(cond["not_full"])}
      /\ cond'["not_full"] \in Seq(Tasks) /\ cond["not_full"] \in Seq(Tasks)
  BY <1>1, SignalFacts DEF MonitorInv, MonitorTypeOK
<1> HIDE DEF W
<1>4. /\ type \in WantedTypes /\ msg_count \in Nat
      /\ k \in 1..msg_count
      /\ type = 0 \/ buffer[Slot(k)].type = type
      /\ \A j \in 1..(k - 1) : ~(type = 0 \/ buffer[Slot(j)].type = type)
      /\ buffer[Slot(k)] \in Messages
  <2>1. type \in WantedTypes /\ msg_count \in Nat
    BY DEF MqTypeOK, Calls, Received, NoOp
  <2>2. /\ k \in 1..msg_count
        /\ type = 0 \/ buffer[Slot(k)].type = type
        /\ \A j \in 1..(k - 1) : ~(type = 0 \/ buffer[Slot(j)].type = type)
    BY <2>1, FindFacts
  <2>3. QED
    BY <2>1, <2>2 DEF RingInv
<1> HIDE DEF k
<1>5. /\ buffer' \in [Slots -> Messages \cup {NULL}] /\ head' \in Slots /\ tail' \in Slots
      /\ msg_count' \in 0..max_msgs
      /\ RingInv'
      /\ chan' = SubSeq(chan, 1, k - 1) \o SubSeq(chan, k + 1, Len(chan))
  <2>1. Dequeue(k)
    BY DEF k
  <2>2. QED
    BY <1>4, <2>1, DequeueRing
<1>6. /\ op'[t] = [fn |-> "received", type |-> type, msg |-> buffer[Slot(k)]]
      /\ op'[t].fn = "received" /\ op'[t] \in Received
      /\ \A u \in Tasks \ {t} : op'[u] = op[u]
      /\ op' \in [Tasks -> Calls \cup Received \cup {NoOp}]
  <2>1. op' = [op EXCEPT ![t] = [fn |-> "received", type |-> type, msg |-> buffer[Slot(k)]]]
    BY DEF k
  <2>2. [fn |-> "received", type |-> type, msg |-> buffer[Slot(k)]] \in Received
    BY <1>4 DEF Received
  <2>3. QED
    BY <2>1, <2>2 DEF MqTypeOK
<1>7. MqTypeOK'
  BY <1>5, <1>6 DEF MqTypeOK
<1>8. SleepInv'
  <2>1. t \notin Queued(cond["not_empty"]) /\ t \notin Queued(cond["not_full"])
    BY InBody
  <2>2. QED
    BY <1>1, <1>2, <1>6, <2>1 DEF SleepInv, MqTypeOK
<1>9. \A u \in W : at[u] = "wait" /\ state[u] = "TASK_BLOCKED" /\ op[u].fn = "send" /\ u # t
  BY <1>2, <1>3 DEF MonitorInv, CondInv, SleepInv
<1>10. /\ Woken("send")' = Woken("send") \cup W
       /\ Woken("receive")' = Woken("receive") \ {t}
       /\ Woken("send") \cap W = {}
  <2>1. Woken("send")' = Woken("send") \cup W
    BY <1>1, <1>2, <1>3, <1>6, <1>9 DEF Woken, Runs
  <2>2. Woken("receive")' = Woken("receive") \ {t}
    BY <1>1, <1>2, <1>3, <1>6, <1>9 DEF Woken, Runs
  <2>3. Woken("send") \cap W = {}
    BY <1>9 DEF Woken, Runs, SleepInv
  <2>4. QED
    BY <2>1, <2>2, <2>3
<1>11. WakeInv'
  <2> SUFFICES ASSUME ~swallowed
               PROVE  /\ cond'["not_empty"] # <<>> =>
                           msg_count' <= Cardinality(Woken("receive")')
                      /\ cond'["not_full"] # <<>> =>
                           max_msgs - msg_count' <= Cardinality(Woken("send")')
    BY DEF WakeInv
  <2>1. Woken("receive") \in SUBSET Tasks /\ Woken("send") \in SUBSET Tasks
    BY DEF Woken
  <2>2. ASSUME cond'["not_full"] # <<>>
        PROVE  max_msgs - msg_count' <= Cardinality(Woken("send")')
    <3>1. cond["not_full"] # <<>>
      BY <1>1, <1>3, <2>2, QueuedBasics
    <3>2. PICK f \in Tasks \ Woken("send") : W = {f}
      BY <1>3, <1>10, <3>1
    <3>3. Cardinality(Woken("send")') = Cardinality(Woken("send")) + 1
      BY <1>10, <2>1, <3>2, TasksFinite
    <3>4. /\ max_msgs - msg_count <= Cardinality(Woken("send"))
          /\ Cardinality(Woken("send")) \in Nat
      BY <2>1, <3>1, TasksFinite DEF WakeInv
    <3>5. max_msgs \in Nat /\ max_msgs - msg_count' = max_msgs - msg_count + 1
      BY <1>4
    <3>6. QED
      BY <1>4, <3>3, <3>4, <3>5
  <2>3. ASSUME cond'["not_empty"] # <<>> PROVE msg_count' <= Cardinality(Woken("receive")')
    <3>1. msg_count <= Cardinality(Woken("receive")) /\ Cardinality(Woken("receive")) \in Nat
      BY <1>1, <2>1, <2>3, TasksFinite DEF WakeInv
    <3>2. /\ Cardinality(Woken("receive") \ {t}) >= Cardinality(Woken("receive")) - 1
          /\ Cardinality(Woken("receive") \ {t}) \in Nat
      BY <2>1, TasksFinite
    <3>3. Cardinality(Woken("receive")') = Cardinality(Woken("receive") \ {t})
      BY <1>10
    <3>4. QED
      BY <1>4, <3>1, <3>2, <3>3
  <2>4. QED
    BY <2>2, <2>3
<1>12. ChanStep
  <2>1. /\ chan \in Seq(Messages) /\ Len(chan) = msg_count
        /\ \A i \in 1..msg_count : chan[i] = buffer[Slot(i)]
    BY ChanFacts
  <2>2. k \in DOMAIN chan /\ chan[k] = buffer[Slot(k)] /\ Channel!Matches(chan[k], type)
    BY <1>4, <2>1 DEF Channel!Matches
  <2>3. \A j \in 1..(k - 1) : ~Channel!Matches(chan[j], type)
    BY <1>4, <2>1 DEF Channel!Matches
  <2>4. got' = [got EXCEPT ![t] = [type |-> type, msg |-> chan[k]]]
    BY <1>6, <2>2 DEF got
  <2>5. Channel!Receive(t, type)
    BY <1>5, <2>2, <2>3, <2>4 DEF Channel!Receive
  <2>6. type \in {0} \cup {m.type : m \in Messages}
    BY <1>4
  <2>7. QED
    BY <2>5, <2>6 DEF ChanStep, Channel!ChanNext
<1>13. QED
  BY <1>1, <1>5, <1>7, <1>8, <1>11, <1>12

-----------------------------------------------------------------------------
(* The theorems. *)

\* Every step keeps the invariant and is a step of the channel.
LEMMA NextIInv == IInv /\ [Next]_vars => IInv' /\ ChanStep
<1> SUFFICES ASSUME IInv, [Next]_vars PROVE IInv' /\ ChanStep
  OBVIOUS
<1>1. CASE UNCHANGED vars
  <2>1. IInv'
    BY <1>1 DEF IInv, vars, monitorVars, mqVars, MonitorInv, MonitorTypeOK, LockInv, CondInv,
       PlaceInv, Inside, MqTypeOK, RingInv, Slot, SleepInv, WakeInv, Woken, Runs
  <2>2. UNCHANGED <<chan, got>>
    BY <1>1, SameRing DEF vars, got
  <2>3. QED
    BY <2>1, <2>2 DEF ChanStep
<1>2. ASSUME NEW t \in Tasks, Call(t) PROVE IInv' /\ ChanStep
  BY <1>2, CallKeeps DEF ChanStep
<1>3. ASSUME NEW t \in Tasks, Continue(t) PROVE IInv' /\ ChanStep
  <2>1. CASE Granted(t) /\ UNCHANGED <<mqVars, op, timed, swallowed>>
    BY <2>1, GrantKeeps DEF ChanStep
  <2>2. CASE Rewait(t)
    BY <2>2, RewaitKeeps DEF ChanStep
  <2>3. CASE Return(t)
    BY <2>3, ReturnKeeps
  <2>4. CASE Body(t)
    <3>1. /\ Runs(t, "body") /\ timed' = timed \ {t}
          /\ swallowed' = (swallowed \/ (t \in timed /\ at'[t] = "unlock" /\ UNCHANGED msg_count))
          /\ swallowed \in BOOLEAN /\ at \in [Tasks -> Places]
          /\ msg_count \in Nat /\ max_msgs \in Nat
      BY <2>4, MsgQueueAssumption DEF Body, IInv, MqTypeOK, MonitorInv, MonitorTypeOK
    <3>2. CASE Finish(t, NULL) /\ UNCHANGED <<mqVars, op>>
      <4>1. at'[t] = "unlock" /\ msg_count' = msg_count
        BY <3>1, <3>2 DEF Finish, mqVars
      <4>2. swallowed' = (swallowed \/ t \in timed)
        BY <3>1, <4>1
      <4>3. QED
        BY <3>1, <3>2, <4>2, GiveUpKeeps DEF ChanStep
    <3>3. CASE op[t].fn = "send" /\ ~Full /\ msgq_send(t) /\ op' = op
      <4>1. msg_count' = msg_count + 1
        BY <3>3 DEF msgq_send
      <4>2. msg_count' # msg_count
        BY <3>1, <4>1
      <4>3. swallowed' = swallowed
        BY <3>1, <4>2
      <4>4. QED
        BY <3>1, <3>3, <4>3, SendKeeps DEF msgq_send
    <3>4. CASE op[t].fn = "receive" /\ ~Empty /\ Find(op[t].type) # 0 /\ msgq_receive(t)
      <4>1. msg_count' = msg_count - 1
        BY <3>4 DEF msgq_receive
      <4>2. msg_count' # msg_count
        BY <3>1, <4>1
      <4>3. swallowed' = swallowed
        BY <3>1, <4>2
      <4>4. QED
        BY <3>1, <3>4, <4>3, ReceiveKeeps DEF msgq_receive
    <3>5. ASSUME NEW c \in Conds, condition_wait(t, c), UNCHANGED <<mqVars, op>>,
                 \/ c = "not_full" /\ op[t].fn = "send" /\ Full
                 \/ c = "not_empty" /\ op[t].fn = "receive" /\ Empty
          PROVE  IInv' /\ ChanStep
      <4>1. at'[t] = "wait"
        BY <3>1, <3>5 DEF condition_wait
      <4>2. swallowed' = swallowed
        BY <3>1, <4>1
      <4>3. QED
        BY <3>1, <3>5, <4>2, SleepKeeps DEF ChanStep
    <3>6. CASE op[t].fn = "send" /\ Full /\ Wait(t, "not_full") /\ op' = op
      BY <3>2, <3>5, <3>6, MsgQueueAssumption DEF Wait
    <3>7. CASE op[t].fn = "receive" /\ Empty /\ Wait(t, "not_empty") /\ op' = op
      BY <3>2, <3>5, <3>7, MsgQueueAssumption DEF Wait
    <3>8. QED
      BY <2>4, <3>2, <3>3, <3>4, <3>6, <3>7 DEF Body, msgq_send, msgq_receive
  <2>5. QED
    BY <1>3, <2>1, <2>2, <2>3, <2>4 DEF Continue
<1>4. QED
  BY <1>1, <1>2, <1>3 DEF Next

\* The wake-up rule follows: the tasks that were signalled are active.
LEMMA WokenAreActive == IInv => WakeupsReachWaiters
<1> SUFFICES ASSUME IInv, ~swallowed PROVE NoStrandedReceiver /\ NoStrandedSender
  BY DEF WakeupsReachWaiters
<1> USE DEF IInv
<1>1. \A fn \in {"send", "receive"} : Woken(fn) \subseteq Active(fn)
  <2> SUFFICES ASSUME NEW fn \in {"send", "receive"}, NEW t \in Woken(fn)
               PROVE  t \in Active(fn)
    OBVIOUS
  <2>1. t \in Tasks /\ op[t].fn = fn
    BY DEF Woken
  <2>2. CASE Runs(t, "wait")
    BY <2>1, <2>2 DEF Active, Runs
  <2>3. CASE t \in timed
    <3>1. at[t] \in {"lock", "body"} /\ state[t] \in {"TASK_READY", "TASK_BLOCKED"}
      BY <2>1, <2>3 DEF SleepInv, MonitorInv, MonitorTypeOK, PlaceInv, TaskState
    <3>2. state[t] = "TASK_BLOCKED" => t \in Queued(lock.waiting_tasks)
      BY <2>1, <3>1 DEF MonitorInv, LockInv, PlaceInv
    <3>3. QED
      BY <2>1, <3>1, <3>2 DEF Active
  <2>4. QED
    BY <2>2, <2>3 DEF Woken
<1>2. /\ Woken("receive") \in SUBSET Tasks /\ Woken("send") \in SUBSET Tasks
      /\ msg_count \in Nat /\ max_msgs \in Nat
  BY MsgQueueAssumption DEF Woken, MqTypeOK
<1>3. NoStrandedReceiver
  <2> SUFFICES ASSUME cond["not_empty"] # <<>>, msg_count # 0 PROVE Active("receive") # {}
    BY DEF NoStrandedReceiver, Empty
  <2>1. Cardinality(Woken("receive")) > 0
    BY <1>2, TasksFinite DEF WakeInv
  <2>2. Woken("receive") # {}
    BY <1>2, <2>1, TasksFinite
  <2>3. QED
    BY <1>1, <2>2
<1>4. NoStrandedSender
  <2> SUFFICES ASSUME cond["not_full"] # <<>>, msg_count < max_msgs PROVE Active("send") # {}
    BY <1>2 DEF NoStrandedSender, Full
  <2>1. Cardinality(Woken("send")) > 0
    BY <1>2, TasksFinite DEF WakeInv
  <2>2. Woken("send") # {}
    BY <1>2, <2>1, TasksFinite
  <2>3. QED
    BY <1>1, <2>2
<1>5. QED
  BY <1>3, <1>4

\* The invariant holds throughout.
THEOREM Invariance == Spec => []IInv
<1>1. Init => IInv
  BY InitIInv
<1>2. IInv /\ [Next]_vars => IInv'
  BY NextIInv
<1>3. QED
  BY <1>1, <1>2, PTL DEF Spec

\* The variables of msg_queue_t keep their types; in particular msgq_receive never
\* hands out a slot of the buffer that holds no message.
THEOREM TypeCorrect == Spec => []TypeOK
<1>1. IInv => TypeOK
  BY DEF IInv, MonitorInv, MqTypeOK, TypeOK
<1>2. QED
  BY <1>1, Invariance, PTL

\* Unless a task that was signalled gives up, no receiver sleeps while there is a
\* message for it and no sender while there is a free slot, but for those whose
\* message or slot a woken task is about to take.
THEOREM NoLostWakeup == Spec => []WakeupsReachWaiters
BY Invariance, WokenAreActive, PTL

\* msgq_send and msgq_receive on the ring buffer implement the bounded channel:
\* no message is lost, duplicated or reordered, whatever the tasks, the capacity
\* and the messages, and a receiver gets the oldest message of its type.
THEOREM RingIsChannel == Spec => ImplementsMsgChannel
<1>1. Init => Channel!ChanInit
  BY InitIInv
<1>2. IInv /\ [Next]_vars => [Channel!ChanNext]_<<chan, got>>
  BY NextIInv DEF ChanStep
<1>3. QED
  BY <1>1, <1>2, Invariance, PTL DEF Spec, ImplementsMsgChannel, Channel!ChanSpec

\* The bodies of msgq_send and msgq_receive exclude one another: the mutex of the
\* object and its conditions never let two tasks in.
THEOREM BodiesExclusive == Spec => []OneInside
<1>1. IInv => OneInside
  BY OwnerInside DEF IInv
<1>2. QED
  BY <1>1, Invariance, PTL
=============================================================================
