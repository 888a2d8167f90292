----------------------------- MODULE TaskProofs -----------------------------
(***************************************************************************)
(* Proofs about the two structures that link tasks by a field of task_t,   *)
(* on their pointers: the wait queues of mutexes, semaphores and           *)
(* conditions implement first-in-first-out queues, and the multi-level     *)
(* feedback queue neither loses nor duplicates a task.  Both rest on the   *)
(* same lemmas about a linked list and what a walk along it meets.         *)
(***************************************************************************)
EXTENDS TaskLifecycle, WaitQueue, FiniteSetTheorems, WellFoundedInduction, TLAPS

\* A set of numbers has a least one.
LEMMA Least ==
    ASSUME NEW H \in SUBSET Nat, H # {}
    PROVE  \E i \in H : \A j \in H : i <= j
<1>1. PICK i \in H : \A j \in H : <<j, i>> \notin OpToRel(<, Nat)
  BY NatLessThanWellFounded, WFMin
<1>2. \A j \in H : ~(j < i)
  BY <1>1 DEF OpToRel
<1>3. QED
  BY <1>2

-----------------------------------------------------------------------------
(* Linked lists. *)

\* g[i][x] is the list from x on, cut off after i tasks.
IsRest(T, nil, g, link, n) ==
    g = [i \in 0..n |-> [x \in T \cup {nil} |->
            IF i = 0 \/ x = nil THEN <<>> ELSE <<x>> \o g[i - 1][link[x]]]]

\* The i-th node of a list that holds the tasks s: the null pointer behind the last.
NodeAt(nil, s, i) == IF i = Len(s) + 1 THEN nil ELSE s[i]

\* The pointers from p on lead through the tasks s and end.
Linked(nil, link, p, s) ==
    p = NodeAt(nil, s, 1) /\ \A i \in 1..Len(s) : link[s[i]] = NodeAt(nil, s, i + 1)

\* No task is on the list twice.
Once(s) == \A i, j \in 1..Len(s) : s[i] = s[j] => i = j

\* The task t is on the list.
Holds(s, t) == \E i \in 1..Len(s) : s[i] = t

-----------------------------------------------------------------------------
(* The walk along a list. *)

\* The recursion of Walk has a solution for every length.
LEMMA RestExists ==
    ASSUME NEW T, NEW nil, NEW link, NEW n \in Nat
    PROVE  \E g : IsRest(T, nil, g, link, n)
<1>. DEFINE H == {i \in Nat : ~\E g : IsRest(T, nil, g, link, i)}
<1>1. SUFFICES ASSUME H # {} PROVE FALSE
  OBVIOUS
<1>2. PICK k \in H : \A j \in H : k <= j
  BY <1>1, Least
<1>3. k \in Nat /\ ~\E g : IsRest(T, nil, g, link, k)
  OBVIOUS
<1>4. CASE k = 0
  <2>. DEFINE g == [i \in 0..0 |-> [x \in T \cup {nil} |-> <<>>]]
  <2>1. \A i \in 0..0 : i = 0
    OBVIOUS
  <2>2. g = [i \in 0..0 |-> [x \in T \cup {nil} |->
               IF i = 0 \/ x = nil THEN <<>> ELSE <<x>> \o g[i - 1][link[x]]]]
    BY <2>1, Zenon
  <2>3. QED
    BY <1>3, <1>4, <2>2 DEF IsRest
<1>5. CASE k # 0
  <2>1. k - 1 \in Nat /\ ~(k <= k - 1)
    BY <1>3, <1>5
  <2>2. k - 1 \notin H
    BY <1>2, <2>1
  <2>3. PICK g : IsRest(T, nil, g, link, k - 1)
    BY <2>1, <2>2
  <2>. DEFINE last == [x \in T \cup {nil} |-> IF x = nil THEN <<>> ELSE <<x>> \o g[k - 1][link[x]]]
              more == [i \in 0..k |-> IF i = k THEN last ELSE g[i]]
              Eq(i) == [x \in T \cup {nil} |->
                          IF i = 0 \/ x = nil THEN <<>> ELSE <<x>> \o more[i - 1][link[x]]]
  <2>4. ASSUME NEW i \in 0..k PROVE more[i] = Eq(i)
    <3>1. CASE i = k
      <4>1. more[i] = last /\ more[i - 1] = g[k - 1] /\ i # 0
        <5>1. i - 1 \in 0..k /\ i - 1 # k /\ i - 1 = k - 1
          BY <1>3, <1>5, <3>1
        <5>. HIDE DEF last
        <5>2. QED
          BY <1>5, <3>1, <5>1
      <4>. HIDE DEF more
      <4>2. QED
        BY <4>1
    <3>2. CASE i # k
      <4>1. i \in 0..(k - 1) /\ (i # 0 => i - 1 \in 0..k /\ i - 1 # k)
        BY <1>3, <1>5, <3>2
      <4>2. more[i] = g[i] /\ (i # 0 => more[i - 1] = g[i - 1])
        <5>. HIDE DEF last
        <5>1. QED
          BY <3>2, <4>1
      <4>3. g[i] = [x \in T \cup {nil} |->
                      IF i = 0 \/ x = nil THEN <<>> ELSE <<x>> \o g[i - 1][link[x]]]
        BY <2>3, <4>1 DEF IsRest
      <4>. HIDE DEF more
      <4>4. QED
        BY <4>2, <4>3
    <3>3. QED
      BY <3>1, <3>2
  <2>5. more = [i \in 0..k |-> more[i]]
    OBVIOUS
  <2>. HIDE DEF more
  <2>6. more = [i \in 0..k |-> Eq(i)]
    <3>. HIDE DEF Eq
    <3>1. QED
      BY <2>4, <2>5, Zenon
  <2>7. QED
    BY <1>3, <2>6 DEF IsRest
<1>6. QED
  BY <1>4, <1>5

\* One task in front of the rest of a list.
LEMMA OneInFront ==
    ASSUME NEW S, NEW s \in Seq(S), NEW i \in 0..(Len(s) - 1)
    PROVE  /\ SubSeq(s, i + 1, Len(s)) = <<s[i + 1]>> \o SubSeq(s, i + 2, Len(s))
OBVIOUS

\* A walk that is long enough meets just the tasks of the list.
LEMMA WalkMeets ==
    ASSUME NEW T, NEW nil, NEW link, NEW p, NEW s \in Seq(T), NEW n \in Nat,
           nil \notin T, Linked(nil, link, p, s), Len(s) <= n
    PROVE  Walk(T, nil, link, p, n) = s
<1>. DEFINE g == CHOOSE f : f = [i \in 0..n |-> [x \in T \cup {nil} |->
                    IF i = 0 \/ x = nil THEN <<>> ELSE <<x>> \o f[i - 1][link[x]]]]
            L == Len(s)
            Rest(j) == SubSeq(s, L - j + 1, L)
            H == {j \in 0..L : g[n - (L - j)][NodeAt(nil, s, L - j + 1)] # Rest(j)}
<1>1. Walk(T, nil, link, p, n) = IF p = nil THEN <<>> ELSE g[n][p]
  BY DEF Walk
<1>2. IsRest(T, nil, g, link, n)
  <2>1. \E f : IsRest(T, nil, f, link, n)
    BY RestExists
  <2>2. QED
    BY <2>1, Zenon DEF IsRest
<1>3. L \in Nat /\ L <= n /\ \A i \in 1..L : s[i] \in T /\ s[i] # nil /\ s[i] \in T \cup {nil}
  OBVIOUS
<1>. HIDE DEF g
<1>4. ASSUME NEW i \in 0..n, NEW x \in T \cup {nil}
      PROVE  g[i][x] = IF i = 0 \/ x = nil THEN <<>> ELSE <<x>> \o g[i - 1][link[x]]
  <2>1. g[i] = [y \in T \cup {nil} |->
                  IF i = 0 \/ y = nil THEN <<>> ELSE <<y>> \o g[i - 1][link[y]]]
    BY <1>2, Zenon DEF IsRest
  <2>2. QED
    BY <2>1
<1>5. ASSUME H # {} PROVE FALSE
  <2>1. H \in SUBSET Nat
    BY <1>3
  <2>2. PICK k \in H : \A j \in H : k <= j
    BY <1>5, <2>1, Least
  <2>3. k \in 0..L /\ g[n - (L - k)][NodeAt(nil, s, L - k + 1)] # Rest(k)
    OBVIOUS
  <2>4. CASE k = 0
    <3>1. n - (L - k) \in 0..n /\ L - k + 1 = L + 1 /\ nil \in T \cup {nil}
      BY <1>3, <2>4
    <3>2. NodeAt(nil, s, L - k + 1) = nil
      BY <3>1 DEF NodeAt
    <3>3. g[n - (L - k)][nil] = <<>>
      BY <1>4, <3>1
    <3>4. Rest(k) = <<>>
      BY <1>3, <2>4
    <3>5. QED
      BY <2>3, <3>2, <3>3, <3>4
  <2>5. CASE k # 0
    <3>. DEFINE i == L - k
    <3>1. /\ i \in 0..(L - 1) /\ n - i \in 0..n /\ n - i # 0 /\ i + 1 \in 1..L /\ i + 1 # L + 1
          /\ k - 1 \in 0..L /\ ~(k <= k - 1) /\ L - (k - 1) = i + 1 /\ (i + 1) + 1 = i + 2
          /\ n - (i + 1) = (n - i) - 1
      BY <1>3, <2>3, <2>5
    <3>2. g[n - (L - (k - 1))][NodeAt(nil, s, L - (k - 1) + 1)] = Rest(k - 1)
      BY <2>2, <3>1
    <3>3. g[(n - i) - 1][NodeAt(nil, s, i + 2)] = SubSeq(s, i + 2, L)
      BY <3>1, <3>2
    <3>4. NodeAt(nil, s, i + 1) = s[i + 1] /\ link[s[i + 1]] = NodeAt(nil, s, i + 2)
      BY <3>1 DEF NodeAt, Linked
    <3>5. g[n - i][s[i + 1]] = <<s[i + 1]>> \o g[(n - i) - 1][link[s[i + 1]]]
      <4>1. s[i + 1] \in T \cup {nil} /\ s[i + 1] # nil
        BY <1>3, <3>1
      <4>. HIDE DEF i
      <4>2. QED
        BY <1>4, <3>1, <4>1
    <3>6. g[n - i][s[i + 1]] = SubSeq(s, i + 1, L)
      BY <3>1, <3>3, <3>4, <3>5, OneInFront
    <3>7. QED
      BY <2>3, <3>4, <3>6
  <2>6. QED
    BY <2>4, <2>5
<1>6. L \in 0..L /\ L - L = 0 /\ n - 0 = n /\ 0 + 1 = 1
  BY <1>3
<1>7. g[n - (L - L)][NodeAt(nil, s, L - L + 1)] = Rest(L)
  BY <1>5, <1>6
<1>8. g[n][p] = SubSeq(s, 1, L)
  BY <1>6, <1>7 DEF Linked
<1>9. p = nil => s = <<>>
  <2>1. L # 0 => 1 \in 1..L /\ 1 # L + 1
    BY <1>3
  <2>2. L # 0 => p # nil
    BY <1>3, <2>1 DEF Linked, NodeAt
  <2>3. QED
    BY <1>3, <2>2
<1>10. QED
  BY <1>1, <1>8, <1>9

\* A list without repetitions is not longer than there are tasks.
LEMMA ShortLists ==
    ASSUME NEW T, NEW s \in Seq(T), IsFiniteSet(T), Once(s)
    PROVE  Cardinality(T) \in Nat /\ Len(s) <= Cardinality(T)
<1>1. Len(s) \in Nat /\ s \in [1..Len(s) -> T]
  OBVIOUS
<1>2. IsFiniteSet(1..Len(s)) /\ Cardinality(1..Len(s)) = Len(s)
  <2>1. Cardinality(1..Len(s)) = IF 1 > Len(s) THEN 0 ELSE Len(s) - 1 + 1
    BY <1>1, FS_Interval
  <2>2. QED
    BY <1>1, <2>1, FS_Interval
<1>3. s \in Injection(1..Len(s), T)
  BY <1>1 DEF Once, Injection, IsInjective
<1>4. Cardinality(1..Len(s)) <= Cardinality(T)
  BY <1>3, FS_Injection
<1>5. QED
  BY <1>2, <1>4, FS_CardinalityType

\* Such a list is what the walk over all tasks finds.
LEMMA ListFound ==
    ASSUME NEW T, NEW nil, NEW link, NEW p, NEW s \in Seq(T),
           IsFiniteSet(T), nil \notin T, Linked(nil, link, p, s), Once(s)
    PROVE  Walk(T, nil, link, p, Cardinality(T)) = s
BY WalkMeets, ShortLists

\* The pointer past the head leads to the rest; a head that is not null is the first task.
LEMMA HeadOf ==
    ASSUME NEW T, NEW nil, NEW link, NEW p, NEW s \in Seq(T), nil \notin T, Linked(nil, link, p, s)
    PROVE  /\ p = nil <=> s = <<>>
           /\ s # <<>> => p = s[1] /\ Len(s) \in Nat \ {0} /\ s[1] \in T /\ s[Len(s)] \in T
<1>1. Len(s) \in Nat /\ (s = <<>> <=> Len(s) = 0)
  OBVIOUS
<1>2. CASE Len(s) = 0
  BY <1>1, <1>2 DEF Linked, NodeAt
<1>3. CASE Len(s) # 0
  <2>1. 1 \in 1..Len(s) /\ Len(s) \in 1..Len(s) /\ 1 # Len(s) + 1
    BY <1>1, <1>3
  <2>2. s[1] \in T /\ s[Len(s)] \in T
    BY <2>1
  <2>3. p = s[1]
    BY <2>1 DEF Linked, NodeAt
  <2>4. QED
    BY <1>1, <1>3, <2>2, <2>3
<1>4. QED
  BY <1>1, <1>2, <1>3

\* Links of tasks that are not on a list may change.
LEMMA OthersStay ==
    ASSUME NEW T, NEW nil, NEW link, NEW other, NEW p, NEW s \in Seq(T), Linked(nil, link, p, s),
           \A i \in 1..Len(s) : other[s[i]] = link[s[i]]
    PROVE  Linked(nil, other, p, s)
BY DEF Linked

\* Only the links of t and of the last of the tasks s change: they lead to nil and to t.
LinksBehind(nil, link, other, s, t) ==
    /\ other[t] = nil /\ (s # <<>> => other[s[Len(s)]] = t)
    /\ \A i \in 1..(Len(s) - 1) : other[s[i]] = link[s[i]]

\* The list s with the task t at its end.
Longer(more, s, t) == more = Append(s, t)

\* A task linked in behind the last one.
LEMMA LinkedBehind ==
    ASSUME NEW T, NEW nil, NEW link, NEW other, NEW p, NEW head, NEW more,
           NEW s \in Seq(T), NEW t \in T, nil \notin T,
           Linked(nil, link, p, s), Once(s), ~Holds(s, t), LinksBehind(nil, link, other, s, t),
           s = <<>> => head = t, s # <<>> => head = p, Longer(more, s, t)
    PROVE  /\ Linked(nil, other, head, more) /\ Once(more)
           /\ \A u \in T : Holds(more, u) <=> Holds(s, u) \/ u = t
<1>. DEFINE L == Len(s)
<1>0. /\ other[t] = nil /\ (s # <<>> => other[s[L]] = t)
      /\ \A i \in 1..(L - 1) : other[s[i]] = link[s[i]]
  BY DEF LinksBehind
<1>1. /\ L \in Nat /\ (s = <<>> <=> L = 0) /\ more \in Seq(T) /\ Len(more) = L + 1
      /\ more[L + 1] = t /\ \A i \in 1..L : more[i] = s[i] /\ s[i] \in T
  BY DEF Longer
<1>2. \A i \in 1..(L + 1) : i = L + 1 \/ i \in 1..L
  BY <1>1
<1>3. Once(more)
  BY <1>1, <1>2 DEF Once, Holds
<1>4. ASSUME NEW u \in T PROVE Holds(more, u) <=> Holds(s, u) \/ u = t
  <2>1. L + 1 \in 1..(L + 1) /\ \A i \in 1..L : i \in 1..(L + 1)
    BY <1>1
  <2>2. QED
    BY <1>1, <1>2, <2>1 DEF Holds
<1>5. ASSUME NEW i \in 1..(L + 1) PROVE other[more[i]] = NodeAt(nil, more, i + 1)
  <2>1. CASE i = L + 1
    BY <1>0, <1>1, <2>1 DEF NodeAt
  <2>2. CASE i = L /\ i # L + 1
    <3>1. i \in 1..L /\ i + 1 # (L + 1) + 1 /\ s # <<>>
      BY <1>1, <2>2
    <3>2. NodeAt(nil, more, i + 1) = t
      BY <1>1, <2>2, <3>1 DEF NodeAt
    <3>3. QED
      BY <1>0, <1>1, <2>2, <3>1, <3>2
  <2>3. CASE i # L /\ i # L + 1
    <3>1. i \in 1..L /\ i \in 1..(L - 1) /\ i + 1 \in 1..L /\ i + 1 # L + 1 /\ i + 1 # (L + 1) + 1
      BY <1>1, <2>3
    <3>2. NodeAt(nil, more, i + 1) = s[i + 1] /\ NodeAt(nil, s, i + 1) = s[i + 1]
      BY <1>1, <3>1 DEF NodeAt
    <3>3. link[s[i]] = NodeAt(nil, s, i + 1)
      BY <3>1 DEF Linked
    <3>4. QED
      BY <1>0, <1>1, <3>1, <3>2, <3>3
  <2>4. QED
    BY <2>1, <2>2, <2>3
<1>6. head = NodeAt(nil, more, 1)
  <2>1. CASE s = <<>>
    BY <1>1, <2>1 DEF NodeAt
  <2>2. CASE s # <<>>
    <3>1. 1 \in 1..L /\ 1 # (L + 1) + 1
      BY <1>1, <2>2
    <3>2. p = s[1]
      BY <2>2, HeadOf
    <3>3. QED
      BY <1>1, <2>2, <3>1, <3>2 DEF NodeAt
  <2>3. QED
    BY <2>1, <2>2
<1>7. Linked(nil, other, head, more)
  BY <1>1, <1>5, <1>6 DEF Linked
<1>8. QED
  BY <1>3, <1>4, <1>7

\* All links but that of the first task stay.
LinksAfterFirst(link, other, s) == \A i \in 2..Len(s) : other[s[i]] = link[s[i]]

\* The first task taken off.
LEMMA LinkedOff ==
    ASSUME NEW T, NEW nil, NEW link, NEW other, NEW p, NEW s \in Seq(T),
           nil \notin T, Linked(nil, link, p, s), Once(s), s # <<>>, LinksAfterFirst(link, other, s)
    PROVE  /\ Tail(s) \in Seq(T)
           /\ Linked(nil, other, link[p], Tail(s)) /\ Once(Tail(s))
           /\ \A u \in T : Holds(Tail(s), u) <=> Holds(s, u) /\ u # s[1]
<1>. DEFINE L == Len(s)
            rest == Tail(s)
<1>1. /\ L \in Nat \ {0} /\ rest \in Seq(T) /\ Len(rest) = L - 1
      /\ \A i \in 1..(L - 1) : rest[i] = s[i + 1]
  OBVIOUS
<1>. HIDE DEF rest
<1>2. \A i \in 1..(L - 1) : i + 1 \in 2..L /\ i + 1 \in 1..L /\ i + 1 # 1
  BY <1>1
<1>3. Once(rest)
  BY <1>1, <1>2 DEF Once
<1>4. ASSUME NEW u \in T PROVE Holds(rest, u) <=> Holds(s, u) /\ u # s[1]
  <2>1. 1 \in 1..L
    BY <1>1
  <2>2. ASSUME Holds(rest, u) PROVE Holds(s, u) /\ u # s[1]
    <3>1. PICK i \in 1..(L - 1) : rest[i] = u
      BY <1>1, <2>2 DEF Holds
    <3>2. s[i + 1] = u /\ i + 1 \in 1..L /\ i + 1 # 1
      BY <1>1, <1>2, <3>1
    <3>3. QED
      BY <2>1, <3>2 DEF Holds, Once
  <2>3. ASSUME Holds(s, u), u # s[1] PROVE Holds(rest, u)
    <3>1. PICK i \in 1..L : s[i] = u
      BY <2>3 DEF Holds
    <3>2. i # 1
      BY <2>3, <3>1
    <3>3. i - 1 \in 1..(L - 1) /\ (i - 1) + 1 = i
      BY <1>1, <3>2
    <3>4. rest[i - 1] = u
      BY <1>1, <3>1, <3>3
    <3>5. QED
      BY <1>1, <3>3, <3>4 DEF Holds
  <2>4. QED
    BY <2>2, <2>3
<1>5. ASSUME NEW i \in 1..(L - 1) PROVE other[rest[i]] = NodeAt(nil, rest, i + 1)
  <2>1. other[s[i + 1]] = NodeAt(nil, s, (i + 1) + 1)
    BY <1>2 DEF Linked, LinksAfterFirst
  <2>2. CASE i = L - 1
    <3>1. i + 1 = (L - 1) + 1 /\ (i + 1) + 1 = L + 1
      BY <1>1, <2>2
    <3>2. QED
      BY <1>1, <2>1, <3>1 DEF NodeAt
  <2>3. CASE i # L - 1
    <3>1. i + 1 \in 1..(L - 1) /\ i + 1 # (L - 1) + 1 /\ (i + 1) + 1 # L + 1
      BY <1>1, <2>3
    <3>2. QED
      BY <1>1, <2>1, <3>1 DEF NodeAt
  <2>4. QED
    BY <2>2, <2>3
<1>6. link[p] = NodeAt(nil, rest, 1)
  <2>1. p = s[1] /\ 1 \in 1..L
    BY <1>1, HeadOf
  <2>2. link[p] = NodeAt(nil, s, 1 + 1)
    BY <2>1 DEF Linked
  <2>3. CASE L = 1
    BY <1>1, <2>2, <2>3 DEF NodeAt
  <2>4. CASE L # 1
    <3>1. 1 \in 1..(L - 1) /\ 1 # (L - 1) + 1 /\ 1 + 1 # L + 1
      BY <1>1, <2>4
    <3>2. QED
      BY <1>1, <2>2, <3>1 DEF NodeAt
  <2>5. QED
    BY <2>3, <2>4
<1>7. Linked(nil, other, link[p], rest)
  BY <1>1, <1>5, <1>6 DEF Linked
<1>8. QED
  BY <1>1, <1>3, <1>4, <1>7 DEF rest


-----------------------------------------------------------------------------
(* The lists of waiting tasks. *)

Nodes == Waiters \cup {Nil}

\* The list of the queue q: linked, no task twice, just the tasks that wait on q.
Listed(q, s) ==
    /\ s \in Seq(Waiters) /\ Once(s) /\ Linked(Nil, next_wait, first[q], s)
    /\ \A t \in Waiters : waits[t] = q <=> Holds(s, t)

WaitTypes ==
    /\ first \in [Queues -> Nodes] /\ next_wait \in [Waiters -> Nodes]
    /\ waits \in [Waiters -> Queues \cup {Nil}]

(***************************************************************************)
(* The inductive invariant: what the walk from the head of a queue meets   *)
(* is a proper list, and it holds the tasks that wait on this queue.  The  *)
(* lists share next_wait; that no task is on two of them is what keeps     *)
(* one list whole when another one changes.                                *)
(***************************************************************************)
WaitInv == WaitTypes /\ \A q \in Queues : Listed(q, WaitList(q))

-----------------------------------------------------------------------------
(* The steps. *)

\* At the start every list is empty.
LEMMA ListsAtStart == WaitInit => WaitInv /\ Fifo!QueuesInit
<1>. SUFFICES ASSUME WaitInit PROVE WaitInv /\ Fifo!QueuesInit
  OBVIOUS
<1>1. ASSUME NEW q \in Queues PROVE WaitList(q) = <<>> /\ Listed(q, <<>>)
  <2>1. Len(<<>>) = 0 /\ \A i \in 1..0 : FALSE
    OBVIOUS
  <2>2. Linked(Nil, next_wait, first[q], <<>>) /\ Once(<<>>) /\ \A t \in Waiters : ~Holds(<<>>, t)
    BY <2>1 DEF Linked, Once, Holds, NodeAt, WaitInit
  <2>3. WaitList(q) = <<>>
    <3>1. <<>> \in Seq(Waiters)
      OBVIOUS
    <3>2. QED
      BY <2>2, <3>1, ListFound, WaitAssumption DEF WaitList
  <2>4. \A t \in Waiters : waits[t] # q
    BY WaitAssumption DEF WaitInit
  <2>5. QED
    BY <2>2, <2>3, <2>4 DEF Listed
<1>2. WaitTypes
  BY DEF WaitTypes, WaitInit, Nodes
<1>3. lists = [q \in Queues |-> <<>>]
  BY <1>1 DEF lists
<1>4. QED
  BY <1>1, <1>2, <1>3 DEF WaitInv, Fifo!QueuesInit

\* The lists of the other queues stay when the tasks of one queue, or of none, are linked anew.
LEMMA OtherQueues ==
    ASSUME NEW q \in Queues, NEW r \in Queues, r # q, Listed(r, WaitList(r)),
           first'[r] = first[r],
           \A t \in Waiters : waits[t] = r => next_wait'[t] = next_wait[t],
           \A t \in Waiters : waits[t] = r <=> waits'[t] = r
    PROVE  WaitList(r)' = WaitList(r) /\ Listed(r, WaitList(r))'
<1>. DEFINE s == WaitList(r)
<1>1. s \in Seq(Waiters) /\ Once(s) /\ Linked(Nil, next_wait, first[r], s)
      /\ \A t \in Waiters : waits[t] = r <=> Holds(s, t)
  BY DEF Listed
<1>. HIDE DEF s
<1>2. \A i \in 1..Len(s) : s[i] \in Waiters /\ Holds(s, s[i])
  BY <1>1 DEF Holds
<1>3. \A i \in 1..Len(s) : next_wait'[s[i]] = next_wait[s[i]]
  BY <1>1, <1>2
<1>4. Linked(Nil, next_wait', first'[r], s)
  BY <1>1, <1>3, OthersStay
<1>5. WaitList(r)' = s
  BY <1>1, <1>4, ListFound, WaitAssumption DEF WaitList
<1>6. \A t \in Waiters : waits'[t] = r <=> Holds(s, t)
  BY <1>1
<1>7. QED
  BY <1>1, <1>4, <1>5, <1>6 DEF Listed, s

\* add_to_wait_queue puts the task at the end of its queue and leaves the others alone.
LEMMA AddAppends ==
    ASSUME WaitInv, NEW q \in Queues, NEW t \in Waiters, add_to_wait_queue(q, t)
    PROVE  WaitInv' /\ Fifo!Add(q, t)
<1>. DEFINE s == WaitList(q)
<1>1. WaitTypes /\ Listed(q, s)
  BY DEF WaitInv
<1>2. s \in Seq(Waiters) /\ Once(s) /\ Linked(Nil, next_wait, first[q], s)
      /\ \A u \in Waiters : waits[u] = q <=> Holds(s, u)
  BY <1>1 DEF Listed
<1>3. /\ waits[t] = Nil /\ waits' = [waits EXCEPT ![t] = q]
      /\ \/ /\ first[q] = Nil
            /\ first' = [first EXCEPT ![q] = t]
            /\ next_wait' = [next_wait EXCEPT ![t] = Nil]
         \/ /\ first[q] # Nil
            /\ next_wait' = [next_wait EXCEPT ![t] = Nil, ![s[Len(s)]] = t]
            /\ first' = first
  BY DEF add_to_wait_queue
<1>. HIDE DEF s
<1>4. /\ first \in [Queues -> Nodes] /\ next_wait \in [Waiters -> Nodes]
      /\ waits \in [Waiters -> Queues \cup {Nil}]
  BY <1>1 DEF WaitTypes
<1>5. ~Holds(s, t) /\ q # Nil
  BY <1>2, <1>3, WaitAssumption
<1>6. first[q] = Nil <=> s = <<>>
  BY <1>2, HeadOf, WaitAssumption
<1>7. /\ Len(s) \in Nat
      /\ s # <<>> => Len(s) \in 1..Len(s) /\ s[Len(s)] \in Waiters /\ s[Len(s)] # t
                     /\ waits[s[Len(s)]] = q
      /\ \A i \in 1..(Len(s) - 1) : i \in 1..Len(s) /\ i # Len(s) /\ s # <<>>
  <2>1. /\ Len(s) \in Nat /\ (s # <<>> => Len(s) \in 1..Len(s))
        /\ \A i \in 1..(Len(s) - 1) : i \in 1..Len(s) /\ i # Len(s)
    BY <1>2
  <2>2. \A i \in 1..(Len(s) - 1) : s # <<>>
    BY <1>2
  <2>3. s # <<>> => s[Len(s)] \in Waiters /\ Holds(s, s[Len(s)])
    BY <1>2, <2>1 DEF Holds
  <2>4. QED
    BY <1>2, <1>5, <2>1, <2>2, <2>3
<1>8. /\ next_wait'[t] = Nil /\ (s # <<>> => next_wait'[s[Len(s)]] = t)
      /\ \A i \in 1..(Len(s) - 1) : next_wait'[s[i]] = next_wait[s[i]]
  <2>1. \A i \in 1..(Len(s) - 1) : s[i] \in Waiters /\ s[i] # t /\ s[i] # s[Len(s)]
    <3>. SUFFICES ASSUME NEW i \in 1..(Len(s) - 1)
                  PROVE  s[i] \in Waiters /\ s[i] # t /\ s[i] # s[Len(s)]
      OBVIOUS
    <3>1. i \in 1..Len(s) /\ Len(s) \in 1..Len(s) /\ i # Len(s)
      BY <1>7
    <3>2. s[i] \in Waiters /\ s[i] # t
      BY <1>2, <1>5, <3>1 DEF Holds
    <3>3. QED
      BY <1>2, <3>1, <3>2 DEF Once
  <2>2. CASE s = <<>>
    BY <1>3, <1>4, <1>6, <1>7, <2>1, <2>2
  <2>3. CASE s # <<>>
    BY <1>3, <1>4, <1>6, <1>7, <2>1, <2>3
  <2>4. QED
    BY <2>2, <2>3
<1>9. first'[q] = (IF s = <<>> THEN t ELSE first[q]) /\ \A r \in Queues : r # q => first'[r] = first[r]
  BY <1>3, <1>4, <1>6
<1>. DEFINE more == Append(s, t)
<1>10. /\ Linked(Nil, next_wait', first'[q], more) /\ Once(more)
       /\ \A u \in Waiters : Holds(more, u) <=> Holds(s, u) \/ u = t
  <2>1. LinksBehind(Nil, next_wait, next_wait', s, t)
    BY <1>8 DEF LinksBehind
  <2>2. (s = <<>> => first'[q] = t) /\ (s # <<>> => first'[q] = first[q])
    BY <1>9
  <2>3. s \in Seq(Waiters) /\ Once(s) /\ Linked(Nil, next_wait, first[q], s) /\ ~Holds(s, t)
    BY <1>2, <1>5
  <2>4. Longer(more, s, t)
    BY DEF Longer
  <2>. HIDE DEF more
  <2>5. QED
    BY <2>1, <2>2, <2>3, <2>4, LinkedBehind, WaitAssumption
<1>11. more \in Seq(Waiters)
  BY <1>2 DEF more
<1>. HIDE DEF more
<1>12. WaitList(q)' = more
  BY <1>10, <1>11, ListFound, WaitAssumption DEF WaitList
<1>13. \A u \in Waiters : waits'[u] = q <=> Holds(more, u)
  BY <1>2, <1>3, <1>4, <1>10
<1>14. Listed(q, WaitList(q))'
  BY <1>10, <1>11, <1>12, <1>13 DEF Listed
<1>15. ASSUME NEW r \in Queues, r # q PROVE WaitList(r)' = WaitList(r) /\ Listed(r, WaitList(r))'
  <2>1. \A u \in Waiters : waits[u] = r => next_wait'[u] = next_wait[u]
    <3>1. r # Nil
      BY WaitAssumption
    <3>2. \A u \in Waiters : waits[u] = r => u # t /\ (s # <<>> => u # s[Len(s)])
      BY <1>3, <1>7, <1>15, <3>1
    <3>3. QED
      BY <1>3, <1>4, <1>6, <1>7, <3>2
  <2>2. \A u \in Waiters : waits[u] = r <=> waits'[u] = r
    <3>1. r # Nil
      BY WaitAssumption
    <3>2. QED
      BY <1>3, <1>4, <1>15, <3>1
  <2>3. Listed(r, WaitList(r))
    BY DEF WaitInv
  <2>4. QED
    BY <1>9, <1>15, <2>1, <2>2, <2>3, OtherQueues
<1>16. WaitTypes'
  <2>1. t \in Nodes /\ Nil \in Nodes
    BY DEF Nodes
  <2>2. first' \in [Queues -> Nodes] /\ next_wait' \in [Waiters -> Nodes]
    BY <1>3, <1>4, <2>1
  <2>3. waits' \in [Waiters -> Queues \cup {Nil}]
    BY <1>3, <1>4
  <2>4. QED
    BY <2>2, <2>3 DEF WaitTypes
<1>17. WaitInv'
  BY <1>14, <1>15, <1>16 DEF WaitInv
<1>18. lists' = [lists EXCEPT ![q] = Append(@, t)]
  <2>1. lists[q] = s
    BY DEF lists, s
  <2>2. lists' = [r \in Queues |-> WaitList(r)'] /\ lists = [r \in Queues |-> WaitList(r)]
    BY DEF lists
  <2>3. QED
    BY <1>12, <1>15, <2>1, <2>2 DEF more
<1>19. ~Fifo!OnSome(t)
  <2>1. ASSUME NEW r \in Queues PROVE ~Holds(WaitList(r), t)
    BY <1>3, WaitAssumption DEF WaitInv, Listed
  <2>2. \A r \in Queues : DOMAIN lists[r] = 1..Len(lists[r]) /\ lists[r] = WaitList(r)
    BY DEF WaitInv, Listed, lists
  <2>3. QED
    BY <2>1, <2>2 DEF Fifo!OnSome, Holds
<1>20. QED
  BY <1>17, <1>18, <1>19 DEF Fifo!Add

\* remove_from_wait_queue takes the first task off its queue and leaves the others alone.
LEMMA RemoveTakesFirst ==
    ASSUME WaitInv, NEW q \in Queues, remove_from_wait_queue(q)
    PROVE  WaitInv' /\ Fifo!Remove(q)
<1>. DEFINE s == WaitList(q)
<1>1. WaitTypes /\ Listed(q, s)
  BY DEF WaitInv
<1>2. s \in Seq(Waiters) /\ Once(s) /\ Linked(Nil, next_wait, first[q], s)
      /\ \A u \in Waiters : waits[u] = q <=> Holds(s, u)
  BY <1>1 DEF Listed
<1>3. /\ first[q] # Nil
      /\ first' = [first EXCEPT ![q] = next_wait[first[q]]]
      /\ next_wait' = [next_wait EXCEPT ![first[q]] = Nil]
      /\ waits' = [waits EXCEPT ![first[q]] = Nil]
  BY DEF remove_from_wait_queue
<1>. HIDE DEF s
<1>4. /\ first \in [Queues -> Nodes] /\ next_wait \in [Waiters -> Nodes]
      /\ waits \in [Waiters -> Queues \cup {Nil}]
  BY <1>1 DEF WaitTypes
<1>5. s # <<>> /\ first[q] = s[1] /\ s[1] \in Waiters /\ Len(s) \in Nat \ {0}
  BY <1>2, <1>3, HeadOf, WaitAssumption
<1>6. q # Nil /\ waits[s[1]] = q
  <2>1. 1 \in 1..Len(s)
    BY <1>5
  <2>2. Holds(s, s[1])
    BY <2>1 DEF Holds
  <2>3. QED
    BY <1>2, <1>5, <2>2, WaitAssumption
<1>7. LinksAfterFirst(next_wait, next_wait', s)
  <2>1. \A i \in 2..Len(s) : i \in 1..Len(s) /\ 1 \in 1..Len(s) /\ i # 1
    BY <1>5
  <2>2. \A i \in 2..Len(s) : s[i] \in Waiters /\ s[i] # s[1]
    BY <1>2, <2>1 DEF Once
  <2>3. QED
    BY <1>3, <1>4, <1>5, <2>2 DEF LinksAfterFirst
<1>8. first'[q] = next_wait[first[q]] /\ \A r \in Queues : r # q => first'[r] = first[r]
  BY <1>3, <1>4
<1>9. /\ Tail(s) \in Seq(Waiters) /\ Linked(Nil, next_wait', first'[q], Tail(s)) /\ Once(Tail(s))
      /\ \A u \in Waiters : Holds(Tail(s), u) <=> Holds(s, u) /\ u # s[1]
  BY <1>2, <1>5, <1>7, <1>8, LinkedOff, WaitAssumption
<1>10. WaitList(q)' = Tail(s)
  BY <1>9, ListFound, WaitAssumption DEF WaitList
<1>11. \A u \in Waiters : waits'[u] = q <=> Holds(Tail(s), u)
  BY <1>2, <1>3, <1>4, <1>5, <1>6, <1>9
<1>12. Listed(q, WaitList(q))'
  BY <1>9, <1>10, <1>11 DEF Listed
<1>13. ASSUME NEW r \in Queues, r # q PROVE WaitList(r)' = WaitList(r) /\ Listed(r, WaitList(r))'
  <2>1. r # Nil
    BY WaitAssumption
  <2>2. \A u \in Waiters : waits[u] = r => u # s[1]
    BY <1>6, <1>13
  <2>3. \A u \in Waiters : waits[u] = r => next_wait'[u] = next_wait[u]
    BY <1>3, <1>4, <1>5, <2>2
  <2>4. \A u \in Waiters : waits[u] = r <=> waits'[u] = r
    BY <1>3, <1>4, <1>5, <1>6, <1>13, <2>1
  <2>5. Listed(r, WaitList(r))
    BY DEF WaitInv
  <2>6. QED
    BY <1>8, <1>13, <2>3, <2>4, <2>5, OtherQueues
<1>14. WaitTypes'
  <2>1. first[q] \in Waiters /\ Nil \in Nodes
    BY <1>5 DEF Nodes
  <2>2. next_wait[first[q]] \in Nodes
    BY <1>4, <2>1
  <2>3. first' \in [Queues -> Nodes] /\ next_wait' \in [Waiters -> Nodes]
    BY <1>3, <1>4, <2>1, <2>2
  <2>4. waits' \in [Waiters -> Queues \cup {Nil}]
    BY <1>3, <1>4
  <2>5. QED
    BY <2>3, <2>4 DEF WaitTypes
<1>15. WaitInv'
  BY <1>12, <1>13, <1>14 DEF WaitInv
<1>16. lists' = [lists EXCEPT ![q] = Tail(@)] /\ lists[q] = s
  <2>1. lists[q] = s
    BY DEF lists, s
  <2>2. lists' = [r \in Queues |-> WaitList(r)'] /\ lists = [r \in Queues |-> WaitList(r)]
    BY DEF lists
  <2>3. QED
    BY <1>10, <1>13, <2>1, <2>2
<1>17. QED
  BY <1>5, <1>15, <1>16 DEF Fifo!Remove

(***************************************************************************)
(* The lists that add_to_wait_queue and remove_from_wait_queue link        *)
(* through next_wait implement FifoQueues, for any number of tasks and of  *)
(* mutexes, semaphores and conditions.                                     *)
(***************************************************************************)
THEOREM WaitListsAreFifo == WaitSpec => ImplementsFifoQueues
<1>1. WaitInit => WaitInv /\ Fifo!QueuesInit
  BY ListsAtStart
<1>2. WaitInv /\ [WaitNext]_waitVars => WaitInv' /\ [Fifo!QueuesNext]_lists
  <2>. SUFFICES ASSUME WaitInv, [WaitNext]_waitVars PROVE WaitInv' /\ [Fifo!QueuesNext]_lists
    OBVIOUS
  <2>1. CASE UNCHANGED waitVars
    <3>1. first' = first /\ next_wait' = next_wait /\ waits' = waits
      BY <2>1 DEF waitVars
    <3>2. WaitInv'
      BY <3>1 DEF WaitInv, WaitTypes, Listed, WaitList
    <3>3. lists' = lists
      BY <3>1 DEF lists, WaitList
    <3>4. QED
      BY <3>2, <3>3
  <2>2. ASSUME NEW q \in Queues, remove_from_wait_queue(q)
        PROVE  WaitInv' /\ [Fifo!QueuesNext]_lists
    BY <2>2, RemoveTakesFirst DEF Fifo!QueuesNext
  <2>3. ASSUME NEW q \in Queues, NEW t \in Waiters, add_to_wait_queue(q, t)
        PROVE  WaitInv' /\ [Fifo!QueuesNext]_lists
    BY <2>3, AddAppends DEF Fifo!QueuesNext
  <2>4. QED
    BY <2>1, <2>2, <2>3 DEF WaitNext
<1>3. QED
  BY <1>1, <1>2, PTL DEF WaitSpec, ImplementsFifoQueues, Fifo!QueuesSpec

-----------------------------------------------------------------------------
(* The multi-level feedback queue. *)

\* The list s without its k-th task.
Without(s, k) == [i \in 1..(Len(s) - 1) |-> IF i < k THEN s[i] ELSE s[i + 1]]

\* What is left are the tasks in front of it and those behind it.
Shorter(rest, s, k) ==
    /\ Len(rest) = Len(s) - 1
    /\ \A i \in 1..(Len(s) - 1) : rest[i] = IF i < k THEN s[i] ELSE s[i + 1]

\* The links after the k-th task was bridged.
Bridged(link, other, s, k) ==
    /\ \A i \in 1..Len(s) : i # k /\ i + 1 # k => other[s[i]] = link[s[i]]
    /\ k # 1 => other[s[k - 1]] = link[s[k]]

\* A task taken out of a list, wherever it is.
LEMMA LinkedWithout ==
    ASSUME NEW T, NEW nil, NEW link, NEW other, NEW p, NEW head, NEW rest,
           NEW s \in Seq(T), NEW k \in 1..Len(s), nil \notin T,
           Linked(nil, link, p, s), Once(s), Bridged(link, other, s, k),
           k = 1 => head = link[s[1]], k # 1 => head = p,
           rest \in Seq(T), Shorter(rest, s, k)
    PROVE  /\ Linked(nil, other, head, rest) /\ Once(rest)
           /\ \A u \in T : Holds(rest, u) <=> Holds(s, u) /\ u # s[k]
<1>. DEFINE L == Len(s)
            Place(i) == IF i < k THEN i ELSE i + 1
<1>1. L \in Nat /\ k \in 1..L /\ Len(rest) = L - 1
  BY DEF Shorter
<1>. HIDE DEF L
<1>2. \A i \in 1..(L - 1) : Place(i) \in 1..L /\ Place(i) # k /\ rest[i] = s[Place(i)]
  BY <1>1 DEF L, Shorter
<1>3. \A i, j \in 1..(L - 1) : Place(i) = Place(j) => i = j
  BY <1>1
<1>4. \A j \in 1..L : j # k => \E i \in 1..(L - 1) : Place(i) = j
  <2>. SUFFICES ASSUME NEW j \in 1..L, j # k PROVE \E i \in 1..(L - 1) : Place(i) = j
    OBVIOUS
  <2>1. CASE j < k
    <3>1. j \in 1..(L - 1) /\ Place(j) = j
      BY <1>1, <2>1
    <3>2. QED
      BY <3>1
  <2>2. CASE ~(j < k)
    <3>1. j - 1 \in 1..(L - 1) /\ Place(j - 1) = j
      BY <1>1, <2>2
    <3>2. QED
      BY <3>1
  <2>3. QED
    BY <2>1, <2>2
<1>5. Once(rest)
  <2>. HIDE DEF Place
  <2>1. QED
    BY <1>1, <1>2, <1>3 DEF Once, L
<1>6. ASSUME NEW u \in T PROVE Holds(rest, u) <=> Holds(s, u) /\ u # s[k]
  <2>. HIDE DEF Place
  <2>1. ASSUME Holds(rest, u) PROVE Holds(s, u) /\ u # s[k]
    BY <1>1, <1>2, <2>1 DEF Holds, Once, L
  <2>2. ASSUME Holds(s, u), u # s[k] PROVE Holds(rest, u)
    <3>1. PICK j \in 1..L : s[j] = u
      BY <2>2 DEF Holds, L
    <3>2. j # k
      BY <2>2, <3>1
    <3>3. PICK i \in 1..(L - 1) : Place(i) = j
      BY <1>4, <3>2
    <3>4. QED
      BY <1>1, <1>2, <3>1, <3>3 DEF Holds
  <2>3. QED
    BY <2>1, <2>2
<1>7. ASSUME NEW i \in 1..(L - 1) PROVE other[rest[i]] = NodeAt(nil, rest, i + 1)
  <2>1. NodeAt(nil, rest, i + 1) = NodeAt(nil, s, Place(i + 1))
    <3>1. CASE i = L - 1
      <4>1. Place(i + 1) = L + 1 /\ i + 1 = (L - 1) + 1
        BY <1>1, <3>1
      <4>2. QED
        BY <1>1, <4>1 DEF NodeAt, L
    <3>2. CASE i # L - 1
      <4>1. /\ i + 1 \in 1..(L - 1) /\ i + 1 # (L - 1) + 1
            /\ Place(i + 1) # L + 1
        BY <1>1, <3>2
      <4>2. rest[i + 1] = s[Place(i + 1)]
        BY <1>2, <4>1
      <4>. HIDE DEF Place
      <4>3. QED
        BY <1>1, <4>1, <4>2 DEF NodeAt, L
    <3>3. QED
      BY <3>1, <3>2
  <2>2. \A j \in 1..L : link[s[j]] = NodeAt(nil, s, j + 1)
    BY DEF Linked, L
  <2>3. CASE i + 1 = k
    <3>1. k # 1 /\ k - 1 = i /\ Place(i) = i /\ Place(i + 1) = k + 1
      BY <1>1, <2>3
    <3>2. other[s[k - 1]] = link[s[k]]
      BY <3>1 DEF Bridged
    <3>3. link[s[k]] = NodeAt(nil, s, k + 1)
      BY <1>1, <2>2
    <3>4. rest[i] = s[k - 1]
      BY <1>2, <3>1
    <3>. HIDE DEF Place
    <3>5. QED
      BY <2>1, <3>1, <3>2, <3>3, <3>4
  <2>4. CASE i + 1 # k
    <3>1. Place(i) # k /\ Place(i) + 1 # k /\ Place(i) \in 1..L /\ Place(i + 1) = Place(i) + 1
      BY <1>1, <2>4
    <3>. HIDE DEF Place
    <3>2. other[s[Place(i)]] = link[s[Place(i)]]
      BY <3>1 DEF Bridged, L
    <3>3. QED
      BY <1>2, <2>1, <2>2, <3>1, <3>2
  <2>5. QED
    BY <2>3, <2>4
<1>8. head = NodeAt(nil, rest, 1)
  <2>1. CASE k = 1
    <3>1. head = NodeAt(nil, s, 2)
      BY <1>1, <2>1 DEF Linked, L
    <3>2. CASE L = 1
      BY <1>1, <3>1, <3>2 DEF NodeAt, L
    <3>3. CASE L # 1
      <4>1. 1 \in 1..(L - 1) /\ 1 # (L - 1) + 1 /\ 2 # L + 1 /\ Place(1) = 2
        BY <1>1, <2>1, <3>3
      <4>2. rest[1] = s[2]
        BY <1>2, <4>1
      <4>3. QED
        BY <1>1, <3>1, <4>1, <4>2 DEF NodeAt, L
    <3>4. QED
      BY <3>2, <3>3
  <2>2. CASE k # 1
    <3>1. 1 \in 1..(L - 1) /\ 1 # (L - 1) + 1 /\ 1 # L + 1 /\ Place(1) = 1
      BY <1>1, <2>2
    <3>2. rest[1] = s[1]
      BY <1>2, <3>1
    <3>3. QED
      BY <1>1, <2>2, <3>1, <3>2 DEF NodeAt, L, Linked
  <2>3. QED
    BY <2>1, <2>2
<1>9. Linked(nil, other, head, rest)
  BY <1>1, <1>7, <1>8 DEF Linked
<1>10. QED
  BY <1>5, <1>6, <1>9

Pointers == Tasks \cup {NULL}
QueueTypes == [head : Pointers, tail : Pointers, task_count : Nat]

\* The structure r of one queue, with the links n, describes the list s.
Describes(r, n, s) ==
    /\ Linked(NULL, n, r.head, s) /\ Once(s) /\ r.task_count = Len(s)
    /\ r.tail = IF s = <<>> THEN NULL ELSE s[Len(s)]

\* The structures l hold the lists c, and no task is on two of them.
Proper(l, c) ==
    /\ l.q \in [Levels -> QueueTypes] /\ l.n \in [Tasks -> Pointers]
    /\ c \in [Levels -> Seq(Tasks)]
    /\ \A i \in Levels : Describes(l.q[i], l.n, c[i])
    /\ \A i, j \in Levels : \A t \in Tasks : Holds(c[i], t) /\ Holds(c[j], t) => i = j

\* What Chain walks over are the lists.
LEMMA ChainsFound ==
    ASSUME NEW l, NEW c, Proper(l, c), NEW i \in Levels
    PROVE  Chain(l, i) = c[i]
<1>1. /\ c[i] \in Seq(Tasks) /\ Linked(NULL, l.n, l.q[i].head, c[i]) /\ Once(c[i])
  BY DEF Proper, Describes
<1>2. IsFiniteSet(Tasks) /\ NULL \notin Tasks
  BY MlfqAssumption
<1>3. Cardinality(Tasks) \in Nat /\ Len(c[i]) <= Cardinality(Tasks)
  BY <1>1, <1>2, ShortLists
<1>4. MaxChain \in Nat /\ Len(c[i]) <= MaxChain
  <2>1. Len(c[i]) \in Nat
    BY <1>1
  <2>2. QED
    BY <1>3, <2>1 DEF MaxChain
<1>5. QED
  BY <1>1, <1>2, <1>4, WalkMeets DEF Chain

\* One queue changes: the others keep their lists if the links of their tasks stay.
LEMMA OneQueueChanges ==
    ASSUME NEW l, NEW m, NEW c, NEW i \in Levels, NEW r \in QueueTypes, NEW s \in Seq(Tasks),
           Proper(l, c), m.q = [l.q EXCEPT ![i] = r], m.n \in [Tasks -> Pointers],
           Describes(r, m.n, s),
           \A j \in Levels : \A t \in Tasks : j # i /\ Holds(c[j], t) =>
               m.n[t] = l.n[t] /\ ~Holds(s, t)
    PROVE  Proper(m, [c EXCEPT ![i] = s])
<1>. DEFINE d == [c EXCEPT ![i] = s]
<1>1. /\ l.q \in [Levels -> QueueTypes] /\ c \in [Levels -> Seq(Tasks)]
      /\ \A j \in Levels : Describes(l.q[j], l.n, c[j])
      /\ \A j, k \in Levels : \A t \in Tasks : Holds(c[j], t) /\ Holds(c[k], t) => j = k
  BY DEF Proper
<1>2. d \in [Levels -> Seq(Tasks)] /\ d[i] = s /\ \A j \in Levels : j # i => d[j] = c[j]
  BY <1>1
<1>3. m.q \in [Levels -> QueueTypes] /\ m.q[i] = r /\ \A j \in Levels : j # i => m.q[j] = l.q[j]
  BY <1>1
<1>. HIDE DEF d
<1>4. ASSUME NEW j \in Levels, j # i PROVE Describes(l.q[j], m.n, c[j])
  <2>1. c[j] \in Seq(Tasks)
    BY <1>1
  <2>2. \A k \in 1..Len(c[j]) : c[j][k] \in Tasks /\ Holds(c[j], c[j][k])
    BY <2>1 DEF Holds
  <2>3. \A k \in 1..Len(c[j]) : m.n[c[j][k]] = l.n[c[j][k]]
    BY <1>4, <2>2
  <2>4. Describes(l.q[j], l.n, c[j])
    BY <1>1
  <2>5. Linked(NULL, m.n, l.q[j].head, c[j])
    BY <2>1, <2>3, <2>4, OthersStay DEF Describes
  <2>6. QED
    BY <2>4, <2>5 DEF Describes
<1>5. \A j \in Levels : Describes(m.q[j], m.n, d[j])
  BY <1>2, <1>3, <1>4
<1>6. \A j, k \in Levels : \A t \in Tasks : Holds(d[j], t) /\ Holds(d[k], t) => j = k
  BY <1>1, <1>2
<1>7. QED
  BY <1>2, <1>3, <1>5, <1>6 DEF Proper, d

\* What mlfq_enqueue does to the structures.
Enqueued(q, i, t) ==
    [q EXCEPT ![i] = [head |-> IF q[i].head = NULL THEN t ELSE q[i].head,
                      tail |-> t, task_count |-> q[i].task_count + 1]]

LinkedIn(q, n, i, t) ==
    IF q[i].head = NULL THEN [n EXCEPT ![t] = NULL]
    ELSE [n EXCEPT ![t] = NULL, ![q[i].tail] = t]

\* The steps of mlfq_enqueue together.
LEMMA EnqueueFields ==
    ASSUME NEW l, NEW i \in Levels, NEW t \in Tasks, l.q \in [Levels -> QueueTypes]
    PROVE  /\ mlfq_enqueue(l, i, t).q = Enqueued(l.q, i, t)
           /\ mlfq_enqueue(l, i, t).n = LinkedIn(l.q, l.n, i, t)
<1>1. l.q[i] = [head |-> l.q[i].head, tail |-> l.q[i].tail, task_count |-> l.q[i].task_count]
  BY DEF QueueTypes
<1>2. CASE l.q[i].head = NULL
  BY <1>1, <1>2 DEF mlfq_enqueue, Occupied, MoveTail, LinkIn, Enqueued, LinkedIn
<1>3. CASE l.q[i].head # NULL
  BY <1>1, <1>3 DEF mlfq_enqueue, Occupied, MoveTail, LinkIn, Enqueued, LinkedIn
<1>4. QED
  BY <1>2, <1>3

\* mlfq_enqueue appends a task that is on no list.
LEMMA EnqueueAppends ==
    ASSUME NEW l, NEW c, Proper(l, c), NEW i \in Levels, NEW t \in Tasks,
           \A j \in Levels : ~Holds(c[j], t)
    PROVE  Proper(mlfq_enqueue(l, i, t), [c EXCEPT ![i] = Append(c[i], t)])
<1>. DEFINE m == mlfq_enqueue(l, i, t)
            s == c[i]
            p == l.q[i].head
            r == [head |-> IF p = NULL THEN t ELSE p, tail |-> t,
                  task_count |-> l.q[i].task_count + 1]
            more == Append(s, t)
<1>1. /\ l.q \in [Levels -> QueueTypes] /\ l.n \in [Tasks -> Pointers]
      /\ s \in Seq(Tasks) /\ Describes(l.q[i], l.n, s) /\ l.q[i] \in QueueTypes
      /\ \A j \in Levels : \A u \in Tasks : Holds(c[i], u) /\ Holds(c[j], u) => i = j
  BY DEF Proper
<1>2. /\ Linked(NULL, l.n, p, s) /\ Once(s) /\ l.q[i].task_count = Len(s)
      /\ l.q[i].tail = IF s = <<>> THEN NULL ELSE s[Len(s)]
  BY <1>1 DEF Describes
<1>3. NULL \notin Tasks
  BY MlfqAssumption
<1>4. (p = NULL <=> s = <<>>) /\ (s # <<>> => Len(s) \in Nat \ {0} /\ s[Len(s)] \in Tasks)
  BY <1>1, <1>2, <1>3, HeadOf
<1>5. m.q = [l.q EXCEPT ![i] = r] /\ m.n = IF s = <<>> THEN [l.n EXCEPT ![t] = NULL]
                                           ELSE [l.n EXCEPT ![t] = NULL, ![s[Len(s)]] = t]
  <2>1. /\ m.q = [l.q EXCEPT ![i] = r]
        /\ m.n = IF p = NULL THEN [l.n EXCEPT ![t] = NULL]
                 ELSE [l.n EXCEPT ![t] = NULL, ![l.q[i].tail] = t]
    BY <1>1, EnqueueFields DEF Enqueued, LinkedIn
  <2>2. s # <<>> => l.q[i].tail = s[Len(s)]
    BY <1>2
  <2>. HIDE DEF m, s, p, r
  <2>3. QED
    BY <1>4, <2>1, <2>2
<1>6. r \in QueueTypes
  BY <1>1 DEF QueueTypes, Pointers
<1>7. m.n \in [Tasks -> Pointers]
  BY <1>1, <1>5 DEF Pointers
<1>8. /\ more \in Seq(Tasks) /\ more # <<>> /\ Len(more) = Len(s) + 1 /\ more[Len(more)] = t
      /\ Len(s) \in Nat
  BY <1>1
<1>9. Longer(more, s, t)
  BY DEF Longer
<1>10. ~Holds(s, t)
  OBVIOUS
<1>. HIDE DEF m, s, p, more
<1>11. ASSUME NEW u \in Tasks, u # t, s # <<>> => u # s[Len(s)] PROVE m.n[u] = l.n[u]
  BY <1>1, <1>4, <1>5, <1>11
<1>12. LinksBehind(NULL, l.n, m.n, s, t)
  <2>1. \A k \in 1..Len(s) : s[k] \in Tasks /\ s[k] # t
    BY <1>1, <1>10 DEF Holds
  <2>2. \A k \in 1..(Len(s) - 1) : k \in 1..Len(s) /\ Len(s) \in 1..Len(s) /\ k # Len(s)
    BY <1>8
  <2>3. \A k \in 1..(Len(s) - 1) : s[k] # s[Len(s)]
    BY <1>2, <2>2 DEF Once
  <2>4. s # <<>> => s[Len(s)] # t /\ s[Len(s)] \in Tasks
    <3>1. s # <<>> => Len(s) \in 1..Len(s)
      BY <1>4
    <3>2. QED
      BY <2>1, <3>1
  <2>5. m.n[t] = NULL /\ (s # <<>> => m.n[s[Len(s)]] = t)
    BY <1>1, <1>5, <2>4
  <2>6. QED
    BY <1>11, <2>1, <2>2, <2>3, <2>5 DEF LinksBehind
<1>13. /\ Linked(NULL, m.n, r.head, more) /\ Once(more)
       /\ \A u \in Tasks : Holds(more, u) <=> Holds(s, u) \/ u = t
  <2>1. (s = <<>> => r.head = t) /\ (s # <<>> => r.head = p)
    BY <1>4
  <2>. HIDE DEF r
  <2>2. QED
    BY <1>1, <1>2, <1>3, <1>9, <1>10, <1>12, <2>1, LinkedBehind
<1>14. Describes(r, m.n, more)
  <2>1. r.task_count = Len(more) /\ r.tail = more[Len(more)]
    BY <1>2, <1>8
  <2>. HIDE DEF r
  <2>2. QED
    BY <1>8, <1>13, <2>1 DEF Describes
<1>. HIDE DEF r
<1>15. \A j \in Levels : \A u \in Tasks : j # i /\ Holds(c[j], u) =>
               m.n[u] = l.n[u] /\ ~Holds(more, u)
  <2>. SUFFICES ASSUME NEW j \in Levels, NEW u \in Tasks, j # i, Holds(c[j], u)
                PROVE  m.n[u] = l.n[u] /\ ~Holds(more, u)
    OBVIOUS
  <2>1. u # t /\ ~Holds(s, u)
    BY <1>1 DEF s
  <2>2. s # <<>> => Holds(s, s[Len(s)])
    <3>1. s # <<>> => Len(s) \in 1..Len(s)
      BY <1>4
    <3>2. QED
      BY <3>1 DEF Holds
  <2>3. QED
    BY <1>11, <1>13, <2>1, <2>2
<1>16. Proper(m, [c EXCEPT ![i] = more])
  BY <1>5, <1>6, <1>7, <1>8, <1>14, <1>15, OneQueueChanges
<1>17. QED
  BY <1>16 DEF m, more, s

\* mlfq_dequeue takes the first task off.
LEMMA DequeueTakesFirst ==
    ASSUME NEW l, NEW c, Proper(l, c), NEW i \in Levels, c[i] # <<>>
    PROVE  /\ l.q[i].head = Head(c[i]) /\ Head(c[i]) \in Tasks /\ Holds(c[i], Head(c[i]))
           /\ Proper(mlfq_dequeue(l, i), [c EXCEPT ![i] = Tail(c[i])])
           /\ \A u \in Tasks : Holds(Tail(c[i]), u) <=> Holds(c[i], u) /\ u # Head(c[i])
<1>. DEFINE m == mlfq_dequeue(l, i)
            s == c[i]
            t == s[1]
            h == l.n[t]
            r == [head |-> h, tail |-> IF h = NULL THEN NULL ELSE l.q[i].tail,
                  task_count |-> l.q[i].task_count - 1]
            rest == Tail(s)
<1>1. /\ l.q \in [Levels -> QueueTypes] /\ l.n \in [Tasks -> Pointers]
      /\ s \in Seq(Tasks) /\ Describes(l.q[i], l.n, s) /\ l.q[i] \in QueueTypes
      /\ \A j \in Levels : \A u \in Tasks : Holds(c[i], u) /\ Holds(c[j], u) => i = j
  BY DEF Proper
<1>2. /\ Linked(NULL, l.n, l.q[i].head, s) /\ Once(s) /\ l.q[i].task_count = Len(s)
      /\ l.q[i].tail = IF s = <<>> THEN NULL ELSE s[Len(s)]
  BY <1>1 DEF Describes
<1>3. NULL \notin Tasks
  BY MlfqAssumption
<1>4. l.q[i].head = t /\ t \in Tasks /\ Len(s) \in Nat \ {0} /\ Head(s) = t
  BY <1>1, <1>2, <1>3, HeadOf
<1>5. m.q = [l.q EXCEPT ![i] = r] /\ m.n = [l.n EXCEPT ![t] = NULL]
  BY <1>1, <1>4 DEF mlfq_dequeue
<1>6. h \in Pointers
  BY <1>1, <1>4
<1>7. r \in QueueTypes
  BY <1>1, <1>2, <1>4, <1>6 DEF QueueTypes, Pointers
<1>8. m.n \in [Tasks -> Pointers]
  BY <1>1, <1>5 DEF Pointers
<1>9. Holds(s, t)
  <2>1. 1 \in 1..Len(s)
    BY <1>4
  <2>2. QED
    BY <2>1 DEF Holds
<1>. HIDE DEF m, s, t
<1>10. \A u \in Tasks : u # t => m.n[u] = l.n[u]
  BY <1>1, <1>5
<1>11. LinksAfterFirst(l.n, m.n, s)
  <2>1. \A k \in 2..Len(s) : k \in 1..Len(s) /\ 1 \in 1..Len(s) /\ k # 1
    BY <1>4
  <2>2. \A k \in 2..Len(s) : s[k] \in Tasks /\ s[k] # t
    BY <1>1, <1>2, <2>1 DEF Once, t
  <2>3. QED
    BY <1>10, <2>2 DEF LinksAfterFirst
<1>12. s # <<>>
  BY DEF s
<1>13. /\ rest \in Seq(Tasks) /\ Linked(NULL, m.n, h, rest) /\ Once(rest)
       /\ \A u \in Tasks : Holds(rest, u) <=> Holds(s, u) /\ u # s[1]
  <2>1. Linked(NULL, l.n, t, s) /\ s[1] = t
    BY <1>2, <1>4 DEF t
  <2>2. /\ Tail(s) \in Seq(Tasks) /\ Linked(NULL, m.n, l.n[t], Tail(s)) /\ Once(Tail(s))
        /\ \A u \in Tasks : Holds(Tail(s), u) <=> Holds(s, u) /\ u # s[1]
    BY <1>1, <1>2, <1>3, <1>11, <1>12, <2>1, LinkedOff
  <2>3. QED
    BY <2>2
<1>14. /\ Len(rest) = Len(s) - 1 /\ (rest # <<>> => rest[Len(rest)] = s[Len(s)])
  BY <1>1, <1>12
<1>. HIDE DEF rest, h
<1>15. h = NULL <=> rest = <<>>
  BY <1>3, <1>13, HeadOf
<1>16. Describes(r, m.n, rest)
  <2>1. /\ r.head = h /\ r.task_count = Len(rest)
        /\ r.tail = IF rest = <<>> THEN NULL ELSE rest[Len(rest)]
    BY <1>2, <1>12, <1>14, <1>15
  <2>. HIDE DEF r
  <2>2. QED
    BY <1>13, <2>1 DEF Describes
<1>. HIDE DEF r
<1>17. \A j \in Levels : \A u \in Tasks : j # i /\ Holds(c[j], u) =>
               m.n[u] = l.n[u] /\ ~Holds(rest, u)
  BY <1>1, <1>4, <1>9, <1>10, <1>13 DEF s
<1>18. Proper(m, [c EXCEPT ![i] = rest])
  BY <1>5, <1>7, <1>8, <1>13, <1>16, <1>17, OneQueueChanges
<1>19. QED
  BY <1>4, <1>9, <1>13, <1>18 DEF m, rest, s, t

\* The two writes of the unlinking together.
Unlink(l, i, t) ==
    FixTail(CutOut(l, i, t, InFront(l, i, t)), i, t, InFront(l, i, t))

\* Unlink takes a task out of its list, wherever it is.
LEMMA UnlinkTakesOut ==
    ASSUME NEW l, NEW c, Proper(l, c), NEW i \in Levels, NEW t \in Tasks, Holds(c[i], t)
    PROVE  \E d \in Seq(Tasks) :
               /\ Proper(Unlink(l, i, t), [c EXCEPT ![i] = d])
               /\ \A u \in Tasks : Holds(d, u) <=> Holds(c[i], u) /\ u # t
<1>. DEFINE m == Unlink(l, i, t)
            s == c[i]
            L == Len(s)
<1>1. /\ l.q \in [Levels -> QueueTypes] /\ l.n \in [Tasks -> Pointers]
      /\ s \in Seq(Tasks) /\ Describes(l.q[i], l.n, s) /\ l.q[i] \in QueueTypes
      /\ \A j \in Levels : \A u \in Tasks : Holds(c[i], u) /\ Holds(c[j], u) => i = j
  BY DEF Proper
<1>2. /\ Linked(NULL, l.n, l.q[i].head, s) /\ Once(s) /\ l.q[i].task_count = L
      /\ l.q[i].tail = IF s = <<>> THEN NULL ELSE s[L]
  BY <1>1 DEF Describes
<1>3. NULL \notin Tasks
  BY MlfqAssumption
<1>4. PICK k \in 1..L : s[k] = t
  BY DEF Holds
<1>5. L \in Nat \ {0} /\ DOMAIN s = 1..L /\ s # <<>> /\ k \in 1..L
  BY <1>1, <1>4
<1>6. {j \in DOMAIN s : s[j] = t} = {k}
  <2>1. \A j \in 1..L : s[j] = t => j = k
    BY <1>2, <1>4 DEF Once
  <2>2. QED
    BY <1>4, <1>5, <2>1
<1>7. Min({k}) = k
  BY <1>5 DEF Min
<1>8. Chain(l, i) = s
  BY ChainsFound
<1>. DEFINE prev == IF k = 1 THEN NULL ELSE s[k - 1]
            r == [head |-> IF k = 1 THEN l.n[t] ELSE l.q[i].head,
                  tail |-> IF l.q[i].tail = t THEN prev ELSE l.q[i].tail,
                  task_count |-> l.q[i].task_count - 1]
            rest == Without(s, k)
<1>9. m = [q |-> [l.q EXCEPT ![i] = r],
           n |-> IF k = 1 THEN l.n ELSE [l.n EXCEPT ![prev] = l.n[t]]]
  <2>1. InFront(l, i, t) = prev
    <3>. HIDE DEF s
    <3>1. QED
      BY <1>6, <1>7, <1>8 DEF InFront
  <2>2. prev = NULL <=> k = 1
    <3>1. k # 1 => k - 1 \in 1..L
      BY <1>5
    <3>2. QED
      BY <1>1, <1>3, <3>1
  <2>3. l.q[i] = [head |-> l.q[i].head, tail |-> l.q[i].tail, task_count |-> l.q[i].task_count]
    BY <1>1 DEF QueueTypes
  <2>. DEFINE o == CutOut(l, i, t, prev)
  <2>. HIDE DEF s, prev
  <2>4. /\ o.q = IF k = 1 THEN [l.q EXCEPT ![i].head = l.n[t]] ELSE l.q
        /\ o.n = IF k = 1 THEN l.n ELSE [l.n EXCEPT ![prev] = l.n[t]]
    BY <2>2 DEF CutOut
  <2>5. /\ o.q[i] = [head |-> r.head, tail |-> l.q[i].tail, task_count |-> l.q[i].task_count]
        /\ o.q \in [Levels -> QueueTypes \cup {o.q[i]}]
        /\ \A j \in Levels : j # i => o.q[j] = l.q[j]
    BY <1>1, <2>3, <2>4
  <2>6. m = [q |-> [o.q EXCEPT ![i].tail = IF @ = t THEN prev ELSE @, ![i].task_count = @ - 1],
             n |-> o.n]
    BY <2>1 DEF Unlink, FixTail
  <2>. HIDE DEF o, m
  <2>7. m.q = [l.q EXCEPT ![i] = r]
    BY <1>1, <2>5, <2>6
  <2>8. QED
    BY <2>4, <2>6, <2>7
<1>10. m.q = [l.q EXCEPT ![i] = r] /\ m.n = IF k = 1 THEN l.n ELSE [l.n EXCEPT ![prev] = l.n[t]]
  BY <1>9
<1>. HIDE DEF m, s
<1>11. /\ k # 1 => k - 1 \in 1..L /\ prev = s[k - 1] /\ prev \in Tasks
       /\ l.n[t] \in Pointers /\ prev \in Pointers
  <2>1. k # 1 => k - 1 \in 1..L
    BY <1>4, <1>5
  <2>2. QED
    BY <1>1, <2>1 DEF Pointers
<1>12. r \in QueueTypes
  <2>1. L - 1 \in Nat
    BY <1>5
  <2>. HIDE DEF prev, L
  <2>2. QED
    BY <1>1, <1>2, <1>11, <2>1 DEF QueueTypes
<1>13. m.n \in [Tasks -> Pointers]
  <2>. HIDE DEF prev, r
  <2>1. QED
    BY <1>1, <1>10, <1>11
<1>14. \A u \in Tasks : (k # 1 => u # prev) => m.n[u] = l.n[u]
  <2>. HIDE DEF prev, r
  <2>1. QED
    BY <1>1, <1>10, <1>11
<1>15. Bridged(l.n, m.n, s, k)
  <2>1. ASSUME NEW j \in 1..Len(s), j # k, j + 1 # k PROVE m.n[s[j]] = l.n[s[j]]
    <3>1. s[j] \in Tasks
      BY <1>1
    <3>2. k # 1 => s[j] # prev
      <4>1. k # 1 => j # k - 1
        BY <1>5, <2>1
      <4>2. QED
        BY <1>2, <1>11, <4>1 DEF Once
    <3>3. QED
      BY <1>14, <3>1, <3>2
  <2>2. k # 1 => m.n[s[k - 1]] = l.n[s[k]]
    <3>. HIDE DEF r
    <3>1. QED
      BY <1>1, <1>4, <1>10, <1>11
  <2>3. QED
    BY <2>1, <2>2 DEF Bridged
<1>16. /\ rest \in Seq(Tasks) /\ Len(rest) = L - 1
       /\ \A j \in 1..(L - 1) : rest[j] = IF j < k THEN s[j] ELSE s[j + 1]
  <2>1. L - 1 \in Nat /\ \A j \in 1..(L - 1) : j \in 1..L /\ j + 1 \in 1..L
    BY <1>5
  <2>2. rest \in [1..(L - 1) -> Tasks]
    BY <1>1, <2>1 DEF Without
  <2>3. rest \in Seq(Tasks) /\ Len(rest) = L - 1
    BY <2>1, <2>2
  <2>4. QED
    BY <2>3 DEF Without
<1>. HIDE DEF rest
<1>17. /\ Linked(NULL, m.n, r.head, rest) /\ Once(rest)
       /\ \A u \in Tasks : Holds(rest, u) <=> Holds(s, u) /\ u # s[k]
  <2>1. (k = 1 => r.head = l.n[s[1]]) /\ (k # 1 => r.head = l.q[i].head)
    BY <1>4
  <2>2. Shorter(rest, s, k)
    BY <1>16 DEF Shorter
  <2>3. s \in Seq(Tasks) /\ Linked(NULL, l.n, l.q[i].head, s) /\ Once(s) /\ rest \in Seq(Tasks)
    BY <1>1, <1>2, <1>16
  <2>4. k \in 1..Len(s)
    BY <1>5, Zenon
  <2>. HIDE DEF r, L, prev
  <2>5. QED
    BY <1>3, <1>15, <2>1, <2>2, <2>3, <2>4, LinkedWithout
<1>18. /\ r.task_count = Len(rest)
       /\ r.tail = IF rest = <<>> THEN NULL ELSE rest[Len(rest)]
  <2>1. r.task_count = L - 1 /\ r.tail = IF s[L] = t THEN prev ELSE s[L]
    BY <1>2, <1>5
  <2>2. s[L] = t <=> k = L
    BY <1>2, <1>4, <1>5 DEF Once
  <2>3. CASE L = 1
    <3>1. rest = <<>> /\ k = 1 /\ k = L
      BY <1>5, <1>16, <2>3
    <3>2. QED
      BY <1>16, <2>1, <2>2, <3>1
  <2>4. CASE L # 1
    <3>. HIDE DEF L
    <3>0. L \in Nat \ {0} /\ k \in 1..L /\ L # 1
      BY <1>5, <2>4, Zenon
    <3>1. rest # <<>> /\ L - 1 \in 1..(L - 1) /\ (k = L => L - 1 < k /\ k # 1) /\ (L - 1) + 1 = L
      <4>1. L - 1 \in 1..(L - 1) /\ (k = L => L - 1 < k /\ k # 1) /\ (L - 1) + 1 = L /\ L - 1 # 0
        BY <3>0
      <4>2. rest # <<>>
        BY <1>16, <4>1
      <4>3. QED
        BY <4>1, <4>2
    <3>2. k # L => ~(L - 1 < k)
      BY <3>0
    <3>3. rest[L - 1] = IF k = L THEN s[L - 1] ELSE s[L]
      BY <1>16, <3>1, <3>2
    <3>4. QED
      BY <1>11, <1>16, <2>1, <2>2, <3>1, <3>3
  <2>5. QED
    BY <2>3, <2>4
<1>19. Describes(r, m.n, rest)
  <2>. HIDE DEF r
  <2>1. QED
    BY <1>17, <1>18 DEF Describes
<1>20. \A j \in Levels : \A u \in Tasks : j # i /\ Holds(c[j], u) =>
               m.n[u] = l.n[u] /\ ~Holds(rest, u)
  <2>. SUFFICES ASSUME NEW j \in Levels, NEW u \in Tasks, j # i, Holds(c[j], u)
                PROVE  m.n[u] = l.n[u] /\ ~Holds(rest, u)
    OBVIOUS
  <2>1. ~Holds(s, u)
    BY <1>1 DEF s
  <2>2. k # 1 => Holds(s, prev)
    BY <1>11 DEF Holds
  <2>. HIDE DEF prev
  <2>3. QED
    BY <1>14, <1>17, <2>1, <2>2
<1>21. Proper(m, [c EXCEPT ![i] = rest])
  <2>. HIDE DEF r
  <2>1. QED
    BY <1>10, <1>12, <1>13, <1>16, <1>19, <1>20, OneQueueChanges
<1>22. QED
  BY <1>4, <1>16, <1>17, <1>21 DEF m, s

-----------------------------------------------------------------------------
(* The boost. *)

\* From c to d tasks only moved from the list k to the list 0.
Lifts(c, d, k) ==
    /\ \A i \in Levels : i # 0 /\ i # k => d[i] = c[i]
    /\ \A u \in Tasks : Holds(d[0], u) \/ Holds(d[k], u) <=> Holds(c[0], u) \/ Holds(c[k], u)

\* A list with one more task.
LEMMA AppendHolds ==
    ASSUME NEW s \in Seq(Tasks), NEW t \in Tasks
    PROVE  \A u \in Tasks : Holds(Append(s, t), u) <=> Holds(s, u) \/ u = t
<1>1. /\ Len(s) \in Nat /\ Len(Append(s, t)) = Len(s) + 1
      /\ \A i \in 1..Len(s) : Append(s, t)[i] = s[i]
      /\ Append(s, t)[Len(s) + 1] = t
  OBVIOUS
<1>2. \A i \in 1..(Len(s) + 1) : i = Len(s) + 1 \/ i \in 1..Len(s)
  BY <1>1
<1>3. Len(s) + 1 \in 1..(Len(s) + 1) /\ \A i \in 1..Len(s) : i \in 1..(Len(s) + 1)
  BY <1>1
<1>4. QED
  BY <1>1, <1>2, <1>3 DEF Holds

\* One round of the inner loop.
LEMMA MoveUpLifts ==
    ASSUME NEW l, NEW c, Proper(l, c), NEW k \in Levels, k # 0, c[k] # <<>>
    PROVE  \E d : /\ Proper(MoveUp(l, k), d) /\ Lifts(c, d, k)
                  /\ Len(d[k]) = Len(c[k]) - 1
<1>. DEFINE t == Head(c[k])
            e == [c EXCEPT ![k] = Tail(c[k])]
            d == [e EXCEPT ![0] = Append(e[0], t)]
<1>1. /\ l.q[k].head = t /\ t \in Tasks /\ Holds(c[k], t)
      /\ Proper(mlfq_dequeue(l, k), e)
      /\ \A u \in Tasks : Holds(Tail(c[k]), u) <=> Holds(c[k], u) /\ u # t
  BY DequeueTakesFirst
<1>2. /\ c \in [Levels -> Seq(Tasks)] /\ 0 \in Levels
      /\ \A i, j \in Levels : \A u \in Tasks : Holds(c[i], u) /\ Holds(c[j], u) => i = j
  BY MlfqAssumption DEF Proper, Levels
<1>3. /\ e[k] = Tail(c[k]) /\ \A i \in Levels : i # k => e[i] = c[i]
  BY <1>2
<1>4. /\ d[k] = Tail(c[k]) /\ d[0] = Append(c[0], t)
      /\ \A i \in Levels : i # 0 /\ i # k => d[i] = c[i]
  <2>1. e \in [Levels -> Seq(Tasks)]
    BY <1>1 DEF Proper
  <2>. HIDE DEF e, t
  <2>2. QED
    BY <1>2, <1>3, <2>1
<1>. HIDE DEF t
<1>5. \A j \in Levels : ~Holds(e[j], t)
  <2>. HIDE DEF e
  <2>1. QED
    BY <1>1, <1>2, <1>3
<1>6. MoveUp(l, k) = mlfq_enqueue(mlfq_dequeue(l, k), 0, t)
  BY <1>1, MlfqAssumption DEF MoveUp
<1>. HIDE DEF e
<1>7. Proper(MoveUp(l, k), d)
  BY <1>1, <1>2, <1>5, <1>6, EnqueueAppends
<1>. HIDE DEF d
<1>8. \A u \in Tasks : Holds(Append(c[0], t), u) <=> Holds(c[0], u) \/ u = t
  BY <1>1, <1>2, AppendHolds
<1>9. Lifts(c, d, k)
  BY <1>1, <1>4, <1>8 DEF Lifts
<1>10. Len(Tail(c[k])) = Len(c[k]) - 1
  BY <1>2
<1>11. QED
  BY <1>4, <1>7, <1>9, <1>10

\* f[j] are the structures after j rounds of the inner loop of the boost on the queue k.
IsMoved(f, l, k, n) == f = [j \in 0..n |-> IF j = 0 THEN l ELSE MoveUp(f[j - 1], k)]

\* f[k] are the structures after the boost has emptied the queues 1 to k.
IsDrained(f, n) == f = [j \in 0..n |-> IF j = 0 THEN Lists ELSE Drain(f[j - 1], j)]

\* The recursion of Drain has a solution.
LEMMA MovedExists ==
    ASSUME NEW l, NEW k, NEW n \in Nat
    PROVE  \E f : IsMoved(f, l, k, n)
<1>. DEFINE H == {i \in Nat : ~\E f : IsMoved(f, l, k, i)}
<1>1. SUFFICES ASSUME H # {} PROVE FALSE
  OBVIOUS
<1>2. PICK m \in H : \A j \in H : m <= j
  BY <1>1, Least
<1>3. m \in Nat /\ ~\E f : IsMoved(f, l, k, m)
  OBVIOUS
<1>4. CASE m = 0
  <2>. DEFINE f == [j \in 0..0 |-> l]
  <2>1. \A j \in 0..0 : j = 0
    OBVIOUS
  <2>2. f = [j \in 0..0 |-> IF j = 0 THEN l ELSE MoveUp(f[j - 1], k)]
    BY <2>1, Zenon
  <2>3. QED
    BY <1>3, <1>4, <2>2 DEF IsMoved
<1>5. CASE m # 0
  <2>1. m - 1 \in Nat /\ ~(m <= m - 1)
    BY <1>3, <1>5
  <2>2. m - 1 \notin H
    BY <1>2, <2>1
  <2>3. PICK f : IsMoved(f, l, k, m - 1)
    BY <2>1, <2>2
  <2>. DEFINE last == MoveUp(f[m - 1], k)
              more == [j \in 0..m |-> IF j = m THEN last ELSE f[j]]
              Eq(j) == IF j = 0 THEN l ELSE MoveUp(more[j - 1], k)
  <2>4. ASSUME NEW j \in 0..m PROVE more[j] = Eq(j)
    <3>1. CASE j = m
      <4>1. j - 1 \in 0..m /\ j - 1 # m /\ j - 1 = m - 1 /\ j # 0
        BY <1>3, <1>5, <3>1
      <4>2. more[j - 1] = f[m - 1]
        BY <4>1
      <4>3. more[j] = last
        BY <3>1
      <4>. HIDE DEF more
      <4>4. QED
        BY <3>1, <4>1, <4>2, <4>3
    <3>2. CASE j # m
      <4>1. j \in 0..(m - 1) /\ (j # 0 => j - 1 \in 0..m /\ j - 1 # m)
        BY <1>3, <1>5, <3>2
      <4>2. more[j] = f[j] /\ (j # 0 => more[j - 1] = f[j - 1])
        <5>. HIDE DEF last
        <5>1. QED
          BY <3>2, <4>1
      <4>3. f[j] = IF j = 0 THEN l ELSE MoveUp(f[j - 1], k)
        BY <2>3, <4>1 DEF IsMoved
      <4>. HIDE DEF more
      <4>4. QED
        BY <4>2, <4>3
    <3>3. QED
      BY <3>1, <3>2
  <2>5. more = [j \in 0..m |-> more[j]]
    OBVIOUS
  <2>. HIDE DEF more
  <2>6. more = [j \in 0..m |-> Eq(j)]
    <3>. HIDE DEF Eq
    <3>1. QED
      BY <2>4, <2>5, Zenon
  <2>7. QED
    BY <1>3, <2>6 DEF IsMoved
<1>6. QED
  BY <1>4, <1>5

\* The recursion of Boost has a solution.
LEMMA DrainedExists ==
    ASSUME NEW n \in Nat
    PROVE  \E f : IsDrained(f, n)
<1>. DEFINE H == {i \in Nat : ~\E f : IsDrained(f, i)}
<1>1. SUFFICES ASSUME H # {} PROVE FALSE
  OBVIOUS
<1>2. PICK m \in H : \A j \in H : m <= j
  BY <1>1, Least
<1>3. m \in Nat /\ ~\E f : IsDrained(f, m)
  OBVIOUS
<1>4. CASE m = 0
  <2>. DEFINE f == [j \in 0..0 |-> Lists]
  <2>1. \A j \in 0..0 : j = 0
    OBVIOUS
  <2>2. f = [j \in 0..0 |-> IF j = 0 THEN Lists ELSE Drain(f[j - 1], j)]
    BY <2>1, Zenon
  <2>3. QED
    BY <1>3, <1>4, <2>2 DEF IsDrained
<1>5. CASE m # 0
  <2>1. m - 1 \in Nat /\ ~(m <= m - 1)
    BY <1>3, <1>5
  <2>2. m - 1 \notin H
    BY <1>2, <2>1
  <2>3. PICK f : IsDrained(f, m - 1)
    BY <2>1, <2>2
  <2>. DEFINE last == Drain(f[m - 1], m)
              more == [j \in 0..m |-> IF j = m THEN last ELSE f[j]]
              Eq(j) == IF j = 0 THEN Lists ELSE Drain(more[j - 1], j)
  <2>4. ASSUME NEW j \in 0..m PROVE more[j] = Eq(j)
    <3>1. CASE j = m
      <4>1. j - 1 \in 0..m /\ j - 1 # m /\ j - 1 = m - 1 /\ j # 0
        BY <1>3, <1>5, <3>1
      <4>2. more[j - 1] = f[m - 1]
        BY <4>1
      <4>3. more[j] = last
        BY <3>1
      <4>. HIDE DEF more
      <4>4. QED
        BY <3>1, <4>1, <4>2, <4>3
    <3>2. CASE j # m
      <4>1. j \in 0..(m - 1) /\ (j # 0 => j - 1 \in 0..m /\ j - 1 # m)
        BY <1>3, <1>5, <3>2
      <4>2. more[j] = f[j] /\ (j # 0 => more[j - 1] = f[j - 1])
        <5>. HIDE DEF last
        <5>1. QED
          BY <3>2, <4>1
      <4>3. f[j] = IF j = 0 THEN Lists ELSE Drain(f[j - 1], j)
        BY <2>3, <4>1 DEF IsDrained
      <4>. HIDE DEF more
      <4>4. QED
        BY <4>2, <4>3
    <3>3. QED
      BY <3>1, <3>2
  <2>5. more = [j \in 0..m |-> more[j]]
    OBVIOUS
  <2>. HIDE DEF more
  <2>6. more = [j \in 0..m |-> Eq(j)]
    <3>. HIDE DEF Eq
    <3>1. QED
      BY <2>4, <2>5, Zenon
  <2>7. QED
    BY <1>3, <2>6 DEF IsDrained
<1>6. QED
  BY <1>4, <1>5

\* Lifting is transitive.
LEMMA LiftsOn ==
    ASSUME NEW c, NEW d, NEW e, NEW k, Lifts(c, d, k), Lifts(d, e, k)
    PROVE  Lifts(c, e, k)
BY DEF Lifts

\* The inner loop empties the queue k into queue 0.
LEMMA DrainLifts ==
    ASSUME NEW l, NEW c, Proper(l, c), NEW k \in Levels, k # 0
    PROVE  \E d : Proper(Drain(l, k), d) /\ Lifts(c, d, k) /\ d[k] = <<>>
<1>. DEFINE n == Len(c[k])
            f == CHOOSE g : g = [j \in 0..n |-> IF j = 0 THEN l ELSE MoveUp(g[j - 1], k)]
            After(j) == \E d : Proper(f[j], d) /\ Lifts(c, d, k) /\ Len(d[k]) = n - j
            H == {j \in 0..n : ~After(j)}
<1>1. c \in [Levels -> Seq(Tasks)]
  BY DEF Proper
<1>2. n \in Nat
  BY <1>1
<1>3. Drain(l, k) = f[n]
  <2>1. Chain(l, k) = c[k]
    BY ChainsFound
  <2>2. QED
    BY <2>1, Zenon DEF Drain
<1>4. IsMoved(f, l, k, n)
  <2>1. \E g : IsMoved(g, l, k, n)
    BY <1>2, MovedExists
  <2>2. QED
    BY <2>1, Zenon DEF IsMoved
<1>. HIDE DEF f
<1>5. \A j \in 0..n : f[j] = IF j = 0 THEN l ELSE MoveUp(f[j - 1], k)
  <2>. HIDE DEF n
  <2>1. QED
    BY <1>4 DEF IsMoved
<1>6. After(0)
  <2>1. f[0] = l
    BY <1>2, <1>5
  <2>2. Lifts(c, c, k) /\ Len(c[k]) = n - 0
    BY <1>2 DEF Lifts
  <2>3. QED
    BY <2>1, <2>2
<1>7. ASSUME NEW j \in 1..n, After(j - 1) PROVE After(j)
  <2>1. PICK d : Proper(f[j - 1], d) /\ Lifts(c, d, k) /\ Len(d[k]) = n - (j - 1)
    BY <1>7
  <2>2. j \in 0..n /\ j # 0 /\ n - (j - 1) # 0 /\ (n - (j - 1)) - 1 = n - j
    BY <1>2
  <2>3. f[j] = MoveUp(f[j - 1], k)
    BY <1>5, <2>2
  <2>. HIDE DEF n
  <2>4. d[k] # <<>>
    BY <2>1, <2>2
  <2>5. PICK e : Proper(MoveUp(f[j - 1], k), e) /\ Lifts(d, e, k) /\ Len(e[k]) = Len(d[k]) - 1
    BY <2>1, <2>4, MoveUpLifts
  <2>6. Lifts(c, e, k)
    BY <2>1, <2>5, LiftsOn
  <2>7. QED
    BY <2>1, <2>2, <2>3, <2>5, <2>6
<1>8. H = {}
  <2>. HIDE DEF After
  <2>1. SUFFICES ASSUME H # {} PROVE FALSE
    OBVIOUS
  <2>2. H \in SUBSET Nat
    BY <1>2
  <2>3. PICK m \in H : \A j \in H : m <= j
    BY <2>1, <2>2, Least
  <2>4. m \in 0..n /\ ~After(m)
    OBVIOUS
  <2>5. m # 0
    BY <1>6, <2>4
  <2>6. m - 1 \in 0..n /\ ~(m <= m - 1) /\ m \in 1..n
    BY <1>2, <2>4, <2>5
  <2>7. After(m - 1)
    BY <2>3, <2>6
  <2>8. QED
    BY <1>7, <2>4, <2>6, <2>7
<1>9. After(n)
  <2>1. n \in 0..n
    BY <1>2
  <2>. HIDE DEF After, n
  <2>2. QED
    BY <1>8, <2>1
<1>10. PICK d : Proper(f[n], d) /\ Lifts(c, d, k) /\ Len(d[k]) = n - n
  BY <1>9
<1>11. d[k] = <<>>
  <2>1. d[k] \in Seq(Tasks)
    BY <1>10 DEF Proper
  <2>2. Len(d[k]) = 0
    BY <1>2, <1>10
  <2>3. QED
    BY <2>1, <2>2
<1>12. QED
  BY <1>3, <1>10, <1>11

\* scheduler_mlfq_boost leaves every task on queue 0, and no other.
LEMMA BoostLifts ==
    ASSUME NEW c, Proper(Lists, c)
    PROVE  \E d : /\ Proper(Boost, d)
                  /\ \A i \in Levels : i # 0 => d[i] = <<>>
                  /\ \A u \in Tasks : Holds(d[0], u) <=> \E i \in Levels : Holds(c[i], u)
<1>. DEFINE n == MLFQ_QUEUE_COUNT - 1
            f == CHOOSE g : g = [j \in 0..n |-> IF j = 0 THEN Lists ELSE Drain(g[j - 1], j)]
            After(k) == \E d : /\ Proper(f[k], d)
                               /\ \A i \in Levels : i # 0 /\ i <= k => d[i] = <<>>
                               /\ \A i \in Levels : ~(i <= k) => d[i] = c[i]
                               /\ \A u \in Tasks : Holds(d[0], u) <=>
                                      \E i \in Levels : i <= k /\ Holds(c[i], u)
            H == {k \in 0..n : ~After(k)}
<1>1. n \in Nat /\ Levels = 0..n
  BY MlfqAssumption DEF Levels
<1>2. Boost = f[n]
  BY Zenon DEF Boost
<1>3. IsDrained(f, n)
  <2>1. \E g : IsDrained(g, n)
    BY <1>1, DrainedExists
  <2>2. QED
    BY <2>1, Zenon DEF IsDrained
<1>. HIDE DEF f, n
<1>4. \A j \in 0..n : f[j] = IF j = 0 THEN Lists ELSE Drain(f[j - 1], j)
  BY <1>3 DEF IsDrained
<1>5. After(0)
  <2>1. f[0] = Lists /\ 0 \in Levels
    BY <1>1, <1>4
  <2>2. \A i \in Levels : i <= 0 <=> i = 0
    BY <1>1
  <2>3. QED
    BY <2>1, <2>2
<1>6. ASSUME NEW k \in 1..n, After(k - 1) PROVE After(k)
  <2>1. PICK d : /\ Proper(f[k - 1], d)
                 /\ \A i \in Levels : i # 0 /\ i <= k - 1 => d[i] = <<>>
                 /\ \A i \in Levels : ~(i <= k - 1) => d[i] = c[i]
                 /\ \A u \in Tasks : Holds(d[0], u) <=>
                        \E i \in Levels : i <= k - 1 /\ Holds(c[i], u)
    BY <1>6
  <2>2. k \in Levels /\ k # 0 /\ k \in 0..n /\ ~(k <= k - 1) /\ 0 \in Levels /\ 0 # k
    BY <1>1
  <2>3. f[k] = Drain(f[k - 1], k)
    BY <1>4, <2>2
  <2>4. PICK e : Proper(Drain(f[k - 1], k), e) /\ Lifts(d, e, k) /\ e[k] = <<>>
    BY <2>1, <2>2, DrainLifts
  <2>5. \A i \in Levels : (i <= k <=> i <= k - 1 \/ i = k)
    BY <1>1
  <2>6. \A i \in Levels : i # 0 /\ i <= k => e[i] = <<>>
    BY <2>1, <2>4, <2>5 DEF Lifts
  <2>7. \A i \in Levels : ~(i <= k) => e[i] = c[i]
    <3>1. \A i \in Levels : ~(i <= k) => i # 0 /\ i # k
      BY <1>1
    <3>2. QED
      BY <2>1, <2>4, <2>5, <3>1 DEF Lifts
  <2>8. ASSUME NEW u \in Tasks
        PROVE  Holds(e[0], u) <=> \E i \in Levels : i <= k /\ Holds(c[i], u)
    <3>1. ~Holds(<<>>, u)
      BY DEF Holds
    <3>2. Holds(e[0], u) <=> Holds(d[0], u) \/ Holds(c[k], u)
      BY <2>1, <2>2, <2>4, <3>1 DEF Lifts
    <3>3. QED
      BY <2>1, <2>2, <2>5, <3>2
  <2>9. QED
    BY <2>3, <2>4, <2>6, <2>7, <2>8
<1>7. H = {}
  <2>. HIDE DEF After
  <2>1. SUFFICES ASSUME H # {} PROVE FALSE
    OBVIOUS
  <2>2. H \in SUBSET Nat
    BY <1>1
  <2>3. PICK m \in H : \A j \in H : m <= j
    BY <2>1, <2>2, Least
  <2>4. m \in 0..n /\ ~After(m)
    OBVIOUS
  <2>5. m # 0
    BY <1>5, <2>4
  <2>6. m - 1 \in 0..n /\ ~(m <= m - 1) /\ m \in 1..n
    BY <1>1, <2>4, <2>5
  <2>7. After(m - 1)
    BY <2>3, <2>6
  <2>8. QED
    BY <1>6, <2>4, <2>6, <2>7
<1>8. After(n)
  <2>1. n \in 0..n
    BY <1>1
  <2>. HIDE DEF After
  <2>2. QED
    BY <1>7, <2>1
<1>9. \A i \in Levels : i <= n
  BY <1>1
<1>10. QED
  BY <1>2, <1>8, <1>9

-----------------------------------------------------------------------------
(* The invariant of the scheduler. *)

Params == [current_queue : Levels, time_slice : Nat]

\* The structures as the unlinking or the mlfq_enqueue under way, if any, will leave them.
Settled ==
    IF busy = NULL THEN Lists
    ELSE IF busy.pc = "found"
    THEN FixTail(CutOut(Lists, Here, busy.task, busy.prev), Here, busy.task, busy.prev)
    ELSE IF busy.pc = "cut" THEN FixTail(Lists, Here, busy.task, busy.prev)
    ELSE IF busy.pc = "linked" THEN MoveTail(Lists, busy.to, busy.task, busy.occupied)
    ELSE Lists

\* The task that the operation b has taken off the lists, or not yet put on one.
Off(b, t) == b # NULL /\ b.task = t /\ b.pc \in {"found", "cut", "out", "enqueue", "linking"}

\* Any other task is on the list that its parameters name, and on no other.
Agrees(c, par, b) ==
    \A t \in Tasks : \A i \in Levels :
        Holds(c[i], t) <=> ~Off(b, t) /\ par[t] # NULL /\ par[t].current_queue = i

SchedTypes ==
    /\ params \in [Tasks -> Params \cup {NULL}] /\ current \in Pointers
    /\ busy \in Operations \cup {NULL}

\* What the operation under way remembers still holds.
Remembered ==
    busy # NULL =>
        /\ params[busy.task] # NULL
        /\ busy.pc \in {"enqueue", "linking", "linked"} => Here = busy.to
        /\ busy.pc = "linking" => busy.occupied = Occupied(Lists, busy.to)

(***************************************************************************)
(* The inductive invariant.  In the middle of an operation the tail and    *)
(* the count lag behind the links, or a task is on no list, so that it     *)
(* speaks of what the queues will be; a boost in a window that exposes     *)
(* them, or a linked slot used again, ends it, and damage remembers that   *)
(* for good.                                                               *)
(***************************************************************************)
MlfqInv ==
    damage = {} => /\ SchedTypes /\ Remembered
                   /\ \E c : Proper(Settled, c) /\ Agrees(c, params, busy)

\* At the start the lists are empty.
LEMMA MlfqAtStart == Init => MlfqInv
<1>. SUFFICES ASSUME Init PROVE MlfqInv
  OBVIOUS
<1>. DEFINE c == [i \in Levels |-> <<>>]
<1>1. SchedTypes /\ Remembered
  BY DEF Init, SchedTypes, Remembered, Params, Pointers
<1>2. Settled = Lists /\ Lists.q = queues /\ Lists.n = next
  BY DEF Init, Settled, Lists
<1>3. queues \in [Levels -> QueueTypes] /\ next \in [Tasks -> Pointers]
  BY DEF Init, QueueTypes, Pointers
<1>4. c \in [Levels -> Seq(Tasks)] /\ \A i \in Levels : c[i] = <<>>
  OBVIOUS
<1>5. \A t : ~Holds(<<>>, t)
  BY DEF Holds
<1>6. \A i \in Levels : Describes(queues[i], next, <<>>)
  <2>1. \A i \in Levels : queues[i].head = NULL /\ queues[i].tail = NULL /\ queues[i].task_count = 0
    BY DEF Init
  <2>2. Len(<<>>) = 0 /\ \A i \in 1..0 : FALSE
    OBVIOUS
  <2>3. QED
    BY <2>1, <2>2 DEF Describes, Linked, Once, NodeAt
<1>. HIDE DEF c
<1>7. Proper(Settled, c)
  BY <1>2, <1>3, <1>4, <1>5, <1>6 DEF Proper
<1>8. Agrees(c, params, busy)
  BY <1>4, <1>5 DEF Agrees, Init
<1>9. QED
  BY <1>1, <1>7, <1>8 DEF MlfqInv

\* Outside the exposed windows the queues are as they will be.
LEMMA SettledFacts ==
    ASSUME MlfqInv, damage = {}, ~Exposed
    PROVE  /\ SchedTypes /\ Settled = Lists
           /\ \E c : /\ Proper(Lists, c) /\ Agrees(c, params, busy)
                    /\ \A i \in Levels : List(i) = c[i]
<1>1. PICK c : Proper(Settled, c) /\ Agrees(c, params, busy)
  BY DEF MlfqInv
<1>2. Settled = Lists
  BY DEF Settled, Exposed
<1>3. \A i \in Levels : List(i) = c[i]
  BY <1>1, <1>2, ChainsFound DEF List
<1>4. QED
  BY <1>1, <1>2, <1>3 DEF MlfqInv

\* What the handlers of a task start from.
LEMMA InTaskFacts ==
    ASSUME MlfqInv, damage = {}, busy = NULL
    PROVE  /\ SchedTypes /\ Settled = Lists
           /\ \E c : /\ Proper(Lists, c) /\ Agrees(c, params, busy)
                    /\ \A i \in Levels : List(i) = c[i]
BY SettledFacts DEF Exposed

\* A step after which the queues will be the same, and so will be the parameters of the
\* tasks that are on them.
LEMMA SettledStays ==
    ASSUME MlfqInv, damage' = damage,
           damage = {} => /\ SchedTypes' /\ Remembered'
                          /\ Settled'.q = Settled.q /\ Settled'.n = Settled.n,
           damage = {} => \A t \in Tasks : /\ Off(busy', t) <=> Off(busy, t)
                                           /\ Off(busy, t) \/ params'[t] = params[t]
    PROVE  MlfqInv'
<1>. SUFFICES ASSUME damage = {}
              PROVE  /\ SchedTypes' /\ Remembered'
                     /\ \E c : Proper(Settled', c) /\ Agrees(c, params', busy')
  BY DEF MlfqInv
<1>1. PICK c : Proper(Settled, c) /\ Agrees(c, params, busy)
  BY DEF MlfqInv
<1>2. Proper(Settled', c)
  BY <1>1 DEF Proper
<1>3. Agrees(c, params', busy')
  <2>. SUFFICES ASSUME NEW t \in Tasks, NEW i \in Levels
                PROVE  Holds(c[i], t) <=>
                         ~Off(busy', t) /\ params'[t] # NULL /\ params'[t].current_queue = i
    BY DEF Agrees
  <2>1. Holds(c[i], t) <=> ~Off(busy, t) /\ params[t] # NULL /\ params[t].current_queue = i
    BY <1>1 DEF Agrees
  <2>2. (Off(busy', t) <=> Off(busy, t)) /\ (Off(busy, t) \/ params'[t] = params[t])
    OBVIOUS
  <2>3. CASE Off(busy, t)
    BY <2>1, <2>2, <2>3
  <2>4. CASE ~Off(busy, t)
    BY <2>1, <2>2, <2>4
  <2>5. QED
    BY <2>3, <2>4
<1>4. QED
  BY <1>2, <1>3

\* A step that leaves the lists and the parameters alone.
LEMMA ListsUntouched ==
    ASSUME MlfqInv, UNCHANGED listVars, damage = {} => current' \in Pointers
    PROVE  MlfqInv'
<1>1. /\ queues' = queues /\ next' = next /\ params' = params /\ busy' = busy
      /\ damage' = damage
  BY DEF listVars
<1>2. Settled' = Settled /\ Lists' = Lists
  BY <1>1 DEF Settled, Lists, Here
<1>3. damage = {} => SchedTypes' /\ Remembered'
  BY <1>1, <1>2 DEF MlfqInv, SchedTypes, Remembered, Here
<1>4. QED
  BY <1>1, <1>2, <1>3, SettledStays

\* scheduler_next_task names a task or none.
LEMMA NextIsTask ==
    ASSUME MlfqInv, damage = {}, busy = NULL, NEW st
    PROVE  scheduler_next_task(st) \in Pointers
<1>. DEFINE ready(i) == {k \in DOMAIN List(i) : st[List(i)[k]] = "TASK_READY"}
            some == {i \in Levels : ready(i) # {}}
<1>1. \A i \in Levels : List(i) \in Seq(Tasks)
  BY InTaskFacts DEF Proper
<1>2. ASSUME NEW S \in SUBSET Nat, S # {} PROVE Min(S) \in S
  <2>1. PICK i \in S : \A j \in S : i <= j
    BY <1>2, Least
  <2>2. QED
    BY <2>1 DEF Min
<1>3. CASE some = {}
  BY <1>3 DEF scheduler_next_task, scheduler_mlfq_next, Pointers
<1>4. CASE some # {}
  <2>1. some \in SUBSET Nat
    BY MlfqAssumption DEF Levels
  <2>2. Min(some) \in some
    <3>. HIDE DEF some
    <3>1. QED
      BY <1>2, <1>4, <2>1
  <2>. DEFINE level == Min(some)
  <2>3. level \in Levels /\ ready(level) # {}
    BY <2>2
  <2>. HIDE DEF level
  <2>4. ready(level) \in SUBSET Nat /\ DOMAIN List(level) = 1..Len(List(level))
    BY <1>1, <2>3
  <2>5. Min(ready(level)) \in ready(level)
    <3>. HIDE DEF ready
    <3>1. QED
      BY <1>2, <2>3, <2>4
  <2>6. Min(ready(level)) \in 1..Len(List(level))
    BY <2>4, <2>5
  <2>7. List(level)[Min(ready(level))] \in Tasks
    <3>. HIDE DEF ready
    <3>1. QED
      BY <1>1, <2>3, <2>6
  <2>8. scheduler_mlfq_next(st) = List(level)[Min(ready(level))]
    BY <1>4, Zenon DEF scheduler_mlfq_next, level
  <2>9. QED
    BY <2>7, <2>8 DEF scheduler_next_task, Pointers
<1>5. QED
  BY <1>3, <1>4

\* The types of the operation under way.
LEMMA OperationFacts ==
    ASSUME MlfqInv, damage = {}, busy # NULL
    PROVE  /\ busy \in Operations /\ busy.task \in Tasks /\ busy.to \in Levels
           /\ busy.prev \in Pointers /\ busy.occupied \in BOOLEAN /\ busy.pc \in Windows
           /\ params[busy.task] \in Params /\ Here \in Levels
<1>1. busy \in Operations /\ params \in [Tasks -> Params \cup {NULL}] /\ params[busy.task] # NULL
  BY DEF MlfqInv, SchedTypes, Remembered
<1>2. /\ busy.task \in Tasks /\ busy.to \in Levels
      /\ busy.prev \in Pointers /\ busy.occupied \in BOOLEAN /\ busy.pc \in Windows
  BY <1>1 DEF Operations, Pointers
<1>3. params[busy.task] \in Params
  BY <1>1, <1>2
<1>4. Here \in Levels
  BY <1>3 DEF Here, Params
<1>5. QED
  BY <1>1, <1>2, <1>3, <1>4

\* It goes on to another window.
LEMMA AtWindow ==
    ASSUME busy \in Operations, NEW w \in Windows
    PROVE  /\ At(w) \in Operations /\ At(w) # NULL /\ At(w).pc = w /\ At(w).task = busy.task
           /\ At(w).prev = busy.prev /\ At(w).to = busy.to /\ At(w).occupied = busy.occupied
<1>1. At(w) \in Operations
  BY DEF At, Operations
<1>2. At(w) # NULL
  BY <1>1, MlfqAssumption
<1>3. QED
  BY <1>1, <1>2 DEF At, Operations

\* scheduler_mlfq_init_task: the parameters of a task that is on no list.
LEMMA InitTaskKeeps ==
    ASSUME MlfqInv, NEW t \in Tasks, scheduler_mlfq_init_task(t)
    PROVE  MlfqInv'
<1>. DEFINE b == [task |-> t, pc |-> "enqueue", prev |-> NULL, to |-> 0,
                  occupied |-> FALSE, demotion |-> FALSE]
<1>1. /\ busy = NULL /\ params[t] = NULL /\ params' = [params EXCEPT ![t] = FirstParams]
      /\ queues' = queues /\ next' = next /\ busy' = b /\ damage' = damage /\ current' = current
  BY DEF scheduler_mlfq_init_task, InTask, taskVars
<1>. SUFFICES ASSUME damage = {}
              PROVE  /\ SchedTypes' /\ Remembered'
                     /\ \E d : Proper(Settled', d) /\ Agrees(d, params', busy')
  BY <1>1 DEF MlfqInv
<1>2. SchedTypes
  BY DEF MlfqInv
<1>3. PICK c : Proper(Lists, c) /\ Agrees(c, params, busy)
  BY <1>1, InTaskFacts
<1>4. 0 \in Levels /\ FirstParams \in Params /\ FirstParams # NULL /\ FirstParams.current_queue = 0
  <2>1. 0 \in Levels
    BY MlfqAssumption DEF Levels
  <2>2. FirstParams \in Params
    BY <2>1, MlfqAssumption DEF FirstParams, Params
  <2>3. QED
    BY <2>1, <2>2, MlfqAssumption DEF Params, FirstParams
<1>5. b \in Operations /\ b # NULL
  <2>1. b \in Operations
    BY <1>4 DEF Operations, Windows
  <2>2. QED
    BY <2>1, MlfqAssumption
<1>6. b.task = t /\ b.pc = "enqueue" /\ b.to = 0
  OBVIOUS
<1>. HIDE DEF b
<1>7. /\ params \in [Tasks -> Params \cup {NULL}] /\ params' \in [Tasks -> Params \cup {NULL}]
      /\ params'[t] = FirstParams /\ \A u \in Tasks : u # t => params'[u] = params[u]
  BY <1>1, <1>2, <1>4 DEF SchedTypes
<1>8. SchedTypes'
  BY <1>1, <1>2, <1>5, <1>7 DEF SchedTypes
<1>9. Remembered'
  BY <1>1, <1>4, <1>5, <1>6, <1>7 DEF Remembered, Here
<1>10. Settled' = Lists
  BY <1>1, <1>5, <1>6 DEF Settled, Lists
<1>11. \A u \in Tasks : (Off(busy', u) <=> u = t) /\ ~Off(busy, u)
  BY <1>1, <1>5, <1>6 DEF Off
<1>12. Agrees(c, params', busy')
  BY <1>1, <1>3, <1>7, <1>11 DEF Agrees
<1>13. QED
  BY <1>3, <1>8, <1>9, <1>10, <1>12

\* scheduler_set_policy: at most a demotion begins.
LEMMA SetPolicyKeeps ==
    ASSUME MlfqInv, scheduler_set_policy
    PROVE  MlfqInv'
<1>. DEFINE b == [task |-> current, pc |-> "search", prev |-> NULL,
                  to |-> NextQueue(params[current].current_queue),
                  occupied |-> FALSE, demotion |-> TRUE]
<1>1. /\ busy = NULL /\ queues' = queues /\ next' = next /\ params' = params
      /\ damage' = damage /\ current' = current
      /\ busy' = busy \/ (Demotes /\ busy' = b)
  BY DEF scheduler_set_policy, InTask, taskVars
<1>2. CASE busy' = busy
  <2>1. UNCHANGED listVars \/ boost_counter' # boost_counter
    BY <1>1, <1>2 DEF listVars
  <2>2. boost_counter' = boost_counter
    BY DEF scheduler_set_policy
  <2>3. QED
    BY <1>1, <2>1, <2>2, ListsUntouched DEF MlfqInv, SchedTypes
<1>3. CASE Demotes /\ busy' = b
  <2>. SUFFICES ASSUME damage = {}
                PROVE  /\ SchedTypes' /\ Remembered'
                       /\ \E d : Proper(Settled', d) /\ Agrees(d, params', busy')
    BY <1>1 DEF MlfqInv
  <2>1. SchedTypes /\ current # NULL /\ params[current] # NULL
    BY <1>3 DEF MlfqInv, Demotes, UsedUp
  <2>2. current \in Tasks
    BY <2>1 DEF SchedTypes, Pointers
  <2>3. params[current] \in Params
    BY <2>1, <2>2 DEF SchedTypes
  <2>4. NextQueue(params[current].current_queue) \in Levels
    <3>. DEFINE cq == params[current].current_queue
    <3>1. cq \in 0..(MLFQ_QUEUE_COUNT - 1) /\ MLFQ_QUEUE_COUNT \in Nat \ {0}
      BY <2>3, MlfqAssumption DEF Params, Levels
    <3>. HIDE DEF cq
    <3>2. NextQueue(cq) \in Levels
      BY <3>1 DEF NextQueue, Levels
    <3>3. QED
      BY <3>2 DEF cq
  <2>5. b \in Operations /\ b # NULL
    <3>1. b \in Operations
      BY <2>2, <2>4 DEF Operations, Windows
    <3>2. QED
      BY <3>1, MlfqAssumption
  <2>6. b.task = current /\ b.pc = "search"
    OBVIOUS
  <2>. HIDE DEF b
  <2>7. PICK c : Proper(Lists, c) /\ Agrees(c, params, busy)
    BY <1>1, InTaskFacts
  <2>8. SchedTypes' /\ Remembered'
    BY <1>1, <1>3, <2>1, <2>5, <2>6 DEF SchedTypes, Remembered
  <2>9. Settled' = Lists
    BY <1>1, <1>3, <2>5, <2>6 DEF Settled, Lists
  <2>10. \A u \in Tasks : ~Off(busy', u) /\ ~Off(busy, u)
    BY <1>1, <1>3, <2>6 DEF Off
  <2>11. Agrees(c, params', busy')
    BY <1>1, <2>7, <2>10 DEF Agrees
  <2>12. QED
    BY <2>7, <2>8, <2>9, <2>11
<1>4. QED
  BY <1>1, <1>2, <1>3

\* The search finds the task: from here on it counts as taken out.
LEMMA SearchKeeps ==
    ASSUME MlfqInv, Search
    PROVE  MlfqInv'
<1>. DEFINE t == busy.task
            i == Here
            b == [busy EXCEPT !.pc = "found", !.prev = InFront(Lists, Here, busy.task)]
<1>1. /\ busy # NULL /\ busy.pc = "search" /\ queues' = queues /\ next' = next /\ params' = params
      /\ damage' = damage /\ current' = current
      /\ busy' = IF IsOn(Lists, i, t) THEN b ELSE At("out")
  BY DEF Search, Step, taskVars
<1>. SUFFICES ASSUME damage = {}
              PROVE  /\ SchedTypes' /\ Remembered'
                     /\ \E d : Proper(Settled', d) /\ Agrees(d, params', busy')
  BY <1>1 DEF MlfqInv
<1>2. busy \in Operations /\ t \in Tasks /\ i \in Levels /\ params[t] \in Params
  BY <1>1, OperationFacts
<1>3. PICK c : Proper(Lists, c) /\ Agrees(c, params, busy) /\ \A j \in Levels : List(j) = c[j]
  BY <1>1, SettledFacts DEF Exposed
<1>4. NULL \notin Params /\ NULL \notin Operations
  BY MlfqAssumption DEF Params
<1>5. \A u \in Tasks : ~Off(busy, u)
  BY <1>1 DEF Off
<1>6. \A j \in Levels : Holds(c[j], t) <=> j = i
  BY <1>2, <1>3, <1>4, <1>5 DEF Agrees, Here
<1>7. Chain(Lists, i) = c[i] /\ c[i] \in Seq(Tasks) /\ DOMAIN c[i] = 1..Len(c[i])
  <2>1. Chain(Lists, i) = c[i] /\ c[i] \in Seq(Tasks)
    BY <1>2, <1>3 DEF List, Proper
  <2>2. QED
    BY <2>1
<1>8. IsOn(Lists, i, t) /\ InFront(Lists, i, t) \in Pointers
  <2>. HIDE DEF i, t
  <2>1. PICK k \in 1..Len(c[i]) : c[i][k] = t
    BY <1>2, <1>6 DEF Holds
  <2>2. IsOn(Lists, i, t)
    BY <1>7, <2>1 DEF IsOn
  <2>3. {j \in DOMAIN c[i] : c[i][j] = t} = {k}
    <3>1. Once(c[i])
      BY <1>2, <1>3 DEF Proper, Describes
    <3>2. QED
      BY <1>7, <2>1, <3>1 DEF Once
  <2>4. Min({k}) = k
    <3>1. k \in Nat
      BY <2>1
    <3>2. QED
      BY <3>1 DEF Min
  <2>5. InFront(Lists, i, t) = IF k = 1 THEN NULL ELSE c[i][k - 1]
    BY <1>7, <2>3, <2>4 DEF InFront
  <2>6. k # 1 => k - 1 \in 1..Len(c[i])
    BY <1>7, <2>1
  <2>7. QED
    BY <1>7, <2>2, <2>5, <2>6 DEF Pointers
<1>9. /\ busy' \in Operations /\ busy' # NULL /\ busy'.task = t /\ busy'.pc = "found"
      /\ busy'.prev = InFront(Lists, i, t)
  <2>1. busy' = b
    BY <1>1, <1>8
  <2>2. b \in Operations
    BY <1>2, <1>8 DEF Operations, Windows, Pointers
  <2>3. QED
    BY <1>2, <1>4, <2>1, <2>2 DEF Operations
<1>. HIDE DEF b
<1>10. SchedTypes' /\ Remembered'
  <2>1. SchedTypes'
    BY <1>1, <1>9 DEF MlfqInv, SchedTypes
  <2>2. Remembered'
    BY <1>1, <1>2, <1>4, <1>9 DEF Remembered
  <2>3. QED
    BY <2>1, <2>2
<1>11. Settled' = Unlink(Lists, i, t)
  <2>1. Lists' = Lists /\ Here' = i
    BY <1>1, <1>9 DEF Lists, Here
  <2>2. QED
    BY <1>9, <2>1 DEF Settled, Unlink
<1>12. PICK s \in Seq(Tasks) : /\ Proper(Unlink(Lists, i, t), [c EXCEPT ![i] = s])
                               /\ \A u \in Tasks : Holds(s, u) <=> Holds(c[i], u) /\ u # t
  <2>1. Holds(c[i], t)
    BY <1>2, <1>6
  <2>. HIDE DEF i, t
  <2>2. QED
    BY <1>2, <1>3, <2>1, UnlinkTakesOut
<1>. HIDE DEF i, t
<1>. DEFINE d == [c EXCEPT ![i] = s]
<1>13. d[i] = s /\ \A j \in Levels : j # i => d[j] = c[j]
  BY <1>2, <1>3 DEF Proper
<1>. HIDE DEF d
<1>14. \A u \in Tasks : Off(busy', u) <=> u = t
  BY <1>9 DEF Off
<1>15. Agrees(d, params', busy')
  <2>. SUFFICES ASSUME NEW u \in Tasks, NEW j \in Levels
                PROVE  Holds(d[j], u) <=>
                         ~Off(busy', u) /\ params'[u] # NULL /\ params'[u].current_queue = j
    BY DEF Agrees
  <2>1. Holds(c[j], u) <=> params[u] # NULL /\ params[u].current_queue = j
    BY <1>3, <1>5 DEF Agrees
  <2>2. Holds(d[j], u) <=> Holds(c[j], u) /\ u # t
    BY <1>2, <1>6, <1>12, <1>13
  <2>3. QED
    BY <1>1, <1>14, <2>1, <2>2
<1>16. QED
  BY <1>10, <1>11, <1>12, <1>15 DEF d

\* The two writes of the unlinking, and the end of mlfq_enqueue, only carry out what Settled
\* already counts on.
LEMMA WritesKeep ==
    ASSUME MlfqInv, UnlinkTask \/ UnlinkTail \/ FinishEnqueue
    PROVE  MlfqInv'
<1>0. busy # NULL /\ params' = params /\ damage' = damage /\ current' = current
  BY DEF UnlinkTask, UnlinkTail, FinishEnqueue, Step, taskVars
<1>. SUFFICES ASSUME damage = {}
              PROVE  /\ SchedTypes' /\ Remembered'
                     /\ Settled'.q = Settled.q /\ Settled'.n = Settled.n
                     /\ \A t \in Tasks : Off(busy', t) <=> Off(busy, t)
  BY <1>0, SettledStays
<1>1. busy \in Operations /\ params[busy.task] # NULL /\ SchedTypes
  BY <1>0, OperationFacts DEF MlfqInv, Remembered
<1>2. CASE UnlinkTask
  <2>. DEFINE l == CutOut(Lists, Here, busy.task, busy.prev)
  <2>1. busy.pc = "found" /\ busy' = At("cut") /\ queues' = l.q /\ next' = l.n
    BY <1>2 DEF UnlinkTask, Step, SetLists
  <2>2. /\ busy' \in Operations /\ busy' # NULL /\ busy'.pc = "cut" /\ busy'.task = busy.task
        /\ busy'.prev = busy.prev
    BY <1>1, <2>1, AtWindow DEF Windows
  <2>3. Lists' = l
    <3>1. l = [q |-> l.q, n |-> l.n]
      BY DEF CutOut
    <3>2. Lists' = [q |-> queues', n |-> next']
      BY DEF Lists
    <3>3. QED
      BY <2>1, <3>1, <3>2
  <2>4. Settled' = Settled
    <3>1. Settled = FixTail(l, Here, busy.task, busy.prev)
      BY <1>0, <2>1 DEF Settled
    <3>2. Here' = Here
      BY <1>0, <2>2 DEF Here
    <3>. HIDE DEF l
    <3>3. Settled' = FixTail(l, Here, busy.task, busy.prev)
      BY <2>2, <2>3, <3>2 DEF Settled
    <3>4. QED
      BY <3>1, <3>3
  <2>5. SchedTypes' /\ Remembered'
    BY <1>0, <1>1, <2>2 DEF SchedTypes, Remembered
  <2>6. QED
    BY <1>0, <2>1, <2>2, <2>4, <2>5 DEF Off
<1>3. CASE UnlinkTail
  <2>. DEFINE l == FixTail(Lists, Here, busy.task, busy.prev)
  <2>1. busy.pc = "cut" /\ busy' = At("out") /\ queues' = l.q /\ next' = l.n
    BY <1>3 DEF UnlinkTail, Step, SetLists
  <2>2. busy' \in Operations /\ busy' # NULL /\ busy'.pc = "out" /\ busy'.task = busy.task
    BY <1>1, <2>1, AtWindow DEF Windows
  <2>3. Settled = l
    BY <1>0, <2>1 DEF Settled
  <2>. HIDE DEF l
  <2>4. Settled'.q = l.q /\ Settled'.n = l.n
    BY <2>1, <2>2 DEF Settled, Lists
  <2>5. SchedTypes' /\ Remembered'
    BY <1>0, <1>1, <2>2 DEF SchedTypes, Remembered
  <2>6. QED
    BY <1>0, <2>1, <2>2, <2>3, <2>4, <2>5 DEF Off
<1>4. CASE FinishEnqueue
  <2>. DEFINE l == MoveTail(Lists, busy.to, busy.task, busy.occupied)
  <2>1. /\ busy.pc = "linked" /\ queues' = l.q /\ next' = l.n
        /\ busy' = At("return") \/ busy' = NULL
    BY <1>4 DEF FinishEnqueue, Step, SetLists
  <2>2. busy' # NULL => busy' \in Operations /\ busy'.pc = "return" /\ busy'.task = busy.task
    BY <1>1, <2>1, AtWindow DEF Windows
  <2>3. Settled = l
    BY <1>0, <2>1 DEF Settled
  <2>. HIDE DEF l
  <2>4. Settled'.q = l.q /\ Settled'.n = l.n
    BY <2>1, <2>2 DEF Settled, Lists
  <2>5. SchedTypes' /\ Remembered'
    BY <1>0, <1>1, <2>2 DEF SchedTypes, Remembered
  <2>6. QED
    BY <1>0, <2>1, <2>2, <2>3, <2>4, <2>5 DEF Off
<1>5. QED
  BY <1>2, <1>3, <1>4

\* The steps between the writes.
LEMMA QuietKeep ==
    ASSUME MlfqInv, NewParams \/ TestHead \/ FinishSetPolicy
    PROVE  MlfqInv'
<1>0. /\ busy # NULL /\ queues' = queues /\ next' = next /\ damage' = damage /\ current' = current
      /\ busy.pc \in {"out", "enqueue", "return"}
  BY DEF NewParams, TestHead, FinishSetPolicy, Step, taskVars
<1>. SUFFICES ASSUME damage = {}
              PROVE  /\ SchedTypes' /\ Remembered' /\ Settled' = Settled
                     /\ \A t \in Tasks : /\ Off(busy', t) <=> Off(busy, t)
                                         /\ Off(busy, t) \/ params'[t] = params[t]
  BY <1>0, SettledStays
<1>1. /\ busy \in Operations /\ busy.task \in Tasks /\ busy.to \in Levels
      /\ params[busy.task] \in Params /\ SchedTypes
  BY <1>0, OperationFacts DEF MlfqInv
<1>2. Settled = Lists /\ Lists' = Lists
  BY <1>0 DEF Settled, Lists
<1>3. NULL \notin Params /\ NULL \notin Operations
  BY MlfqAssumption DEF Params
<1>4. CASE NewParams
  <2>. DEFINE new == [current_queue |-> busy.to, time_slice |-> time_quantum(busy.to)]
  <2>1. busy.pc = "out" /\ busy' = At("enqueue") /\ params' = [params EXCEPT ![busy.task] = new]
    BY <1>4 DEF NewParams, Step
  <2>2. /\ busy' \in Operations /\ busy' # NULL /\ busy'.pc = "enqueue" /\ busy'.task = busy.task
        /\ busy'.to = busy.to
    BY <1>1, <2>1, AtWindow DEF Windows
  <2>3. new \in Params /\ new.current_queue = busy.to
    BY <1>1, MlfqAssumption DEF Params
  <2>. HIDE DEF new
  <2>4. /\ params' \in [Tasks -> Params \cup {NULL}] /\ params'[busy.task] = new
        /\ \A t \in Tasks : t # busy.task => params'[t] = params[t]
    BY <1>1, <2>1, <2>3 DEF SchedTypes
  <2>5. SchedTypes'
    BY <1>0, <1>1, <2>2, <2>4 DEF SchedTypes
  <2>6. Remembered'
    BY <1>1, <1>3, <2>2, <2>3, <2>4 DEF Remembered, Here
  <2>7. Settled' = Settled
    BY <1>2, <2>2 DEF Settled
  <2>8. \A t \in Tasks : /\ Off(busy', t) <=> Off(busy, t)
                         /\ Off(busy, t) \/ params'[t] = params[t]
    BY <1>0, <2>1, <2>2, <2>4 DEF Off
  <2>9. QED
    BY <2>5, <2>6, <2>7, <2>8
<1>5. CASE TestHead
  <2>. DEFINE b == [busy EXCEPT !.pc = "linking", !.occupied = Occupied(Lists, busy.to)]
  <2>1. busy.pc = "enqueue" /\ busy' = b /\ params' = params
    BY <1>5 DEF TestHead, Step
  <2>2. Occupied(Lists, busy.to) \in BOOLEAN
    BY DEF Occupied
  <2>3. b \in Operations
    BY <1>1, <2>2 DEF Operations, Windows
  <2>4. /\ b # NULL /\ b.pc = "linking" /\ b.task = busy.task /\ b.to = busy.to
        /\ b.occupied = Occupied(Lists, busy.to)
    BY <1>1, <1>3, <2>3 DEF Operations
  <2>. HIDE DEF b
  <2>5. SchedTypes'
    BY <1>0, <1>1, <2>1, <2>3 DEF SchedTypes
  <2>6. Here = busy.to
    BY <1>0, <2>1 DEF MlfqInv, Remembered
  <2>7. Remembered'
    BY <1>1, <1>2, <1>3, <2>1, <2>4, <2>6 DEF Remembered, Here
  <2>8. Settled' = Settled
    BY <1>2, <2>1, <2>4 DEF Settled
  <2>9. \A t \in Tasks : Off(busy', t) <=> Off(busy, t)
    BY <1>0, <2>1, <2>4 DEF Off
  <2>10. QED
    BY <2>1, <2>5, <2>7, <2>8, <2>9
<1>6. CASE FinishSetPolicy
  <2>1. busy.pc = "return" /\ busy' = NULL /\ params' = params
    BY <1>6 DEF FinishSetPolicy, Step
  <2>2. SchedTypes' /\ Remembered'
    BY <1>0, <1>1, <2>1 DEF SchedTypes, Remembered
  <2>3. Settled' = Settled
    BY <1>2, <2>1 DEF Settled
  <2>4. \A t \in Tasks : Off(busy', t) <=> Off(busy, t)
    BY <2>1 DEF Off
  <2>5. QED
    BY <2>1, <2>2, <2>3, <2>4
<1>7. QED
  BY <1>4, <1>5, <1>6

\* The task is linked in: from here on it counts as the last of its queue.
LEMMA LinkKeeps ==
    ASSUME MlfqInv, LinkTask
    PROVE  MlfqInv'
<1>. DEFINE t == busy.task
            nq == busy.to
            l == LinkIn(Lists, nq, t, busy.occupied)
<1>1. /\ busy # NULL /\ busy.pc = "linking" /\ busy' = At("linked") /\ params' = params
      /\ damage' = damage /\ current' = current /\ queues' = l.q /\ next' = l.n
  BY DEF LinkTask, Step, SetLists, taskVars
<1>. SUFFICES ASSUME damage = {}
              PROVE  /\ SchedTypes' /\ Remembered'
                     /\ \E d : Proper(Settled', d) /\ Agrees(d, params', busy')
  BY <1>1 DEF MlfqInv
<1>2. busy \in Operations /\ t \in Tasks /\ nq \in Levels /\ params[t] \in Params
  BY <1>1, OperationFacts
<1>3. params[t].current_queue = nq /\ busy.occupied = Occupied(Lists, nq) /\ SchedTypes
  BY <1>1 DEF MlfqInv, Remembered, Here
<1>4. /\ busy' \in Operations /\ busy' # NULL /\ busy'.pc = "linked" /\ busy'.task = t
      /\ busy'.to = nq /\ busy'.occupied = busy.occupied
  BY <1>1, <1>2, AtWindow DEF Windows
<1>5. params[t] # NULL
  BY <1>2, MlfqAssumption DEF Params
<1>6. SchedTypes' /\ Remembered'
  BY <1>1, <1>3, <1>4, <1>5 DEF SchedTypes, Remembered, Here
<1>7. PICK c : Proper(Lists, c) /\ Agrees(c, params, busy)
  BY <1>1 DEF MlfqInv, Settled
<1>8. Settled' = mlfq_enqueue(Lists, nq, t)
  <2>1. Lists' = l
    <3>1. l = [q |-> l.q, n |-> l.n]
      BY DEF LinkIn
    <3>2. Lists' = [q |-> queues', n |-> next']
      BY DEF Lists
    <3>3. QED
      BY <1>1, <3>1, <3>2
  <2>. HIDE DEF l
  <2>2. Settled' = MoveTail(l, nq, t, busy.occupied)
    BY <1>4, <2>1 DEF Settled
  <2>3. QED
    BY <1>3, <2>2 DEF mlfq_enqueue, l
<1>. HIDE DEF l
<1>9. \A u \in Tasks : (Off(busy, u) <=> u = t) /\ ~Off(busy', u)
  BY <1>1, <1>4 DEF Off
<1>. HIDE DEF t, nq
<1>10. \A j \in Levels : ~Holds(c[j], t)
  BY <1>2, <1>7, <1>9 DEF Agrees
<1>. DEFINE d == [c EXCEPT ![nq] = Append(c[nq], t)]
<1>11. Proper(Settled', d)
  BY <1>2, <1>7, <1>8, <1>10, EnqueueAppends
<1>12. /\ d[nq] = Append(c[nq], t) /\ \A i \in Levels : i # nq => d[i] = c[i]
       /\ c[nq] \in Seq(Tasks)
  BY <1>2, <1>7 DEF Proper
<1>. HIDE DEF d
<1>13. \A u \in Tasks : Holds(d[nq], u) <=> Holds(c[nq], u) \/ u = t
  BY <1>2, <1>12, AppendHolds
<1>14. Agrees(d, params', busy')
  <2>. SUFFICES ASSUME NEW u \in Tasks, NEW i \in Levels
                PROVE  Holds(d[i], u) <=>
                         ~Off(busy', u) /\ params'[u] # NULL /\ params'[u].current_queue = i
    BY DEF Agrees
  <2>1. Holds(c[i], u) <=> ~Off(busy, u) /\ params[u] # NULL /\ params[u].current_queue = i
    BY <1>7 DEF Agrees
  <2>2. CASE u = t
    BY <1>1, <1>2, <1>3, <1>5, <1>9, <1>10, <1>12, <1>13, <2>2
  <2>3. CASE u # t
    BY <1>1, <1>9, <1>12, <1>13, <2>1, <2>3
  <2>4. QED
    BY <2>2, <2>3
<1>15. QED
  BY <1>6, <1>11, <1>14

\* The timer interrupt: the slice of the running task, and now and then the boost.
LEMMA TickKeeps ==
    ASSUME MlfqInv, scheduler_tick
    PROVE  MlfqInv'
<1>. DEFINE used == [params EXCEPT ![current].time_slice = IF @ > 0 THEN @ - 1 ELSE 0]
<1>1. /\ current # NULL /\ params[current] # NULL /\ busy' = busy /\ current' = current
      /\ \/ /\ params' = [t \in Tasks |-> IF t \in Below THEN FirstParams ELSE used[t]]
            /\ queues' = Boost.q /\ next' = Boost.n
            /\ damage' = IF Exposed THEN damage \cup {"race"} ELSE damage
         \/ /\ params' = used /\ queues' = queues /\ next' = next /\ damage' = damage
  BY Zenon DEF scheduler_tick, scheduler_mlfq_tick, SetLists, taskVars
<1>. SUFFICES ASSUME damage = {}, damage' = {}
              PROVE  /\ SchedTypes' /\ Remembered'
                     /\ \E d : Proper(Settled', d) /\ Agrees(d, params', busy')
  <2>1. damage' = {} => damage = {}
    BY <1>1
  <2>2. QED
    BY <2>1 DEF MlfqInv
<1>2. SchedTypes /\ Remembered
  BY DEF MlfqInv
<1>3. params \in [Tasks -> Params \cup {NULL}] /\ current \in Tasks /\ params[current] \in Params
  BY <1>1, <1>2 DEF SchedTypes, Pointers
<1>4. /\ used \in [Tasks -> Params \cup {NULL}]
      /\ \A u \in Tasks : u # current => used[u] = params[u]
      /\ used[current] \in Params /\ used[current].current_queue = params[current].current_queue
  <2>. DEFINE ts == params[current].time_slice
              one == [params[current] EXCEPT !.time_slice = IF ts > 0 THEN ts - 1 ELSE 0]
  <2>1. params[current] = [current_queue |-> params[current].current_queue, time_slice |-> ts]
        /\ params[current].current_queue \in Levels /\ ts \in Nat
    BY <1>3 DEF Params
  <2>2. (IF ts > 0 THEN ts - 1 ELSE 0) \in Nat
    <3>. HIDE DEF ts
    <3>1. QED
      BY <2>1
  <2>3. one \in Params /\ one.current_queue = params[current].current_queue
    <3>. HIDE DEF ts
    <3>1. QED
      BY <2>1, <2>2 DEF Params
  <2>4. used = [params EXCEPT ![current] = one]
    BY <1>3
  <2>. HIDE DEF one, used
  <2>5. QED
    BY <1>3, <2>3, <2>4
<1>. HIDE DEF used
<1>5. \A u \in Tasks : /\ used[u] # NULL <=> params[u] # NULL
                       /\ params[u] # NULL => used[u].current_queue = params[u].current_queue
  <2>1. NULL \notin Params
    BY MlfqAssumption DEF Params
  <2>2. QED
    BY <1>1, <1>4, <2>1
<1>0. ASSUME (queues' = queues /\ next' = next) \/ ~Exposed,
             busy # NULL => /\ params'[busy.task] # NULL
                            /\ busy.pc \in {"enqueue", "linking", "linked"} => Here' = Here
      PROVE  Remembered'
  <2>1. (queues' = queues /\ next' = next) => Lists' = Lists
    BY DEF Lists
  <2>2. QED
    BY <1>0, <1>1, <1>2, <2>1 DEF Remembered, Exposed
<1>6. CASE params' = used /\ queues' = queues /\ next' = next
  <2>1. PICK c : Proper(Settled, c) /\ Agrees(c, params, busy)
    BY DEF MlfqInv
  <2>2. busy # NULL => busy.task \in Tasks /\ params[busy.task] # NULL
    BY <1>2, OperationFacts DEF Remembered
  <2>3. busy # NULL => Here' = Here
    BY <1>1, <1>5, <1>6, <2>2 DEF Here
  <2>4. Settled' = Settled
    <3>1. Lists' = Lists
      BY <1>6 DEF Lists
    <3>2. QED
      BY <1>1, <2>3, <3>1 DEF Settled
  <2>5. Agrees(c, params', busy')
    BY <1>1, <1>5, <1>6, <2>1 DEF Agrees
  <2>6. SchedTypes'
    BY <1>1, <1>2, <1>4, <1>6 DEF SchedTypes
  <2>7. Remembered'
    BY <1>0, <1>5, <1>6, <2>2, <2>3
  <2>8. QED
    BY <2>1, <2>4, <2>5, <2>6, <2>7
<1>7. CASE /\ params' = [t \in Tasks |-> IF t \in Below THEN FirstParams ELSE used[t]]
           /\ queues' = Boost.q /\ next' = Boost.n
           /\ damage' = IF Exposed THEN damage \cup {"race"} ELSE damage
  <2>1. ~Exposed
    BY <1>7
  <2>2. PICK c : Proper(Lists, c) /\ Agrees(c, params, busy) /\ \A i \in Levels : List(i) = c[i]
    BY <2>1, SettledFacts
  <2>3. PICK d : /\ Proper(Boost, d)
                 /\ \A i \in Levels : i # 0 => d[i] = <<>>
                 /\ \A u \in Tasks : Holds(d[0], u) <=> \E i \in Levels : Holds(c[i], u)
    BY <2>2, BoostLifts
  <2>4. \A u \in Tasks : u \in Below <=> \E i \in Levels : i # 0 /\ Holds(c[i], u)
    <3>1. \A i : i \in 1..(MLFQ_QUEUE_COUNT - 1) <=> i \in Levels /\ i # 0
      BY MlfqAssumption DEF Levels
    <3>2. \A i \in Levels : DOMAIN List(i) = 1..Len(List(i))
      BY <2>2 DEF Proper
    <3>3. \A i \in Levels : \A u : u \in ToSet(List(i)) <=> Holds(c[i], u)
      BY <2>2, <3>2 DEF ToSet, Holds
    <3>4. QED
      BY <3>1, <3>3 DEF Below
  <2>5. 0 \in Levels /\ FirstParams \in Params /\ FirstParams # NULL /\ FirstParams.current_queue = 0
    <3>1. 0 \in Levels
      BY MlfqAssumption DEF Levels
    <3>2. FirstParams \in Params
      BY <3>1, MlfqAssumption DEF FirstParams, Params
    <3>3. QED
      BY <3>1, <3>2, MlfqAssumption DEF Params, FirstParams
  <2>6. /\ params' \in [Tasks -> Params \cup {NULL}]
        /\ \A u \in Tasks : params'[u] = IF u \in Below THEN FirstParams ELSE used[u]
    BY <1>4, <1>7, <2>5
  <2>7. Agrees(d, params', busy')
    <3>. SUFFICES ASSUME NEW u \in Tasks, NEW i \in Levels
                  PROVE  Holds(d[i], u) <=>
                           ~Off(busy', u) /\ params'[u] # NULL /\ params'[u].current_queue = i
      BY DEF Agrees
    <3>0. ~Holds(<<>>, u)
      BY DEF Holds
    <3>1. \A j \in Levels : Holds(c[j], u) <=>
                                ~Off(busy, u) /\ params[u] # NULL /\ params[u].current_queue = j
      BY <2>2 DEF Agrees
    <3>2. CASE u \in Below
      <4>1. ~Off(busy', u)
        BY <1>1, <2>4, <3>1, <3>2
      <4>2. QED
        BY <2>3, <2>4, <2>5, <2>6, <3>0, <3>2, <4>1
    <3>3. CASE u \notin Below
      <4>1. \A j \in Levels : Holds(c[j], u) => j = 0
        BY <2>4, <3>3
      <4>2. Holds(d[i], u) <=> i = 0 /\ Holds(c[0], u)
        BY <2>3, <2>5, <3>0, <4>1
      <4>3. params'[u] = used[u]
        BY <2>6, <3>3
      <4>4. params[u] # NULL => params[u].current_queue \in Levels
        BY <1>3 DEF Params
      <4>5. QED
        BY <1>1, <1>5, <2>5, <3>1, <4>1, <4>2, <4>3, <4>4
    <3>4. QED
      BY <3>2, <3>3
  <2>8. Settled'.q = Boost.q /\ Settled'.n = Boost.n
    BY <1>1, <1>7, <2>1 DEF Settled, Exposed, Lists
  <2>9. Proper(Settled', d)
    BY <2>3, <2>8 DEF Proper
  <2>10. SchedTypes'
    BY <1>1, <1>2, <2>6 DEF SchedTypes
  <2>11. Remembered'
    <3>1. busy # NULL => busy.task \in Tasks /\ params[busy.task] # NULL
      BY <1>2, OperationFacts DEF Remembered
    <3>2. busy # NULL => params'[busy.task] # NULL
      BY <1>5, <2>5, <2>6, <3>1
    <3>3. ASSUME busy # NULL, busy.pc \in {"enqueue", "linking", "linked"} PROVE Here' = Here
      <4>1. busy.pc = "enqueue"
        BY <2>1, <3>3 DEF Exposed
      <4>2. Off(busy, busy.task)
        BY <3>3, <4>1 DEF Off
      <4>3. busy.task \notin Below
        BY <2>2, <2>4, <3>1, <3>3, <4>2 DEF Agrees
      <4>4. QED
        BY <1>1, <1>5, <2>6, <3>1, <3>3, <4>3 DEF Here
    <3>4. QED
      BY <1>0, <2>1, <3>2, <3>3
  <2>12. QED
    BY <2>7, <2>9, <2>10, <2>11
<1>8. QED
  BY <1>1, <1>6, <1>7

\* task_create clears a slot that is on no list, or leaves damage behind.
LEMMA CreateKeeps ==
    ASSUME MlfqInv, NEW t \in Tasks, task_create(t)
    PROVE  MlfqInv'
<1>1. /\ busy = NULL /\ busy' = busy /\ queues' = queues /\ current' = current
      /\ next' = [next EXCEPT ![t] = NULL] /\ params' = [params EXCEPT ![t] = NULL]
      /\ damage' = IF \E i \in Levels : t \in ToSet(List(i)) THEN damage \cup {"reuse"}
                   ELSE damage
  BY DEF task_create, InTask
<1>. SUFFICES ASSUME damage = {}, damage' = {}
              PROVE  /\ SchedTypes' /\ Remembered'
                     /\ \E d : Proper(Settled', d) /\ Agrees(d, params', busy')
  <2>1. damage' = {} => damage = {}
    BY <1>1
  <2>2. QED
    BY <2>1 DEF MlfqInv
<1>2. SchedTypes
  BY DEF MlfqInv
<1>3. PICK c : Proper(Lists, c) /\ Agrees(c, params, busy) /\ \A i \in Levels : List(i) = c[i]
  BY <1>1, InTaskFacts
<1>4. \A i \in Levels : ~Holds(c[i], t)
  <2>1. \A i \in Levels : t \notin ToSet(List(i))
    BY <1>1
  <2>2. \A i \in Levels : DOMAIN List(i) = 1..Len(List(i))
    BY <1>3 DEF Proper
  <2>3. QED
    BY <1>3, <2>1, <2>2 DEF ToSet, Holds
<1>5. /\ queues \in [Levels -> QueueTypes] /\ next \in [Tasks -> Pointers]
      /\ c \in [Levels -> Seq(Tasks)] /\ \A i \in Levels : Describes(queues[i], next, c[i])
      /\ \A i, j \in Levels : \A u \in Tasks : Holds(c[i], u) /\ Holds(c[j], u) => i = j
  BY <1>3 DEF Proper, Lists
<1>6. Settled'.q = queues /\ Settled'.n = next'
  BY <1>1 DEF Settled, Lists
<1>7. next' \in [Tasks -> Pointers] /\ \A u \in Tasks : u # t => next'[u] = next[u]
  BY <1>1, <1>5 DEF Pointers
<1>8. ASSUME NEW i \in Levels PROVE Describes(queues[i], next', c[i])
  <2>1. c[i] \in Seq(Tasks) /\ Describes(queues[i], next, c[i])
    BY <1>5
  <2>2. \A k \in 1..Len(c[i]) : c[i][k] \in Tasks /\ c[i][k] # t
    BY <1>4, <2>1 DEF Holds
  <2>3. \A k \in 1..Len(c[i]) : next'[c[i][k]] = next[c[i][k]]
    BY <1>7, <2>2
  <2>4. Linked(NULL, next', queues[i].head, c[i])
    BY <2>1, <2>3, OthersStay DEF Describes
  <2>5. QED
    BY <2>1, <2>4 DEF Describes
<1>9. Proper(Settled', c)
  BY <1>5, <1>6, <1>7, <1>8 DEF Proper
<1>10. /\ params' \in [Tasks -> Params \cup {NULL}] /\ params'[t] = NULL
       /\ \A u \in Tasks : u # t => params'[u] = params[u]
  BY <1>1, <1>2 DEF SchedTypes
<1>11. Agrees(c, params', busy')
  BY <1>1, <1>3, <1>4, <1>10 DEF Agrees, Off
<1>12. SchedTypes' /\ Remembered'
  BY <1>1, <1>2, <1>10 DEF SchedTypes, Remembered
<1>13. QED
  BY <1>9, <1>11, <1>12

\* The other operations leave the lists alone and at most choose another task to run.
LEMMA OthersKeep ==
    ASSUME MlfqInv,
           \/ \E t \in Tasks : Wake(t) \/ task_suspend(t) \/ task_resume(t) \/ task_delete(t)
           \/ scheduler_start \/ scheduler_stop \/ task_yield \/ task_sleep \/ BlockOnObject
    PROVE  MlfqInv'
<1>1. /\ UNCHANGED listVars /\ busy = NULL
      /\ current' = current \/ \E st : current' = scheduler_next_task(st)
  <2>1. ASSUME NEW t \in Tasks, Wake(t) \/ task_resume(t)
        PROVE  UNCHANGED listVars /\ busy = NULL /\ current' = current
    BY <2>1 DEF Wake, task_resume, InTask
  <2>2. ASSUME NEW t \in Tasks, task_suspend(t) \/ task_delete(t)
        PROVE  /\ UNCHANGED listVars /\ busy = NULL
               /\ current' = current \/ \E st : current' = scheduler_next_task(st)
    BY <2>2 DEF task_suspend, task_delete, InTask, task_schedule
  <2>3. CASE scheduler_start \/ scheduler_stop \/ task_yield
    BY <2>3 DEF scheduler_start, scheduler_stop, task_yield, InTask, task_schedule, taskVars
  <2>4. CASE task_sleep \/ BlockOnObject
    BY <2>4 DEF task_sleep, BlockOnObject, InTask, task_schedule
  <2>5. QED
    BY <2>1, <2>2, <2>3, <2>4
<1>2. damage = {} => current' \in Pointers
  <2>. SUFFICES ASSUME damage = {} PROVE current' \in Pointers
    OBVIOUS
  <2>1. current \in Pointers
    BY DEF MlfqInv, SchedTypes
  <2>2. \A st : scheduler_next_task(st) \in Pointers
    BY <1>1, NextIsTask
  <2>3. QED
    BY <1>1, <2>1, <2>2
<1>3. QED
  BY <1>1, <1>2, ListsUntouched

(***************************************************************************)
(* Every operation of the scheduler and of the life of a task keeps the    *)
(* invariant, for any number of tasks, queues and ticks between boosts.    *)
(***************************************************************************)
THEOREM MlfqInvariance == LifeSpec => []MlfqInv
<1>1. LifeInit => MlfqInv
  BY MlfqAtStart DEF LifeInit
<1>2. MlfqInv /\ [LifeNext]_lifeVars => MlfqInv'
  <2>. SUFFICES ASSUME MlfqInv, [LifeNext]_lifeVars PROVE MlfqInv'
    OBVIOUS
  <2>1. CASE UNCHANGED lifeVars
    <3>1. UNCHANGED listVars /\ current' = current
      BY <2>1 DEF lifeVars, vars, listVars, taskVars
    <3>2. QED
      BY <3>1, ListsUntouched DEF MlfqInv, SchedTypes
  <2>2. ASSUME NEW t \in Tasks, task_create(t) PROVE MlfqInv'
    BY <2>2, CreateKeeps
  <2>3. CASE \/ \E t \in Tasks : Wake(t) \/ task_suspend(t) \/ task_resume(t) \/ task_delete(t)
             \/ scheduler_start \/ scheduler_stop \/ task_yield \/ task_sleep \/ BlockOnObject
    BY <2>3, OthersKeep
  <2>4. ASSUME NEW t \in Tasks, scheduler_mlfq_init_task(t) PROVE MlfqInv'
    BY <2>4, InitTaskKeeps
  <2>5. CASE Continue
    BY <2>5, SearchKeeps, WritesKeep, QuietKeep, LinkKeeps DEF Continue
  <2>6. CASE scheduler_set_policy
    BY <2>6, SetPolicyKeeps
  <2>7. CASE scheduler_tick
    BY <2>7, TickKeeps
  <2>8. QED
    BY <2>1, <2>2, <2>3, <2>4, <2>5, <2>6, <2>7 DEF LifeNext, Next
<1>3. QED
  BY <1>1, <1>2, PTL DEF LifeSpec

(***************************************************************************)
(* No boost, demotion or enqueue loses or duplicates a task: every         *)
(* initialised task is on exactly one queue, once, the one its parameters  *)
(* name, until a boost falls into an exposed window of a demotion or of an  *)
(* enqueue, or a linked slot is used again.                                *)
(***************************************************************************)
THEOREM TasksStayQueued == LifeSpec => []TasksOnTheirQueue
<1>1. MlfqInv => TasksOnTheirQueue
  <2>. SUFFICES ASSUME MlfqInv, NEW t \in Tasks, damage = {}, params[t] # NULL, busy = NULL,
                       NEW i \in Levels
                PROVE  Cardinality({k \in DOMAIN List(i) : List(i)[k] = t}) =
                           IF params[t].current_queue = i THEN 1 ELSE 0
    BY DEF TasksOnTheirQueue
  <2>1. PICK c : Proper(Lists, c) /\ Agrees(c, params, busy) /\ \A j \in Levels : List(j) = c[j]
    BY InTaskFacts
  <2>. DEFINE s == List(i)
              K == {k \in DOMAIN s : s[k] = t}
  <2>2. s = c[i] /\ s \in Seq(Tasks) /\ Once(s)
    BY <2>1 DEF Proper, Describes
  <2>3. DOMAIN s = 1..Len(s)
    BY <2>2
  <2>4. Holds(s, t) <=> params[t].current_queue = i
    BY <2>1, <2>2 DEF Agrees, Off
  <2>. HIDE DEF s
  <2>5. CASE Holds(s, t)
    <3>1. PICK k \in 1..Len(s) : s[k] = t
      BY <2>5 DEF Holds
    <3>2. K = {k}
      BY <2>2, <2>3, <3>1 DEF Once
    <3>3. Cardinality(K) = 1
      BY <3>2, FS_Singleton
    <3>4. QED
      BY <2>4, <2>5, <3>3 DEF s
  <2>6. CASE ~Holds(s, t)
    <3>1. K = {}
      BY <2>3, <2>6 DEF Holds
    <3>2. Cardinality(K) = 0
      BY <3>1, FS_EmptySet
    <3>3. QED
      BY <2>4, <2>6, <3>2 DEF s
  <2>7. QED
    BY <2>5, <2>6
<1>2. QED
  BY <1>1, MlfqInvariance, PTL

(***************************************************************************)
(* head, tail, links and task_count of every queue agree, so that the next *)
(* mlfq_enqueue appends behind the last task and cuts nothing off, also in *)
(* the middle of a demotion, while the task is on no list.                 *)
(***************************************************************************)
THEOREM QueuesStayWellFormed == LifeSpec => []QueuesWellFormed
<1>1. MlfqInv => QueuesWellFormed
  <2>. SUFFICES ASSUME MlfqInv, damage = {}, ~Exposed, NEW i \in Levels
                PROVE  /\ queues[i].task_count = Len(List(i))
                       /\ queues[i].tail = IF List(i) = <<>> THEN NULL ELSE Last(List(i))
    BY DEF QueuesWellFormed
  <2>1. PICK c : Proper(Lists, c) /\ \A j \in Levels : List(j) = c[j]
    BY SettledFacts
  <2>2. Describes(queues[i], next, c[i])
    BY <2>1 DEF Proper, Lists
  <2>3. QED
    BY <2>1, <2>2 DEF Describes, Last
<1>2. QED
  BY <1>1, MlfqInvariance, PTL
=============================================================================
