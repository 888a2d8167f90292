--------------------------- MODULE ServiceProofs ----------------------------
(***************************************************************************)
(* Proofs about services above the kernel that share no state with one     *)
(* another: the key-value database (its transactions, its data file and its*)
(* index), the WebSocket server, the MQTT client and the port layer of lwIP.*)
(***************************************************************************)
EXTENDS KvTxn, KvStore, WsServer, Mqtt, LwipPort,
        FiniteSetTheorems, SequenceTheorems, WellFoundedInduction, TLAPS

\* A set of numbers has a least one, and Min finds it.
LEMMA Least ==
    ASSUME NEW H \in SUBSET Nat, H # {}
    PROVE  /\ \E i \in H : \A j \in H : i <= j
           /\ Min(H) \in H
<1>1. PICK i \in H : \A j \in H : <<j, i>> \notin OpToRel(<, Nat)
  BY NatLessThanWellFounded, WFMin
<1>2. \A j \in H : ~(j < i)
  BY <1>1 DEF OpToRel
<1>3. \E k \in H : \A j \in H : k <= j
  BY <1>2
<1>4. Min(H) \in H
  BY <1>3 DEF Min
<1>5. QED
  BY <1>3, <1>4

-----------------------------------------------------------------------------
(* Transactions of the key-value database. *)

Data == Values \cup {NOTFOUND}

\* A set of positions in a sequence has a greatest one.
LEMMA Greatest ==
    ASSUME NEW n \in Nat, NEW H \in SUBSET (1..n), H # {}
    PROVE  \E i \in H : \A j \in H : i >= j
<1>1. {n - i : i \in H} \in SUBSET Nat /\ {n - i : i \in H} # {}
  <2>1. \A i \in H : n - i \in Nat
    OBVIOUS
  <2>2. QED
    BY <2>1
<1>2. PICK d \in {n - i : i \in H} : \A e \in {n - i : i \in H} : d <= e
  BY <1>1, Least
<1>3. PICK i \in H : d = n - i
  BY <1>2
<1>4. \A j \in H : n - i <= n - j
  BY <1>2, <1>3
<1>5. QED
  BY <1>4

\* Replay gives each key the value of the last operation on it.
LEMMA ReplayLast ==
    ASSUME NEW d, NEW s \in Seq(Op), NEW k \in Keys,
           NEW i \in 1..Len(s), s[i].key = k, \A j \in 1..Len(s) : s[j].key = k => j <= i
    PROVE  Replay(d, s)[k] = s[i].value
<1> DEFINE hits == {j \in DOMAIN s : s[j].key = k}
           latest == CHOOSE a \in hits : \A j \in hits : a >= j
<1>1. DOMAIN s = 1..Len(s) /\ Len(s) \in Nat
  OBVIOUS
<1>2. i \in hits /\ \A j \in hits : i >= j
  BY <1>1
<1>3. latest \in hits /\ \A j \in hits : latest >= j
  BY <1>2
<1>4. latest = i
  BY <1>1, <1>2, <1>3
<1>5. Replay(d, s)[k] = IF hits = {} THEN d[k] ELSE s[latest].value
  BY DEF Replay
<1> HIDE DEF hits, latest
<1>6. QED
  BY <1>2, <1>4, <1>5

\* A key without an operation keeps its value.
LEMMA ReplayNone ==
    ASSUME NEW d, NEW s \in Seq(Op), NEW k \in Keys, \A j \in 1..Len(s) : s[j].key # k
    PROVE  Replay(d, s)[k] = d[k]
<1>1. {j \in DOMAIN s : s[j].key = k} = {}
  OBVIOUS
<1>2. QED
  BY <1>1 DEF Replay

\* Every key has a last operation, or none.
LEMMA ReplayCases ==
    ASSUME NEW s \in Seq(Op), NEW k \in Keys
    PROVE  \/ \A j \in 1..Len(s) : s[j].key # k
           \/ \E i \in 1..Len(s) : s[i].key = k /\ \A j \in 1..Len(s) : s[j].key = k => j <= i
<1> DEFINE hits == {j \in 1..Len(s) : s[j].key = k}
<1>1. CASE hits = {}
  BY <1>1
<1>2. CASE hits # {}
  <2>1. Len(s) \in Nat /\ hits \in SUBSET (1..Len(s))
    OBVIOUS
  <2>2. PICK i \in hits : \A j \in hits : i >= j
    BY <1>2, <2>1, Greatest
  <2>3. QED
    BY <2>1, <2>2
<1>3. QED
  BY <1>1, <1>2

\* One operation more is one write more (kvdb_put, kvdb_delete).
LEMMA ReplayAppend ==
    ASSUME NEW d, NEW s \in Seq(Op), NEW o \in Op
    PROVE  Replay(d, Append(s, o)) = [Replay(d, s) EXCEPT ![o.key] = o.value]
<1> DEFINE t == Append(s, o)
           n == Len(s)
<1>1. /\ t \in Seq(Op) /\ Len(t) = n + 1 /\ n \in Nat /\ t[n + 1] = o
      /\ \A i \in 1..n : t[i] = s[i]
  OBVIOUS
<1>2. o.key \in Keys
  BY DEF Op
<1> HIDE DEF t
<1>3. ASSUME NEW k \in Keys, k # o.key PROVE Replay(d, t)[k] = Replay(d, s)[k]
  <2>1. CASE \A j \in 1..n : s[j].key # k
    <3>1. \A j \in 1..Len(t) : t[j].key # k
      BY <1>1, <1>3, <2>1
    <3>2. QED
      BY <1>1, <2>1, <3>1, ReplayNone
  <2>2. CASE \E i \in 1..n : s[i].key = k /\ \A j \in 1..n : s[j].key = k => j <= i
    <3>1. PICK i \in 1..n : s[i].key = k /\ \A j \in 1..n : s[j].key = k => j <= i
      BY <2>2
    <3>2. /\ i \in 1..Len(t) /\ t[i].key = k /\ t[i] = s[i]
          /\ \A j \in 1..Len(t) : t[j].key = k => j <= i
      BY <1>1, <1>3, <3>1
    <3>3. Replay(d, s)[k] = s[i].value
      BY <3>1, ReplayLast
    <3>4. Replay(d, t)[k] = t[i].value
      BY <1>1, <3>2, ReplayLast
    <3>5. QED
      BY <3>2, <3>3, <3>4
  <2>3. QED
    BY <2>1, <2>2, ReplayCases
<1>4. Replay(d, t)[o.key] = o.value
  <2>1. /\ n + 1 \in 1..Len(t) /\ t[n + 1].key = o.key
        /\ \A j \in 1..Len(t) : t[j].key = o.key => j <= n + 1
    BY <1>1
  <2>2. Replay(d, t)[o.key] = t[n + 1].value
    BY <1>1, <1>2, <2>1, ReplayLast
  <2>3. QED
    BY <1>1, <2>2
<1>5. /\ Replay(d, t) = [k \in Keys |-> Replay(d, t)[k]]
      /\ Replay(d, s) = [k \in Keys |-> Replay(d, s)[k]]
  BY DEF Replay
<1> HIDE DEF n
<1>6. QED
  BY <1>2, <1>3, <1>4, <1>5 DEF t

\* The reverse of a sequence, element by element.
LEMMA ReverseFacts ==
    ASSUME NEW s \in Seq(Op)
    PROVE  /\ Reverse(s) \in Seq(Op) /\ Len(Reverse(s)) = Len(s) /\ Len(s) \in Nat
           /\ \A i \in 1..Len(s) : Len(s) - i + 1 \in 1..Len(s) /\ Reverse(s)[i] = s[Len(s) - i + 1]
  BY DEF Reverse

\* Putting an operation first in the list mirrors asking for it last.
LEMMA ReverseAppend ==
    ASSUME NEW s \in Seq(Op), NEW o \in Op
    PROVE  Reverse(Append(s, o)) = AddFirst(Reverse(s), o)
<1>1. /\ Append(s, o) \in Seq(Op) /\ Len(Append(s, o)) = Len(s) + 1 /\ Len(s) \in Nat
      /\ Append(s, o)[Len(s) + 1] = o
      /\ \A i \in 1..Len(s) : Append(s, o)[i] = s[i]
  OBVIOUS
<1>2. /\ Reverse(s) \in Seq(Op) /\ Len(Reverse(s)) = Len(s)
      /\ \A i \in 1..Len(s) : Reverse(s)[i] = s[Len(s) - i + 1]
  BY ReverseFacts
<1> DEFINE a == Reverse(Append(s, o))
           b == AddFirst(Reverse(s), o)
<1>3. /\ a \in Seq(Op) /\ Len(a) = Len(s) + 1
      /\ \A i \in 1..(Len(s) + 1) : a[i] = Append(s, o)[Len(s) + 1 - i + 1]
  <2> DEFINE t == Append(s, o)
  <2>1. t \in Seq(Op) /\ Len(t) = Len(s) + 1
    BY <1>1
  <2> HIDE DEF t
  <2>2. /\ Reverse(t) \in Seq(Op) /\ Len(Reverse(t)) = Len(t)
        /\ \A i \in 1..Len(t) : Reverse(t)[i] = t[Len(t) - i + 1]
    BY <2>1, ReverseFacts
  <2>3. QED
    BY <2>1, <2>2 DEF t
<1>4. /\ b \in Seq(Op) /\ Len(b) = Len(s) + 1 /\ b[1] = o
      /\ \A i \in 2..(Len(s) + 1) : b[i] = Reverse(s)[i - 1]
  BY <1>2 DEF AddFirst
<1>5. ASSUME NEW i \in 1..(Len(s) + 1) PROVE a[i] = b[i]
  <2>1. CASE i = 1
    <3>1. Len(s) + 1 - 1 + 1 = Len(s) + 1
      BY <1>1
    <3>2. QED
      BY <1>1, <1>3, <1>4, <2>1, <3>1
  <2>2. CASE i # 1
    <3>1. /\ i \in 2..(Len(s) + 1) /\ i - 1 \in 1..Len(s)
          /\ Len(s) + 1 - i + 1 \in 1..Len(s)
          /\ Len(s) - (i - 1) + 1 = Len(s) + 1 - i + 1
      BY <1>1, <2>2
    <3>2. QED
      BY <1>1, <1>2, <1>3, <1>4, <3>1
  <2>3. QED
    BY <2>1, <2>2
<1> HIDE DEF a, b
<1>6. a = b
  BY <1>1, <1>3, <1>4, <1>5, SeqEqual
<1>7. QED
  BY <1>6 DEF a, b

\* Reading through the list, newest first, is replaying the program.
LEMMA GetIsReplay ==
    ASSUME NEW x, NEW k \in Keys, program[x] \in Seq(Op), ops[x] = Reverse(program[x])
    PROVE  kvdb_txn_get(x, k) = Replay(db, program[x])[k]
<1> DEFINE s == program[x]
           r == ops[x]
           n == Len(program[x])
           hits == {i \in DOMAIN r : r[i].key = k}
           first == CHOOSE i \in hits : \A j \in hits : i <= j
<1>1. /\ r \in Seq(Op) /\ DOMAIN r = 1..n /\ n \in Nat
      /\ \A i \in 1..n : n - i + 1 \in 1..n /\ r[i] = s[n - i + 1]
  BY ReverseFacts
<1>2. \A i \in 1..n : n - i + 1 \in 1..n /\ s[i] = r[n - i + 1]
  <2> SUFFICES ASSUME NEW i \in 1..n PROVE n - i + 1 \in 1..n /\ s[i] = r[n - i + 1]
    OBVIOUS
  <2>1. n - i + 1 \in 1..n /\ n - (n - i + 1) + 1 = i
    BY <1>1
  <2>2. QED
    BY <1>1, <2>1
<1>3. kvdb_txn_get(x, k) = IF hits = {} THEN db[k] ELSE r[first].value
  BY DEF kvdb_txn_get
<1>4. CASE \A j \in 1..n : s[j].key # k
  <2>1. hits = {}
    <3>1. \A i \in 1..n : r[i].key # k
      BY <1>1, <1>4
    <3>2. QED
      BY <1>1, <3>1
  <2>2. Replay(db, s)[k] = db[k]
    BY <1>4, ReplayNone
  <2>3. QED
    BY <1>3, <2>1, <2>2
<1>5. CASE \E i \in 1..n : s[i].key = k /\ \A j \in 1..n : s[j].key = k => j <= i
  <2>1. PICK i \in 1..n : s[i].key = k /\ \A j \in 1..n : s[j].key = k => j <= i
    BY <1>5
  <2> DEFINE f == n - i + 1
  <2>2. f \in hits /\ r[f] = s[i]
    BY <1>1, <1>2, <2>1
  <2>3. \A j \in hits : f <= j
    <3> SUFFICES ASSUME NEW j \in 1..n, r[j].key = k PROVE f <= j
      BY <1>1
    <3>1. n - j + 1 \in 1..n /\ s[n - j + 1].key = k
      BY <1>1
    <3>2. n - j + 1 <= i
      BY <2>1, <3>1
    <3>3. QED
      BY <1>1, <3>2
  <2>4. first \in hits /\ \A j \in hits : first <= j
    BY <2>2, <2>3
  <2>5. \A j \in hits : j \in Nat
    BY <1>1
  <2> HIDE DEF hits, first, f
  <2>6. first = f
    BY <2>2, <2>3, <2>4, <2>5
  <2>7. Replay(db, s)[k] = s[i].value
    BY <2>1, ReplayLast
  <2>8. QED
    BY <1>3, <2>2, <2>6, <2>7
<1>6. QED
  BY <1>4, <1>5, ReplayCases

KvTypes ==
    /\ db \in [Keys -> Data]
    /\ ops \in [Txns -> Seq(Op)] /\ op \in [Txns -> Seq(Op)] /\ program \in [Txns -> Seq(Op)]
    /\ base \in [Txns -> [Keys -> Data]]
    /\ DOMAIN phase = Txns

\* The list is the program backwards as long as it is kept.
ListMirrors(x) ==
    /\ phase[x] \in {"open", "committing"} => ops[x] = Reverse(program[x])
    /\ phase[x] = "none" => ops[x] = <<>> /\ program[x] = <<>>

\* The commit loop has run the first n operations of the list and has the others to
\* go; if nobody else commits, the database shows it.
CommitAt(x, n) ==
    LET mirror == Reverse(program[x])
    IN  /\ op[x] = SubSeq(mirror, n + 1, Len(mirror))
        /\ OthersQuiet(x) => db = Replay(base[x], SubSeq(mirror, 1, n))
        /\ phase[x] = "failed" => n < Len(mirror)
        /\ phase[x] = "ok" => n = Len(mirror)
CommitRuns(x) ==
    phase[x] \in {"committing", "failed", "ok"} => \E n \in 0..Len(program[x]) : CommitAt(x, n)

KvInv == KvTypes /\ \A x \in Txns : ListMirrors(x) /\ CommitRuns(x)

\* How far a commit is after a step, written out.
LEMMA CommitAtNext ==
    ASSUME NEW x, NEW n,
           op'[x] = SubSeq(Reverse(program'[x]), n + 1, Len(Reverse(program'[x]))),
           OthersQuiet(x)' => db' = Replay(base'[x], SubSeq(Reverse(program'[x]), 1, n)),
           phase'[x] = "failed" => n < Len(Reverse(program'[x])),
           phase'[x] = "ok" => n = Len(Reverse(program'[x]))
    PROVE  CommitAt(x, n)'
  BY DEF CommitAt, Replay

\* A step of one transaction leaves what is said of the others, because one that
\* writes to the database is not quiet.
LEMMA OthersKept ==
    ASSUME KvInv, NEW x \in Txns,
           \A y \in Txns \ {x} : /\ ops'[y] = ops[y] /\ op'[y] = op[y] /\ phase'[y] = phase[y]
                                 /\ program'[y] = program[y] /\ base'[y] = base[y],
           phase'[x] \in {"none", "open", "aborted"} =>
               db' = db /\ phase[x] \in {"none", "open", "aborted"},
           KvTypes', ListMirrors(x)', CommitRuns(x)'
    PROVE  KvInv'
<1>1. ASSUME NEW y \in Txns \ {x} PROVE ListMirrors(y)' /\ CommitRuns(y)'
  <2>1. /\ ops'[y] = ops[y] /\ op'[y] = op[y] /\ phase'[y] = phase[y]
        /\ program'[y] = program[y] /\ base'[y] = base[y]
    OBVIOUS
  <2>2. ListMirrors(y) /\ CommitRuns(y)
    BY DEF KvInv
  <2>3. OthersQuiet(y)' => OthersQuiet(y) /\ db' = db
    BY DEF OthersQuiet
  <2>4. ListMirrors(y)'
    BY <2>1, <2>2 DEF ListMirrors
  <2>5. ASSUME NEW n \in 0..Len(program[y]), CommitAt(y, n) PROVE CommitAt(y, n)'
    <3>1. (OthersQuiet(y) => db = Replay(base[y], SubSeq(Reverse(program[y]), 1, n)))
          => (OthersQuiet(y)' => db' = Replay(base'[y], SubSeq(Reverse(program'[y]), 1, n)))
      BY <2>1, <2>3
    <3>2. QED
      BY <2>1, <2>5, <3>1, CommitAtNext DEF CommitAt
  <2>6. CommitRuns(y)'
    BY <2>1, <2>2, <2>5 DEF CommitRuns
  <2>7. QED
    BY <2>4, <2>6
<1>2. QED
  BY <1>1 DEF KvInv

\* Initially there is no transaction.
LEMMA KvInitially == Init => KvInv
<1> SUFFICES ASSUME Init PROVE KvInv
  OBVIOUS
<1>1. KvTypes
  BY DEF Init, KvTypes, Data
<1>2. \A x \in Txns : phase[x] = "none" /\ ops[x] = <<>> /\ program[x] = <<>>
  BY DEF Init
<1>3. QED
  BY <1>1, <1>2 DEF KvInv, ListMirrors, CommitRuns

\* The empty list is its own mirror.
LEMMA BeginKeeps ==
    ASSUME KvInv, NEW x \in Txns, kvdb_txn_begin(x)
    PROVE  KvInv'
<1> USE DEF kvdb_txn_begin
<1>1. KvTypes'
  BY DEF KvInv, KvTypes
<1>2. phase[x] = "none" /\ phase'[x] = "open" /\ \A y \in Txns \ {x} : phase'[y] = phase[y]
  BY DEF KvInv, KvTypes
<1>3. ListMirrors(x)'
  <2>1. ops[x] = <<>> /\ program[x] = <<>>
    BY <1>2 DEF KvInv, ListMirrors
  <2>2. Reverse(<<>>) = <<>>
    BY DEF Reverse
  <2>3. QED
    BY <1>2, <2>1, <2>2 DEF ListMirrors
<1>4. CommitRuns(x)'
  BY <1>2 DEF CommitRuns
<1>5. QED
  BY <1>1, <1>2, <1>3, <1>4, OthersKept

\* An operation is put first in the list and last in the program.
LEMMA AddOpKeeps ==
    ASSUME KvInv, NEW x \in Txns, NEW o \in Op, txn_add_op(x, o)
    PROVE  KvInv'
<1>1. /\ phase[x] = "open" /\ phase' = phase /\ db' = db /\ op' = op /\ base' = base
      /\ ops' = [ops EXCEPT ![x] = AddFirst(ops[x], o)]
      /\ program' = [program EXCEPT ![x] = Append(program[x], o)]
  BY DEF txn_add_op
<1>2. /\ ops \in [Txns -> Seq(Op)] /\ program \in [Txns -> Seq(Op)]
      /\ ops[x] \in Seq(Op) /\ program[x] \in Seq(Op)
  BY DEF KvInv, KvTypes
<1>3. AddFirst(ops[x], o) \in Seq(Op) /\ Append(program[x], o) \in Seq(Op)
  BY <1>2 DEF AddFirst
<1>4. /\ ops' \in [Txns -> Seq(Op)] /\ program' \in [Txns -> Seq(Op)]
      /\ ops'[x] = AddFirst(ops[x], o) /\ program'[x] = Append(program[x], o)
      /\ \A y \in Txns \ {x} : ops'[y] = ops[y] /\ program'[y] = program[y]
  BY <1>1, <1>2, <1>3
<1>5. KvTypes'
  BY <1>1, <1>4 DEF KvInv, KvTypes
<1>6. ListMirrors(x)'
  <2>1. ops[x] = Reverse(program[x])
    BY <1>1 DEF KvInv, ListMirrors
  <2>2. ops'[x] = Reverse(program'[x])
    BY <1>2, <1>4, <2>1, ReverseAppend
  <2>3. QED
    BY <1>1, <2>2 DEF ListMirrors
<1>7. CommitRuns(x)'
  BY <1>1 DEF CommitRuns
<1>8. QED
  BY <1>1, <1>4, <1>5, <1>6, <1>7, OthersKept

\* The loop starts at the head of the list, with nothing run yet.
LEMMA StartCommitKeeps ==
    ASSUME KvInv, NEW x \in Txns, StartCommit(x)
    PROVE  KvInv'
<1>1. /\ phase[x] = "open" /\ phase' = [phase EXCEPT ![x] = "committing"]
      /\ op' = [op EXCEPT ![x] = ops[x]] /\ base' = [base EXCEPT ![x] = db]
      /\ db' = db /\ ops' = ops /\ program' = program
  BY DEF StartCommit
<1>2. KvTypes'
  BY <1>1 DEF KvInv, KvTypes
<1>3. /\ phase'[x] = "committing" /\ op'[x] = ops[x] /\ base'[x] = db
      /\ \A y \in Txns \ {x} : phase'[y] = phase[y] /\ op'[y] = op[y] /\ base'[y] = base[y]
  BY <1>1 DEF KvInv, KvTypes
<1>4. ops[x] = Reverse(program[x])
  BY <1>1 DEF KvInv, ListMirrors
<1>5. ListMirrors(x)'
  BY <1>1, <1>3, <1>4 DEF ListMirrors
<1>6. CommitRuns(x)'
  <2> DEFINE mirror == Reverse(program[x])
  <2>1. program[x] \in Seq(Op) /\ mirror \in Seq(Op) /\ 0 \in 0..Len(program[x])
    BY ReverseFacts DEF KvInv, KvTypes
  <2>2. SubSeq(mirror, 0 + 1, Len(mirror)) = mirror /\ SubSeq(mirror, 1, 0) = <<>>
    BY <2>1, SubSeqFull, SubSeqEmpty
  <2>3. Replay(db, <<>>) = db
    <3>1. \A k \in Keys : Replay(db, <<>>)[k] = db[k]
      <4>1. <<>> \in Seq(Op) /\ \A j \in 1..Len(<<>>) : FALSE
        OBVIOUS
      <4>2. QED
        BY <4>1, ReplayNone
    <3>2. QED
      BY <3>1 DEF Replay, KvInv, KvTypes
  <2>4. CommitAt(x, 0)'
    <3>1. op'[x] = SubSeq(Reverse(program'[x]), 0 + 1, Len(Reverse(program'[x])))
      BY <1>1, <1>3, <1>4, <2>2
    <3>2. db' = Replay(base'[x], SubSeq(Reverse(program'[x]), 1, 0))
      BY <1>1, <1>3, <2>2, <2>3
    <3>3. QED
      BY <1>3, <3>1, <3>2, CommitAtNext
  <2>5. QED
    BY <1>1, <2>1, <2>4 DEF CommitRuns
<1>7. QED
  BY <1>1, <1>2, <1>3, <1>5, <1>6, OthersKept

\* A round of the loop: one operation more has been run, or the commit has failed
\* with at least one operation to go.
LEMMA RunOpKeeps ==
    ASSUME KvInv, NEW x \in Txns, RunOp(x)
    PROVE  KvInv'
<1> DEFINE mirror == Reverse(program[x])
<1>1. /\ phase[x] = "committing" /\ op[x] # <<>>
      /\ program' = program /\ base' = base
  BY DEF RunOp
<1>2. /\ program[x] \in Seq(Op) /\ mirror \in Seq(Op) /\ Len(mirror) = Len(program[x])
      /\ Len(mirror) \in Nat /\ base[x] \in [Keys -> Data]
  BY ReverseFacts DEF KvInv, KvTypes
<1>3. PICK n \in 0..Len(mirror) : CommitAt(x, n)
  BY <1>1, <1>2 DEF KvInv, CommitRuns
<1>4. op[x] = SubSeq(mirror, n + 1, Len(mirror))
  BY <1>3 DEF CommitAt
<1>5. n < Len(mirror)
  <2>1. n = Len(mirror) => SubSeq(mirror, n + 1, Len(mirror)) = <<>>
    BY <1>2, SubSeqEmpty
  <2>2. QED
    BY <1>1, <1>2, <1>4, <2>1
<1>6. /\ n + 1 \in 1..Len(mirror) /\ Len(mirror) \in (n + 1)..Len(mirror) /\ n \in Nat
      /\ mirror[n + 1] \in Op
  BY <1>2, <1>5
<1>7. CASE /\ db' = [db EXCEPT ![Head(op[x]).key] = Head(op[x]).value]
           /\ op' = [op EXCEPT ![x] = Tail(op[x])]
           /\ phase' = phase /\ ops' = ops
  <2>1. Head(op[x]) = mirror[n + 1] /\ Tail(op[x]) = SubSeq(mirror, n + 2, Len(mirror))
    <3>1. /\ Head(SubSeq(mirror, n + 1, Len(mirror))) = mirror[n + 1]
          /\ Tail(SubSeq(mirror, n + 1, Len(mirror))) = SubSeq(mirror, (n + 1) + 1, Len(mirror))
      BY <1>2, <1>6, HeadTailOfSubSeq
    <3>2. (n + 1) + 1 = n + 2
      BY <1>6
    <3>3. QED
      BY <1>4, <3>1, <3>2
  <2>2. op'[x] = SubSeq(mirror, n + 2, Len(mirror)) /\ \A y \in Txns \ {x} : op'[y] = op[y]
    BY <1>7, <2>1 DEF KvInv, KvTypes
  <2>3. KvTypes'
    <3>1. Head(op[x]).key \in Keys /\ Head(op[x]).value \in Data
      BY <1>6, <2>1 DEF Op, Data
    <3>2. Tail(op[x]) \in Seq(Op)
      BY <1>1 DEF KvInv, KvTypes
    <3>3. db' \in [Keys -> Data] /\ op' \in [Txns -> Seq(Op)]
      BY <1>7, <3>1, <3>2 DEF KvInv, KvTypes
    <3>4. QED
      BY <1>1, <1>7, <3>3 DEF KvInv, KvTypes
  <2>4. ListMirrors(x)'
    BY <1>1, <1>7 DEF KvInv, ListMirrors
  <2>5. CommitRuns(x)'
    <3>1. n + 1 \in 0..Len(program[x])
      BY <1>2, <1>6
    <3>2. SubSeq(mirror, 1, n + 1) = Append(SubSeq(mirror, 1, n), mirror[n + 1])
      <4>1. SubSeq(mirror, 1, n + 1) = SubSeq(mirror, 1, (n + 1) - 1) \o <<mirror[n + 1]>>
        <5>1. 1 \in 1..Len(mirror) /\ n + 1 \in 1..Len(mirror)
          BY <1>2, <1>6
        <5>2. QED
          BY <1>2, <5>1, SubSeqRecursiveSecond
      <4>2. (n + 1) - 1 = n
        BY <1>6
      <4>3. SubSeq(mirror, 1, n) \in Seq(Op)
        BY <1>2, <1>6, SubSeqProperties
      <4>4. SubSeq(mirror, 1, n) \o <<mirror[n + 1]>> = Append(SubSeq(mirror, 1, n), mirror[n + 1])
        BY <1>6, <4>3, AppendIsConcat
      <4>5. QED
        BY <4>1, <4>2, <4>4
    <3>3. ASSUME OthersQuiet(x) PROVE db' = Replay(base[x], SubSeq(mirror, 1, n + 1))
      <4>1. db = Replay(base[x], SubSeq(mirror, 1, n))
        BY <1>3, <3>3 DEF CommitAt
      <4>2. SubSeq(mirror, 1, n) \in Seq(Op)
        BY <1>2, <1>6, SubSeqProperties
      <4>3. Replay(base[x], Append(SubSeq(mirror, 1, n), mirror[n + 1]))
              = [Replay(base[x], SubSeq(mirror, 1, n)) EXCEPT ![mirror[n + 1].key] = mirror[n + 1].value]
        <5> DEFINE s == SubSeq(mirror, 1, n)
                   o == mirror[n + 1]
        <5>1. s \in Seq(Op) /\ o \in Op
          BY <1>6, <4>2
        <5> HIDE DEF s, o
        <5>2. Replay(base[x], Append(s, o)) = [Replay(base[x], s) EXCEPT ![o.key] = o.value]
          BY <5>1, ReplayAppend
        <5>3. QED
          BY <5>2 DEF s, o
      <4>4. QED
        BY <1>7, <2>1, <3>2, <4>1, <4>3
    <3>4. OthersQuiet(x)' <=> OthersQuiet(x)
      BY <1>7 DEF OthersQuiet
    <3>5. (n + 1) + 1 = n + 2
      BY <1>6
    <3>6. CommitAt(x, n + 1)'
      <4>1. op'[x] = SubSeq(Reverse(program'[x]), (n + 1) + 1, Len(Reverse(program'[x])))
        BY <1>1, <2>2, <3>5
      <4>2. OthersQuiet(x)' => db' = Replay(base'[x], SubSeq(Reverse(program'[x]), 1, n + 1))
        BY <1>1, <3>3, <3>4
      <4>3. phase'[x] = "committing"
        BY <1>1, <1>7
      <4>4. QED
        BY <4>1, <4>2, <4>3, CommitAtNext
    <3>7. QED
      BY <1>1, <3>1, <3>6 DEF CommitRuns
  <2>6. QED
    BY <1>1, <1>7, <2>2, <2>3, <2>4, <2>5, OthersKept
<1>8. CASE /\ phase' = [phase EXCEPT ![x] = "failed"]
           /\ ops' = [ops EXCEPT ![x] = <<>>]
           /\ db' = db /\ op' = op
  <2>1. /\ phase'[x] = "failed"
        /\ \A y \in Txns \ {x} : phase'[y] = phase[y] /\ ops'[y] = ops[y]
    BY <1>8 DEF KvInv, KvTypes
  <2>2. KvTypes'
    BY <1>1, <1>8 DEF KvInv, KvTypes
  <2>3. ListMirrors(x)'
    BY <2>1 DEF ListMirrors
  <2>4. OthersQuiet(x)' <=> OthersQuiet(x)
    BY <2>1 DEF OthersQuiet
  <2>5. CommitAt(x, n)'
    <3>1. op'[x] = SubSeq(Reverse(program'[x]), n + 1, Len(Reverse(program'[x])))
      BY <1>1, <1>4, <1>8
    <3>2. OthersQuiet(x)' => db' = Replay(base'[x], SubSeq(Reverse(program'[x]), 1, n))
      BY <1>1, <1>3, <1>8, <2>4 DEF CommitAt
    <3>3. n < Len(Reverse(program'[x]))
      BY <1>1, <1>5
    <3>4. QED
      BY <2>1, <3>1, <3>2, <3>3, CommitAtNext
  <2>6. CommitRuns(x)'
    BY <1>1, <1>2, <2>5 DEF CommitRuns
  <2>7. QED
    BY <1>1, <1>8, <2>1, <2>2, <2>3, <2>6, OthersKept
<1>9. QED
  BY <1>7, <1>8 DEF RunOp

\* The loop is over when all of the list has been run.
LEMMA EndCommitKeeps ==
    ASSUME KvInv, NEW x \in Txns, EndCommit(x)
    PROVE  KvInv'
<1> DEFINE mirror == Reverse(program[x])
<1>1. /\ phase[x] = "committing" /\ op[x] = <<>> /\ phase' = [phase EXCEPT ![x] = "ok"]
      /\ ops' = [ops EXCEPT ![x] = <<>>]
      /\ db' = db /\ op' = op /\ program' = program /\ base' = base
  BY DEF EndCommit
<1>2. /\ phase'[x] = "ok"
      /\ \A y \in Txns \ {x} : phase'[y] = phase[y] /\ ops'[y] = ops[y]
  BY <1>1 DEF KvInv, KvTypes
<1>3. KvTypes'
  BY <1>1 DEF KvInv, KvTypes
<1>4. /\ mirror \in Seq(Op) /\ Len(mirror) = Len(program[x]) /\ Len(mirror) \in Nat
  BY ReverseFacts DEF KvInv, KvTypes
<1>5. PICK n \in 0..Len(mirror) : CommitAt(x, n)
  BY <1>1, <1>4 DEF KvInv, CommitRuns
<1>6. n = Len(mirror)
  <2>1. SubSeq(mirror, n + 1, Len(mirror)) = <<>>
    BY <1>1, <1>5 DEF CommitAt
  <2>2. Len(SubSeq(mirror, n + 1, Len(mirror))) = IF n + 1 <= Len(mirror) THEN Len(mirror) - (n + 1) + 1 ELSE 0
    <3>1. \A i \in (n + 1)..Len(mirror) : mirror[i] \in Op
      BY <1>4
    <3>2. QED
      BY <1>4, <3>1, SubSeqProperties
  <2>3. Len(SubSeq(mirror, n + 1, Len(mirror))) = 0
    BY <2>1
  <2> HIDE DEF mirror
  <2>4. n \in Nat /\ n <= Len(mirror)
    BY <1>4
  <2>5. QED
    BY <1>4, <2>2, <2>3, <2>4
<1>7. OthersQuiet(x)' <=> OthersQuiet(x)
  BY <1>2 DEF OthersQuiet
<1>8. CommitAt(x, n)'
  <2>1. op'[x] = SubSeq(Reverse(program'[x]), n + 1, Len(Reverse(program'[x])))
    BY <1>1, <1>5 DEF CommitAt
  <2>2. OthersQuiet(x)' => db' = Replay(base'[x], SubSeq(Reverse(program'[x]), 1, n))
    BY <1>1, <1>5, <1>7 DEF CommitAt
  <2>3. n = Len(Reverse(program'[x]))
    BY <1>1, <1>6
  <2>4. QED
    BY <1>2, <2>1, <2>2, <2>3, CommitAtNext
<1>9. CommitRuns(x)' /\ ListMirrors(x)'
  BY <1>1, <1>2, <1>4, <1>8 DEF CommitRuns, ListMirrors
<1>10. QED
  BY <1>1, <1>2, <1>3, <1>9, OthersKept

\* An abort drops the list and touches no data.
LEMMA AbortKeeps ==
    ASSUME KvInv, NEW x \in Txns, kvdb_txn_abort(x)
    PROVE  KvInv'
<1>1. /\ phase[x] = "open" /\ phase' = [phase EXCEPT ![x] = "aborted"]
      /\ ops' = [ops EXCEPT ![x] = <<>>]
      /\ db' = db /\ op' = op /\ program' = program /\ base' = base
  BY DEF kvdb_txn_abort
<1>2. /\ phase'[x] = "aborted"
      /\ \A y \in Txns \ {x} : phase'[y] = phase[y] /\ ops'[y] = ops[y]
  BY <1>1 DEF KvInv, KvTypes
<1>3. KvTypes'
  BY <1>1 DEF KvInv, KvTypes
<1>4. CommitRuns(x)' /\ ListMirrors(x)'
  BY <1>2 DEF CommitRuns, ListMirrors
<1>5. QED
  BY <1>1, <1>2, <1>3, <1>4, OthersKept

\* KvInv holds in every state of the transactions.
THEOREM KvInvariance == Spec => []KvInv
<1>1. KvInv /\ [Next]_vars => KvInv'
  <2> SUFFICES ASSUME KvInv, [Next]_vars PROVE KvInv'
    OBVIOUS
  <2>1. ASSUME NEW x \in Txns, NEW k \in Keys, kvdb_txn_delete(x, k) PROVE KvInv'
    <3>1. [key |-> k, value |-> NOTFOUND] \in Op
      BY DEF Op
    <3>2. QED
      BY <2>1, <3>1, AddOpKeeps DEF kvdb_txn_delete
  <2>2. ASSUME NEW x \in Txns, NEW k \in Keys, NEW v \in Values, kvdb_txn_put(x, k, v)
        PROVE  KvInv'
    <3>1. [key |-> k, value |-> v] \in Op
      BY DEF Op
    <3>2. QED
      BY <2>2, <3>1, AddOpKeeps DEF kvdb_txn_put
  <2>3. CASE UNCHANGED vars
    <3>1. ASSUME NEW x \in Txns PROVE ListMirrors(x)' /\ CommitRuns(x)'
      <4>1. ListMirrors(x) /\ CommitRuns(x)
        BY DEF KvInv
      <4>2. UNCHANGED <<db, ops, phase, op, program, base>>
        BY <2>3 DEF vars
      <4>3. OthersQuiet(x)' <=> OthersQuiet(x)
        BY <4>2 DEF OthersQuiet
      <4>4. ASSUME NEW n, CommitAt(x, n) PROVE CommitAt(x, n)'
        BY <4>2, <4>3, <4>4, CommitAtNext DEF CommitAt
      <4>5. QED
        BY <4>1, <4>2, <4>4 DEF ListMirrors, CommitRuns
    <3>2. QED
      BY <2>3, <3>1 DEF vars, KvInv, KvTypes
  <2>4. QED
    BY <2>1, <2>2, <2>3, BeginKeeps, StartCommitKeeps, RunOpKeeps, EndCommitKeeps, AbortKeeps
       DEF Next
<1>2. QED
  BY KvInitially, <1>1, PTL DEF Spec

\* An open transaction reads its own latest operation on a key, and the database
\* otherwise, however its operations and other commits interleave (kvdb_txn_get).
THEOREM OwnWritesRead == Spec => []ReadsOwnWrites
<1>1. KvInv => ReadsOwnWrites
  <2> SUFFICES ASSUME KvInv, NEW x \in Txns, phase[x] = "open", NEW k \in Keys
               PROVE  kvdb_txn_get(x, k) = Replay(db, program[x])[k]
    BY DEF ReadsOwnWrites
  <2>1. program[x] \in Seq(Op) /\ ops[x] = Reverse(program[x])
    BY DEF KvInv, KvTypes, ListMirrors
  <2>2. QED
    BY <2>1, GetIsReplay
<1>2. QED
  BY KvInvariance, <1>1, PTL

\* A commit that fails leaves a proper part of its operations in the database, the
\* newest ones (kvdb_txn_commit).
THEOREM FailedCommitsPartial == Spec => []FailedCommitIsPartial
<1>1. KvInv => FailedCommitIsPartial
  <2> SUFFICES ASSUME KvInv, NEW x \in Txns, phase[x] = "failed", OthersQuiet(x)
               PROVE  \E n \in 0..(Len(program[x]) - 1) :
                         db = Replay(base[x], SubSeq(Reverse(program[x]), 1, n))
    BY DEF FailedCommitIsPartial
  <2>1. PICK n \in 0..Len(program[x]) : CommitAt(x, n)
    BY DEF KvInv, CommitRuns
  <2>2. Len(Reverse(program[x])) = Len(program[x]) /\ Len(program[x]) \in Nat
    BY ReverseFacts DEF KvInv, KvTypes
  <2>3. /\ n < Len(program[x])
        /\ db = Replay(base[x], SubSeq(Reverse(program[x]), 1, n))
    BY <2>1, <2>2 DEF CommitAt
  <2>4. QED
    BY <2>2, <2>3
<1>2. QED
  BY KvInvariance, <1>1, PTL

\* A commit that succeeds has run its operations backwards; that is the order of the
\* program when no key occurs twice.
CommitBackwards ==
    \A x \in Txns : phase[x] = "ok" /\ OthersQuiet(x) =>
        /\ db = Replay(base[x], Reverse(program[x]))
        /\ OneOpPerKey(program[x]) => db = Replay(base[x], program[x])

\* With one operation on each key the order does not matter.
LEMMA OrderIrrelevant ==
    ASSUME NEW d, NEW s \in Seq(Op), OneOpPerKey(s)
    PROVE  Replay(d, Reverse(s)) = Replay(d, s)
<1> DEFINE r == Reverse(s)
           n == Len(s)
<1>1. /\ r \in Seq(Op) /\ Len(r) = n /\ n \in Nat
      /\ \A i \in 1..n : n - i + 1 \in 1..n /\ r[i] = s[n - i + 1]
  BY ReverseFacts
<1>2. \A i, j \in 1..n : s[i].key = s[j].key => i = j
  BY DEF OneOpPerKey
<1> HIDE DEF r
<1>3. ASSUME NEW k \in Keys PROVE Replay(d, r)[k] = Replay(d, s)[k]
  <2>1. CASE \A j \in 1..n : s[j].key # k
    <3>1. \A j \in 1..Len(r) : r[j].key # k
      BY <1>1, <2>1
    <3>2. QED
      BY <1>1, <2>1, <3>1, ReplayNone
  <2>2. CASE \E i \in 1..n : s[i].key = k /\ \A j \in 1..n : s[j].key = k => j <= i
    <3>1. PICK i \in 1..n : s[i].key = k /\ \A j \in 1..n : s[j].key = k => j <= i
      BY <2>2
    <3>2. /\ n - i + 1 \in 1..Len(r) /\ n - (n - i + 1) + 1 = i
      BY <1>1
    <3>3. r[n - i + 1] = s[i]
      BY <1>1, <3>2
    <3>4. ASSUME NEW j \in 1..Len(r), r[j].key = k PROVE j <= n - i + 1
      <4>1. n - j + 1 \in 1..n /\ s[n - j + 1].key = k
        BY <1>1, <3>4
      <4>2. n - j + 1 = i
        BY <1>2, <3>1, <4>1
      <4>3. QED
        BY <1>1, <4>2
    <3>5. Replay(d, r)[k] = r[n - i + 1].value
      BY <1>1, <3>1, <3>2, <3>3, <3>4, ReplayLast
    <3>6. Replay(d, s)[k] = s[i].value
      BY <3>1, ReplayLast
    <3>7. QED
      BY <3>3, <3>5, <3>6
  <2>3. QED
    BY <2>1, <2>2, ReplayCases
<1>4. /\ Replay(d, r) = [k \in Keys |-> Replay(d, r)[k]]
      /\ Replay(d, s) = [k \in Keys |-> Replay(d, s)[k]]
  BY DEF Replay
<1>5. Replay(d, r) = Replay(d, s)
  BY <1>3, <1>4
<1>6. QED
  BY <1>5 DEF r

\* What kvdb_txn_commit does instead of CommitInOrder, and when the two agree.
THEOREM CommitsRunBackwards == Spec => []CommitBackwards
<1>1. KvInv => CommitBackwards
  <2> SUFFICES ASSUME KvInv, NEW x \in Txns, phase[x] = "ok", OthersQuiet(x)
               PROVE  /\ db = Replay(base[x], Reverse(program[x]))
                      /\ OneOpPerKey(program[x]) => db = Replay(base[x], program[x])
    BY DEF CommitBackwards
  <2>1. PICK n \in 0..Len(program[x]) : CommitAt(x, n)
    BY DEF KvInv, CommitRuns
  <2>2. program[x] \in Seq(Op) /\ Reverse(program[x]) \in Seq(Op)
    BY ReverseFacts DEF KvInv, KvTypes
  <2>3. db = Replay(base[x], SubSeq(Reverse(program[x]), 1, Len(Reverse(program[x]))))
    BY <2>1 DEF CommitAt
  <2>4. SubSeq(Reverse(program[x]), 1, Len(Reverse(program[x]))) = Reverse(program[x])
    BY <2>2, SubSeqFull
  <2>5. db = Replay(base[x], Reverse(program[x]))
    BY <2>3, <2>4
  <2>6. QED
    BY <2>2, <2>5, OrderIrrelevant
<1>2. QED
  BY KvInvariance, <1>1, PTL

-----------------------------------------------------------------------------
(* The data file of the key-value database. *)

\* The cells that a file is made of.
FileCells ==
    {Header(<<k>>, v) : k \in KeyRange, v \in StoredValues}
    \cup {<<"byte", b>> : b \in Nat} \cup {<<"torn">>}

\* The cells of the block b are in the file at its offset, and synced.
InPlace(b, cells) ==
    /\ b.offset \in Nat /\ b.offset + Len(cells) <= synced
    /\ \A i \in 1..Len(cells) : file[b.offset + i] = cells[i]

(***************************************************************************)
(* The inductive invariant: size is the end of the file unless a write     *)
(* failed since it was opened, and every acknowledged block lies within    *)
(* the part of the file that fsync has made permanent.                     *)
(***************************************************************************)
StoreInv ==
    /\ file \in Seq(FileCells) /\ synced \in 0..Len(file) /\ size \in Nat /\ torn \in BOOLEAN
    /\ ~torn => size = Len(file)
    /\ \A b \in acked : \E k \in KeyRange, v \in StoredValues :
          b = [offset |-> b.offset, key |-> <<k>>, value |-> v] /\ InPlace(b, Block(<<k>>, v))

-----------------------------------------------------------------------------
(* Writing. *)

\* A file that grows keeps its cells.
LEMMA FileGrows ==
    ASSUME NEW s \in Seq(FileCells), NEW t \in Seq(FileCells)
    PROVE  /\ s \o t \in Seq(FileCells) /\ Len(s \o t) = Len(s) + Len(t)
           /\ \A i \in 1..Len(s) : (s \o t)[i] = s[i]
           /\ \A i \in 1..Len(t) : (s \o t)[Len(s) + i] = t[i]
OBVIOUS

\* A single cell.
LEMMA OneCell ==
    ASSUME NEW s \in Seq(FileCells), NEW j \in 1..Len(s)
    PROVE  SubSeq(s, j, j) = <<s[j]>>
<1>. DEFINE t == SubSeq(s, j, j)
<1>1. t \in Seq(FileCells) /\ Len(t) = 1 /\ t[1] = s[j]
  OBVIOUS
<1>. HIDE DEF t
<1>2. t = <<t[1]>>
  BY <1>1
<1>3. QED
  BY <1>1, <1>2 DEF t

\* The cells of a block: the header, the key, the value.
LEMMA BlockCells ==
    ASSUME NEW k \in KeyRange, NEW v \in StoredValues
    PROVE  /\ Block(<<k>>, v) \in Seq(FileCells)
           /\ v \in Seq(Nat) /\ Len(v) \in Nat
           /\ Len(Block(<<k>>, v)) = Len(v) + 2
           /\ Block(<<k>>, v)[1] = Header(<<k>>, v)
           /\ Block(<<k>>, v)[2] = <<"byte", k>>
           /\ \A i \in 1..Len(v) : Block(<<k>>, v)[i + 2] = <<"byte", v[i]>>
<1>1. v \in Seq(Nat) /\ Len(v) \in Nat /\ k \in Nat
  BY KvAssumption
<1>. DEFINE h == Header(<<k>>, v)
            ck == Cells(<<k>>)
            cv == Cells(v)
<1>2. h \in FileCells
  BY DEF FileCells
<1>3. ck = << <<"byte", k>> >>
  BY DEF Cells
<1>4. <<"byte", k>> \in FileCells
  BY <1>1 DEF FileCells
<1>5. cv \in Seq(FileCells) /\ Len(cv) = Len(v) /\ \A i \in 1..Len(v) : cv[i] = <<"byte", v[i]>>
  <2>1. \A i \in 1..Len(v) : <<"byte", v[i]>> \in FileCells
    BY <1>1 DEF FileCells
  <2>2. cv = [i \in 1..Len(v) |-> <<"byte", v[i]>>]
    BY <1>1 DEF Cells
  <2>3. QED
    BY <1>1, <2>1, <2>2
<1>. HIDE DEF h, cv, ck
<1>6. <<h>> \o ck \in Seq(FileCells) /\ Len(<<h>> \o ck) = 2 /\ (<<h>> \o ck)[1] = h
      /\ (<<h>> \o ck)[2] = <<"byte", k>>
  BY <1>2, <1>3, <1>4
<1>. DEFINE a == <<h>> \o ck
<1>7. Block(<<k>>, v) = a \o cv
  BY DEF Block, h, ck, cv
<1>. HIDE DEF a
<1>8. a \in Seq(FileCells) /\ Len(a) = 2 /\ a[1] = h /\ a[2] = <<"byte", k>>
  BY <1>6 DEF a
<1>9. a \o cv \in Seq(FileCells) /\ Len(a \o cv) = Len(v) + 2 /\ (a \o cv)[1] = h
      /\ (a \o cv)[2] = <<"byte", k>> /\ \A i \in 1..Len(v) : (a \o cv)[i + 2] = cv[i]
  <2>1. Len(cv) = Len(v) /\ 1 \in 1..Len(a) /\ 2 \in 1..Len(a) /\ cv \in Seq(FileCells)
    BY <1>5, <1>8
  <2>2. /\ a \o cv \in Seq(FileCells) /\ Len(a \o cv) = Len(a) + Len(cv)
        /\ \A i \in 1..Len(a) : (a \o cv)[i] = a[i]
        /\ \A i \in 1..Len(cv) : (a \o cv)[Len(a) + i] = cv[i]
    BY <1>8, <2>1, FileGrows
  <2>3. \A i \in 1..Len(v) : Len(a) + i = i + 2
    BY <1>1, <1>8
  <2>4. Len(a) + Len(cv) = Len(v) + 2
    BY <1>1, <1>8, <2>1
  <2>5. QED
    BY <1>8, <2>1, <2>2, <2>3, <2>4
<1>10. QED
  BY <1>1, <1>5, <1>7, <1>9 DEF h

\* A piece of the file.
LEMMA FilePiece ==
    ASSUME NEW s \in Seq(FileCells), NEW a \in Nat, NEW n \in Nat, a + n <= Len(s)
    PROVE  /\ SubSeq(s, a + 1, a + n) \in Seq(FileCells) /\ Len(SubSeq(s, a + 1, a + n)) = n
           /\ \A i \in 1..n : SubSeq(s, a + 1, a + n)[i] = s[a + i]
OBVIOUS

\* Acknowledged blocks stay in place while the cells up to synced stay and synced does not fall.
LEMMA BlocksStay ==
    ASSUME StoreInv, synced' \in Nat, synced <= synced',
           \A i \in 1..synced : file'[i] = file[i],
           NEW b \in acked, NEW k \in KeyRange, NEW v \in StoredValues,
           InPlace(b, Block(<<k>>, v))
    PROVE  InPlace(b, Block(<<k>>, v))'
<1>. DEFINE c == Block(<<k>>, v)
<1>1. Len(c) \in Nat
  BY BlockCells
<1>. HIDE DEF c
<1>2. b.offset \in Nat /\ b.offset + Len(c) <= synced /\ \A i \in 1..Len(c) : file[b.offset + i] = c[i]
  BY DEF InPlace, c
<1>3. synced \in Nat
  BY DEF StoreInv
<1>4. \A i \in 1..Len(c) : b.offset + i \in 1..synced
  BY <1>1, <1>2, <1>3
<1>5. \A i \in 1..Len(c) : file'[b.offset + i] = c[i]
  BY <1>2, <1>4
<1>6. b.offset + Len(c) <= synced'
  BY <1>1, <1>2, <1>3
<1>7. QED
  BY <1>2, <1>5, <1>6 DEF InPlace, c

\* So all of them do.
LEMMA AckedStay ==
    ASSUME StoreInv, synced' \in Nat, synced <= synced',
           \A i \in 1..synced : file'[i] = file[i], NEW b \in acked
    PROVE  \E k \in KeyRange, v \in StoredValues :
              b = [offset |-> b.offset, key |-> <<k>>, value |-> v] /\ InPlace(b, Block(<<k>>, v))'
<1>1. PICK k \in KeyRange, v \in StoredValues :
        b = [offset |-> b.offset, key |-> <<k>>, value |-> v] /\ InPlace(b, Block(<<k>>, v))
  BY DEF StoreInv
<1>2. InPlace(b, Block(<<k>>, v))'
  BY <1>1, BlocksStay
<1>3. QED
  BY <1>1, <1>2

\* write_block, every write complete: the block is acknowledged and in place.
LEMMA WriteKeeps ==
    ASSUME StoreInv, NEW k \in KeyRange, NEW v \in StoredValues, write_block(<<k>>, v)
    PROVE  StoreInv'
<1>. DEFINE c == Block(<<k>>, v)
            new == [offset |-> size, key |-> <<k>>, value |-> v]
<1>1. c \in Seq(FileCells) /\ Len(c) \in Nat
  BY BlockCells
<1>2. /\ file' = file \o c /\ size' = size + Len(c) /\ synced' = Len(file \o c)
      /\ acked' = (IF torn THEN acked ELSE acked \cup {new}) /\ torn' = torn
  BY DEF write_block
<1>. HIDE DEF c
<1>3. /\ file \in Seq(FileCells) /\ synced \in 0..Len(file) /\ size \in Nat /\ torn \in BOOLEAN
      /\ Len(file) \in Nat /\ (~torn => size = Len(file))
  BY DEF StoreInv
<1>4. /\ file' \in Seq(FileCells) /\ Len(file') = Len(file) + Len(c)
      /\ \A i \in 1..Len(file) : file'[i] = file[i]
      /\ \A i \in 1..Len(c) : file'[Len(file) + i] = c[i]
  BY <1>1, <1>2, <1>3, FileGrows
<1>5. synced' = Len(file') /\ synced' \in Nat /\ synced <= synced' /\ synced' \in 0..Len(file')
      /\ \A i \in 1..synced : i \in 1..Len(file)
  BY <1>1, <1>2, <1>3, <1>4
<1>6. size' \in Nat /\ torn' \in BOOLEAN /\ (~torn' => size' = Len(file'))
  BY <1>1, <1>2, <1>3, <1>4
<1>7. \A i \in 1..synced : file'[i] = file[i]
  BY <1>4, <1>5
<1>8. ASSUME NEW b \in acked'
      PROVE  \E kk \in KeyRange, vv \in StoredValues :
               b = [offset |-> b.offset, key |-> <<kk>>, value |-> vv] /\ InPlace(b, Block(<<kk>>, vv))'
  <2>1. CASE b \in acked
    BY <1>5, <1>7, <2>1, AckedStay
  <2>2. CASE b \notin acked
    <3>1. ~torn /\ b = new
      BY <1>2, <2>2
    <3>2. b.offset = Len(file) /\ b = [offset |-> b.offset, key |-> <<k>>, value |-> v]
      BY <1>3, <3>1
    <3>3. b.offset \in Nat /\ b.offset + Len(c) <= synced' /\ \A i \in 1..Len(c) : file'[b.offset + i] = c[i]
      BY <1>1, <1>3, <1>4, <1>5, <3>2
    <3>4. InPlace(b, c)'
      BY <3>3 DEF InPlace, c
    <3>5. QED
      BY <3>2, <3>4 DEF c
  <2>3. QED
    BY <2>1, <2>2
<1>9. QED
  BY <1>4, <1>5, <1>6, <1>8 DEF StoreInv

\* A write that stops after n cells leaves the file torn, and the acknowledged blocks in place.
LEMMA FailureKeeps ==
    ASSUME StoreInv, NEW k \in KeyRange, NEW v \in StoredValues,
           NEW n \in 0..Len(Block(<<k>>, v)), WriteFails(<<k>>, v, n)
    PROVE  StoreInv'
<1>. DEFINE c == Block(<<k>>, v)
            d == IF n = 0 THEN << <<"torn">> >> ELSE SubSeq(c, 1, n)
<1>1. c \in Seq(FileCells) /\ Len(c) \in Nat /\ Len(c) # 0
  <2>1. Len(v) \in Nat /\ Len(c) = Len(v) + 2 /\ c \in Seq(FileCells)
    BY BlockCells
  <2>. HIDE DEF c
  <2>2. QED
    BY <2>1
<1>2. /\ file' = file \o d /\ size' = (IF n = Len(c) THEN size + n ELSE size)
      /\ torn' = (torn \/ n < Len(c)) /\ synced' = synced /\ acked' = acked
  BY DEF WriteFails
<1>3. d \in Seq(FileCells) /\ Len(d) = (IF n = 0 THEN 1 ELSE n)
  <2>1. CASE n = 0
    <3>1. <<"torn">> \in FileCells
      BY DEF FileCells
    <3>2. QED
      BY <2>1, <3>1
  <2>2. CASE n # 0
    <3>. HIDE DEF c
    <3>1. n \in 1..Len(c)
      BY <2>2 DEF c
    <3>2. SubSeq(c, 1, n) \in Seq(FileCells) /\ Len(SubSeq(c, 1, n)) = n
      BY <1>1, <3>1
    <3>3. QED
      BY <2>2, <3>2
  <2>3. QED
    BY <2>1, <2>2
<1>4. n \in 0..Len(c)
  OBVIOUS
<1>. HIDE DEF c, d
<1>5. /\ file \in Seq(FileCells) /\ synced \in 0..Len(file) /\ size \in Nat /\ torn \in BOOLEAN
      /\ Len(file) \in Nat /\ (~torn => size = Len(file))
  BY DEF StoreInv
<1>6. /\ file' \in Seq(FileCells) /\ Len(file') = Len(file) + Len(d)
      /\ \A i \in 1..Len(file) : file'[i] = file[i]
  BY <1>2, <1>3, <1>5, FileGrows
<1>7. /\ synced' \in 0..Len(file') /\ synced' \in Nat /\ synced <= synced'
      /\ \A i \in 1..synced : i \in 1..Len(file)
  BY <1>1, <1>2, <1>3, <1>4, <1>5, <1>6
<1>8. size' \in Nat /\ torn' \in BOOLEAN /\ (~torn' => size' = Len(file'))
  <2>1. torn' \in BOOLEAN
    BY <1>2
  <2>2. size' \in Nat
    BY <1>1, <1>2, <1>4, <1>5
  <2>3. ASSUME ~torn' PROVE size' = Len(file')
    <3>1. ~torn /\ ~(n < Len(c))
      BY <1>2, <2>3
    <3>2. n = Len(c) /\ n # 0
      BY <1>1, <1>4, <3>1
    <3>3. QED
      BY <1>2, <1>3, <1>5, <1>6, <3>1, <3>2
  <2>4. QED
    BY <2>1, <2>2, <2>3
<1>9. \A i \in 1..synced : file'[i] = file[i]
  BY <1>6, <1>7
<1>10. \A b \in acked' : \E kk \in KeyRange, vv \in StoredValues :
          b = [offset |-> b.offset, key |-> <<kk>>, value |-> vv] /\ InPlace(b, Block(<<kk>>, vv))'
  BY <1>2, <1>7, <1>9, AckedStay
<1>11. QED
  BY <1>6, <1>7, <1>8, <1>10 DEF StoreInv

\* A crash keeps what was synced, and create_data_file finds the end of the file.
LEMMA CrashKeeps ==
    ASSUME StoreInv, NEW kept \in 0..Len(file), create_data_file(kept)
    PROVE  StoreInv'
<1>1. /\ file \in Seq(FileCells) /\ synced \in 0..Len(file) /\ Len(file) \in Nat
  BY DEF StoreInv
<1>2. /\ kept \in synced..Len(file) /\ file' = SubSeq(file, 1, kept) /\ acked' = acked
      /\ synced' = kept /\ size' = kept /\ torn' = FALSE
  BY DEF create_data_file
<1>3. /\ file' \in Seq(FileCells) /\ Len(file') = kept /\ kept \in Nat
      /\ \A i \in 1..kept : file'[i] = file[i]
  BY <1>1, <1>2
<1>4. synced' \in Nat /\ synced <= synced' /\ synced' \in 0..Len(file') /\ \A i \in 1..synced : i \in 1..kept
  BY <1>1, <1>2, <1>3
<1>5. \A i \in 1..synced : file'[i] = file[i]
  BY <1>3, <1>4
<1>6. \A b \in acked' : \E kk \in KeyRange, vv \in StoredValues :
          b = [offset |-> b.offset, key |-> <<kk>>, value |-> vv] /\ InPlace(b, Block(<<kk>>, vv))'
  BY <1>2, <1>4, <1>5, AckedStay
<1>7. QED
  BY <1>2, <1>3, <1>4, <1>6 DEF StoreInv

\* Steps that leave the file alone.
LEMMA StoreUntouched ==
    ASSUME StoreInv, UNCHANGED store
    PROVE  StoreInv'
BY DEF StoreInv, store, InPlace

(***************************************************************************)
(* StoreInv holds in every state of the data file: every block that was    *)
(* acknowledged lies whole in the part that fsync has made permanent.      *)
(***************************************************************************)
THEOREM StoreInvariance == KvSpec => []StoreInv
<1>1. KvInit => StoreInv
  <2>. SUFFICES ASSUME KvInit PROVE StoreInv
    OBVIOUS
  <2>1. file = <<>> /\ synced = 0 /\ size = 0 /\ torn = FALSE /\ acked = {}
    BY DEF KvInit
  <2>2. <<>> \in Seq(FileCells) /\ Len(<<>>) = 0 /\ 0 \in 0..0
    OBVIOUS
  <2>3. QED
    BY <2>1, <2>2 DEF StoreInv
<1>2. StoreInv /\ [KvNext]_kvars => StoreInv'
  <2>. SUFFICES ASSUME StoreInv, [KvNext]_kvars PROVE StoreInv'
    OBVIOUS
  <2>1. CASE UNCHANGED kvars
    BY <2>1, StoreUntouched DEF kvars
  <2>2. ASSUME NEW key \in KeyRange, NEW value \in StoredValues, NEW height \in random_level,
               kvdb_put(key, value, height)
        PROVE  StoreInv'
    BY <2>2, WriteKeeps DEF kvdb_put
  <2>3. ASSUME NEW key \in KeyRange, NEW value \in StoredValues,
               NEW n \in 0..Len(Block(<<key>>, value)), WriteFails(<<key>>, value, n)
        PROVE  StoreInv'
    BY <2>3, FailureKeeps
  <2>4. ASSUME NEW kept \in 0..Len(file), create_data_file(kept)
        PROVE  StoreInv'
    BY <2>4, CrashKeeps
  <2>5. CASE LinkLevel
    BY <2>5, StoreUntouched DEF LinkLevel
  <2>6. ASSUME NEW key \in KeyRange, skiplist_find(key)
        PROVE  StoreInv'
    BY <2>6, StoreUntouched DEF skiplist_find
  <2>7. CASE FindStep
    BY <2>7, StoreUntouched DEF FindStep
  <2>8. CASE FindEnds
    BY <2>8, StoreUntouched DEF FindEnds
  <2>9. QED
    BY <2>1, <2>2, <2>3, <2>4, <2>5, <2>6, <2>7, <2>8 DEF KvNext
<1>3. QED
  BY <1>1, <1>2, PTL DEF KvSpec

\* read_block gives back a block that is in place: the lengths in its header lead to its
\* key and its value, and the checksum of what it read is the one it stored.
LEMMA BlockIsRead ==
    ASSUME StoreInv, NEW b, NEW k \in KeyRange, NEW v \in StoredValues, InPlace(b, Block(<<k>>, v))
    PROVE  read_block(b.offset) = [status |-> "KVDB_OK", key |-> Cells(<<k>>), value |-> v]
<1>. DEFINE c == Block(<<k>>, v)
            o == b.offset
            header == pread(o, 1)
            key == pread(o + 1, 1)
            value == pread(o + 2, Len(v))
<1>1. file \in Seq(FileCells) /\ Len(file) \in Nat /\ synced \in 0..Len(file)
  BY DEF StoreInv
<1>2. /\ c \in Seq(FileCells) /\ v \in Seq(Nat) /\ Len(v) \in Nat /\ Len(c) = Len(v) + 2
      /\ c[1] = Header(<<k>>, v) /\ c[2] = <<"byte", k>>
      /\ \A i \in 1..Len(v) : c[i + 2] = <<"byte", v[i]>>
  BY BlockCells
<1>. HIDE DEF c
<1>3. o \in Nat /\ o + Len(c) <= synced /\ \A i \in 1..Len(c) : file[o + i] = c[i]
  BY DEF InPlace, c
<1>. HIDE DEF o, header, key, value
<1>4. /\ o + 1 <= Len(file) /\ (o + 1) + 1 <= Len(file) /\ (o + 2) + Len(v) <= Len(file)
      /\ 1 \in 1..Len(c) /\ 2 \in 1..Len(c) /\ (o + 1) + 1 = o + 2
      /\ o + 1 \in 1..Len(file) /\ o + 2 \in 1..Len(file)
      /\ \A i \in 1..Len(v) : i + 2 \in 1..Len(c) /\ (o + 2) + i = o + (i + 2)
  <2>1. Len(c) = Len(v) + 2 /\ Len(v) \in Nat /\ o \in Nat /\ o + Len(c) <= synced /\ synced <= Len(file)
        /\ synced \in Nat /\ Len(file) \in Nat
    BY <1>1, <1>2, <1>3
  <2>2. \A i \in 1..Len(v) : i + 2 \in 1..Len(c) /\ (o + 2) + i = o + (i + 2)
    BY <2>1
  <2>3. QED
    BY <2>1, <2>2
<1>5. header = <<Header(<<k>>, v)>>
  <2>1. header = SubSeq(file, o + 1, o + 1)
    BY <1>4 DEF pread, header
  <2>2. file[o + 1] = Header(<<k>>, v)
    BY <1>2, <1>3, <1>4
  <2>3. QED
    BY <1>1, <1>4, <2>1, <2>2, OneCell
<1>6. key = << <<"byte", k>> >>
  <2>1. key = SubSeq(file, o + 2, o + 2)
    BY <1>4 DEF pread, key
  <2>2. file[o + 2] = <<"byte", k>>
    BY <1>2, <1>3, <1>4
  <2>3. QED
    BY <1>1, <1>4, <2>1, <2>2, OneCell
<1>7. Len(value) = Len(v) /\ DOMAIN value = 1..Len(v) /\ \A i \in 1..Len(v) : value[i] = <<"byte", v[i]>>
  <2>. DEFINE a == o + 2
  <2>1. value = SubSeq(file, a + 1, a + Len(v))
    BY <1>4 DEF pread, value
  <2>2. \A i \in 1..Len(v) : file[a + i] = <<"byte", v[i]>>
    BY <1>2, <1>3, <1>4
  <2>3. a \in Nat /\ a + Len(v) <= Len(file)
    BY <1>3, <1>4
  <2>. HIDE DEF a
  <2>4. value \in Seq(FileCells) /\ Len(value) = Len(v) /\ \A i \in 1..Len(v) : value[i] = file[a + i]
    BY <1>1, <1>2, <2>1, <2>3, FilePiece
  <2>5. QED
    BY <2>2, <2>4
<1>8. /\ header # <<>> /\ header[1][1] = "header" /\ header[1][2] = 1 /\ header[1][3] = Len(v)
      /\ header[1][4] = calculate_checksum(v)
  BY <1>5 DEF Header
<1>9. Len(key) = 1 /\ key = Cells(<<k>>)
  BY <1>6 DEF Cells
<1>10. \A i \in DOMAIN value : value[i][1] = "byte" /\ value[i][2] = v[i]
  BY <1>7
<1>11. Bytes(value) = v
  BY <1>2, <1>7, <1>10 DEF Bytes
<1>12. pread(o, 1) = header /\ pread(o + 1, header[1][2]) = key /\ pread(o + 1 + Len(key), header[1][3]) = value
  BY <1>4, <1>8, <1>9 DEF header, key, value
<1>13. /\ ~(Len(key) # header[1][2] \/ Len(value) # header[1][3])
       /\ ~\E i \in DOMAIN value : value[i][1] # "byte"
       /\ calculate_checksum(Bytes(value)) = header[1][4]
  BY <1>7, <1>8, <1>9, <1>10, <1>11
<1>. DEFINE answer(h, x, y) ==
              IF h = <<>> THEN IO
              ELSE IF h[1][1] # "header" THEN CORRUPT
              ELSE IF Len(x) # h[1][2] \/ Len(y) # h[1][3] THEN IO
              ELSE IF \E i \in DOMAIN y : y[i][1] # "byte" THEN CORRUPT
              ELSE IF calculate_checksum(Bytes(y)) # h[1][4] THEN CORRUPT
              ELSE [status |-> "KVDB_OK", key |-> x, value |-> Bytes(y)]
<1>14. read_block(o) = answer(pread(o, 1), pread(o + 1, pread(o, 1)[1][2]),
                              pread(o + 1 + Len(pread(o + 1, pread(o, 1)[1][2])), pread(o, 1)[1][3]))
  BY DEF read_block
<1>15. read_block(o) = answer(header, key, value)
  <2>. HIDE DEF answer
  <2>1. QED
    BY <1>12, <1>14
<1>16. answer(header, key, value) = [status |-> "KVDB_OK", key |-> Cells(<<k>>), value |-> v]
  BY <1>8, <1>9, <1>11, <1>13
<1>17. QED
  BY <1>15, <1>16 DEF o

(***************************************************************************)
(* A block whose write was acknowledged can be read back for ever, for all *)
(* keys and values, however many writes fail and however often the machine *)
(* stops.                                                                  *)
(***************************************************************************)
THEOREM AcknowledgedBlocksAreReadable == KvSpec => []AckedReadable
<1>1. StoreInv => AckedReadable
  <2>. SUFFICES ASSUME StoreInv, NEW b \in acked
                PROVE  read_block(b.offset) =
                         [status |-> "KVDB_OK", key |-> Cells(b.key), value |-> b.value]
    BY DEF AckedReadable
  <2>1. PICK k \in KeyRange, v \in StoredValues :
          b = [offset |-> b.offset, key |-> <<k>>, value |-> v] /\ InPlace(b, Block(<<k>>, v))
    BY DEF StoreInv
  <2>2. b.key = <<k>> /\ b.value = v
    BY <2>1
  <2>3. QED
    BY <2>1, <2>2, BlockIsRead
<1>2. QED
  BY <1>1, StoreInvariance, PTL

-----------------------------------------------------------------------------
(* The index of the key-value database. *)

\* The next node of n on level i is to the right of it.
Rightward(fw, n, i, S) == fw[n][i] = None \/ (fw[n][i] \in S /\ n < fw[n][i])

\* The search for key stops at n on level i.
StopsAt(fw, n, i, key) == fw[n][i] = None \/ ~(fw[n][i] < key)

\* The lowest level holds the keys S in their order: no key of S is passed over.
InOrder(fw, S) ==
    /\ S \subseteq KeyRange
    /\ \A n \in S \cup {0} : Rightward(fw, n, 1, S)
    /\ \A n \in S \cup {0}, k \in S : n < k => fw[n][1] # None /\ fw[n][1] <= k

\* The pointers lead to the right, on every level to keys of the lowest level.
PointersInv ==
    /\ forward \in [Nodes -> [1..MAX_LEVEL -> KeyRange \cup {None}]]
    /\ level \in 1..MAX_LEVEL
    /\ InOrder(forward, Linked)
    /\ \A n \in Linked \cup {0}, i \in 1..MAX_LEVEL : Rightward(forward, n, i, Linked)
    /\ \A n \in KeyRange \ Linked, i \in 1..MAX_LEVEL : forward[n][i] = None
    /\ \A i \in 1..MAX_LEVEL : i > level => forward[0][i] = None

\* On the levels that are still to be linked the new node belongs behind update[i].
InsertInv ==
    insert # None =>
        /\ DOMAIN insert = {"key", "height", "next", "update"}
        /\ insert.key \in KeyRange /\ insert.height \in 1..level /\ insert.next \in 1..insert.height
        /\ insert.key \in Linked <=> insert.next > 1
        /\ \A i \in insert.next..insert.height :
              /\ insert.update[i] \in Linked \cup {0} /\ insert.update[i] < insert.key
              /\ StopsAt(forward, insert.update[i], i, insert.key)
              /\ forward[insert.update[i]][i] # insert.key

\* The find under way is at a node of the list, to the left of its key.
FindInv ==
    find # None =>
        /\ DOMAIN find = {"key", "node", "i", "result", "present", "quiet"}
        /\ find.key \in KeyRange /\ find.node \in Linked \cup {0} /\ find.node < find.key
        /\ find.i \in 0..MAX_LEVEL
        /\ find.quiet /\ find.present => find.key \in Linked
        /\ find.quiet /\ find.i = 0 => StopsAt(forward, find.node, 1, find.key)
        /\ find.result # None => find.i = 0
        /\ find.result = "found" => find.key \in Linked
        /\ find.result = "missing" => ~(find.quiet /\ find.present)

IndexInv == PointersInv /\ InsertInv /\ FindInv

-----------------------------------------------------------------------------
(* The list on the lowest level. *)

\* Numbers.
LEMMA NodeNumbers ==
    /\ \A n \in Nodes : n \in Nat
    /\ \A k \in KeyRange : k \in Nat /\ k # 0 /\ k \in Nodes /\ k # None
    /\ 0 \in Nodes /\ None # 0
BY KvAssumption DEF Nodes

\* The keys that the pointers fw of the lowest level lead to.
LinkedBy(fw) ==
    {k \in KeyRange :
        \A S \in SUBSET Nodes :
            0 \in S /\ (\A n \in S : fw[n][1] \in S \cup {None}) => k \in S}

\* A set of keys in order is the set of keys that the lowest level leads to.
LEMMA OrderGivesLinked ==
    ASSUME NEW fw, NEW S, InOrder(fw, S)
    PROVE  LinkedBy(fw) = S
<1>0. S \subseteq KeyRange
  BY DEF InOrder
<1>1. ASSUME NEW k \in LinkedBy(fw) PROVE k \in S
  <2>1. S \cup {0} \in SUBSET Nodes
    BY <1>0 DEF Nodes
  <2>2. \A n \in S \cup {0} : fw[n][1] \in (S \cup {0}) \cup {None}
    BY DEF InOrder, Rightward
  <2>3. k \in S \cup {0} /\ k \in KeyRange
    BY <2>1, <2>2 DEF LinkedBy
  <2>4. QED
    BY <2>3, NodeNumbers
<1>2. ASSUME NEW k \in S PROVE k \in LinkedBy(fw)
  <2>1. k \in KeyRange /\ k \in Nat /\ k # 0
    BY <1>0, NodeNumbers
  <2>2. SUFFICES ASSUME NEW T \in SUBSET Nodes, 0 \in T,
                        \A n \in T : fw[n][1] \in T \cup {None}, k \notin T
                 PROVE  FALSE
    BY <2>1 DEF LinkedBy
  <2>. DEFINE D == {n \in T : n \in S \cup {0} /\ n < k}
              H == {k - n : n \in D}
  <2>3. \A n \in D : n \in Nat /\ n < k
    BY NodeNumbers
  <2>4. H \in SUBSET Nat
    BY <2>1, <2>3
  <2>5. 0 \in D
    BY <2>1, <2>2
  <2>6. PICK h \in H : \A j \in H : h <= j
    <3>1. H # {}
      BY <2>5
    <3>. HIDE DEF H
    <3>2. QED
      BY <2>4, <3>1, Least
  <2>7. PICK n \in D : h = k - n
    OBVIOUS
  <2>8. n \in S \cup {0} /\ n < k /\ n \in T
    OBVIOUS
  <2>9. fw[n][1] # None /\ fw[n][1] <= k /\ fw[n][1] \in S /\ n < fw[n][1]
    BY <2>8 DEF InOrder, Rightward
  <2>. DEFINE f == fw[n][1]
  <2>10. f \in T /\ f \in Nat /\ f # k
    <3>1. f \in T
      BY <2>2, <2>8, <2>9
    <3>2. QED
      BY <2>2, <3>1, NodeNumbers
  <2>11. f < k
    BY <2>1, <2>9, <2>10
  <2>12. f \in D
    BY <2>9, <2>10, <2>11
  <2>13. k - n <= k - f
    BY <2>6, <2>7, <2>12
  <2>14. n \in Nat /\ n < f
    BY <2>3, <2>9
  <2>. HIDE DEF f
  <2>15. QED
    BY <2>1, <2>10, <2>13, <2>14
<1>3. QED
  BY <1>1, <1>2

-----------------------------------------------------------------------------
(* The search. *)

Step(g, n, i, key) ==
    IF forward[n][i] # None /\ forward[n][i] < key THEN g[forward[n][i]] ELSE n

\* Every pointer leads to the right, if it leads anywhere.
LEMMA AllRightward ==
    ASSUME PointersInv, NEW n \in Nodes, NEW i \in 1..MAX_LEVEL, forward[n][i] # None
    PROVE  forward[n][i] \in Nodes /\ forward[n][i] \in Nat /\ n \in Nat /\ n < forward[n][i]
<1>1. n \in Linked \cup {0}
  BY DEF PointersInv, Nodes
<1>2. forward[n][i] \in Linked /\ n < forward[n][i]
  BY <1>1 DEF PointersInv, Rightward
<1>3. QED
  BY <1>2, NodeNumbers DEF Linked

\* The loop along a level ends: Along is the function that its recursion describes.
LEMMA AlongSolves ==
    ASSUME PointersInv, NEW i \in 1..MAX_LEVEL, NEW key \in KeyRange
    PROVE  Along(i, key) = [n \in Nodes |-> Step(Along(i, key), n, i, key)]
<1>. DEFINE Good(g, j) == \A n \in Nodes : n + j >= key => g[n] = Step(g, n, i, key)
            H == {j \in Nat : ~\E g : Good(g, j)}
<1>1. key \in Nat /\ \A n \in Nodes : n \in Nat
  BY NodeNumbers
<1>2. ASSUME H # {} PROVE FALSE
  <2>1. PICK k \in H : \A j \in H : k <= j
    BY <1>2, Least
  <2>2. k \in Nat /\ ~\E g : Good(g, k)
    OBVIOUS
  <2>3. CASE k = 0
    <3>. DEFINE g == [n \in Nodes |-> n]
    <3>1. ASSUME NEW n \in Nodes, n + k >= key PROVE g[n] = Step(g, n, i, key)
      <4>1. ~(forward[n][i] # None /\ forward[n][i] < key)
        BY <1>1, <2>3, <3>1, AllRightward
      <4>2. QED
        BY <4>1 DEF Step
    <3>2. QED
      BY <2>2, <3>1
  <2>4. CASE k # 0
    <3>1. k - 1 \in Nat /\ ~(k <= k - 1)
      BY <2>2, <2>4
    <3>2. PICK g : Good(g, k - 1)
      BY <2>1, <3>1
    <3>. DEFINE more == [n \in Nodes |-> IF n + (k - 1) >= key THEN g[n] ELSE Step(g, n, i, key)]
    <3>3. ASSUME NEW n \in Nodes, n + k >= key PROVE more[n] = Step(more, n, i, key)
      <4>1. more[n] = Step(g, n, i, key)
        BY <3>2
      <4>2. CASE forward[n][i] # None /\ forward[n][i] < key
        <5>. DEFINE f == forward[n][i]
        <5>1. f \in Nodes /\ f \in Nat /\ n < f
          BY <4>2, AllRightward
        <5>. HIDE DEF f
        <5>2. f + (k - 1) >= key
          BY <1>1, <2>2, <3>3, <5>1
        <5>3. more[f] = g[f]
          BY <5>1, <5>2
        <5>. HIDE DEF more
        <5>4. QED
          BY <4>1, <4>2, <5>3 DEF Step, f
      <4>3. CASE ~(forward[n][i] # None /\ forward[n][i] < key)
        BY <4>1, <4>3 DEF Step
      <4>4. QED
        BY <4>2, <4>3
    <3>. HIDE DEF more
    <3>4. Good(more, k)
      BY <3>3
    <3>5. QED
      BY <2>2, <3>4
  <2>5. QED
    BY <2>3, <2>4
<1>3. PICK g : Good(g, key)
  BY <1>1, <1>2
<1>4. ASSUME NEW n \in Nodes PROVE g[n] = Step(g, n, i, key)
  <2>1. n + key >= key
    BY <1>1
  <2>2. QED
    BY <1>3, <2>1
<1>. DEFINE f == [n \in Nodes |-> g[n]]
<1>5. ASSUME NEW n \in Nodes PROVE f[n] = Step(f, n, i, key)
  <2>1. CASE forward[n][i] # None /\ forward[n][i] < key
    <3>1. forward[n][i] \in Nodes
      BY <2>1, AllRightward
    <3>2. QED
      BY <1>4, <2>1, <3>1 DEF Step
  <2>2. CASE ~(forward[n][i] # None /\ forward[n][i] < key)
    BY <1>4, <2>2 DEF Step
  <2>3. QED
    BY <2>1, <2>2
<1>6. f = [n \in Nodes |-> f[n]]
  OBVIOUS
<1>. HIDE DEF f
<1>7. f = [n \in Nodes |-> Step(f, n, i, key)]
  BY <1>5, <1>6, Zenon
<1>8. \E a : a = [n \in Nodes |-> IF forward[n][i] # None /\ forward[n][i] < key
                                  THEN a[forward[n][i]] ELSE n]
  BY <1>7 DEF Step
<1>9. Along(i, key) = CHOOSE a : a = [n \in Nodes |-> IF forward[n][i] # None /\ forward[n][i] < key
                                                      THEN a[forward[n][i]] ELSE n]
  BY DEF Along
<1>10. QED
  BY <1>8, <1>9 DEF Step

\* It ends at a node of the list, to the left of the key, whose next node is not.
LEMMA AlongStops ==
    ASSUME PointersInv, NEW i \in 1..MAX_LEVEL, NEW key \in KeyRange,
           NEW n \in Linked \cup {0}, n < key
    PROVE  /\ Along(i, key)[n] \in Linked \cup {0} /\ Along(i, key)[n] < key
           /\ StopsAt(forward, Along(i, key)[n], i, key)
<1>. DEFINE A == Along(i, key)
            Fine(m) == A[m] \in Linked \cup {0} /\ A[m] < key /\ StopsAt(forward, A[m], i, key)
            D == {m \in Linked \cup {0} : m < key /\ ~Fine(m)}
            H == {key - m : m \in D}
<1>1. SUFFICES ASSUME D # {} PROVE FALSE
  OBVIOUS
<1>2. \A m \in Linked \cup {0} : m \in Nodes /\ m \in Nat
  BY NodeNumbers DEF Linked
<1>3. key \in Nat
  BY NodeNumbers
<1>4. A = [m \in Nodes |-> Step(A, m, i, key)]
  BY AlongSolves
<1>. HIDE DEF A
<1>5. H \in SUBSET Nat
  BY <1>2, <1>3
<1>6. PICK h \in H : \A j \in H : h <= j
  <2>1. H # {}
    BY <1>1
  <2>. HIDE DEF H
  <2>2. QED
    BY <1>5, <2>1, Least
<1>7. PICK m \in D : h = key - m
  OBVIOUS
<1>8. m \in Linked \cup {0} /\ m < key /\ ~Fine(m) /\ m \in Nodes /\ m \in Nat
  BY <1>2
<1>9. A[m] = Step(A, m, i, key)
  BY <1>4, <1>8
<1>10. CASE forward[m][i] # None /\ forward[m][i] < key
  <2>. DEFINE f == forward[m][i]
  <2>1. f \in Linked /\ m < f
    BY <1>8, <1>10 DEF PointersInv, Rightward
  <2>2. f \in Nat /\ f < key
    BY <1>2, <1>10, <2>1
  <2>3. A[m] = A[f]
    BY <1>9, <1>10 DEF Step
  <2>. HIDE DEF f
  <2>4. f \in D
    BY <1>8, <2>1, <2>2, <2>3
  <2>5. key - m <= key - f
    BY <1>6, <1>7, <2>4
  <2>6. QED
    BY <1>3, <1>8, <2>1, <2>2, <2>5
<1>11. CASE ~(forward[m][i] # None /\ forward[m][i] < key)
  <2>1. A[m] = m
    BY <1>9, <1>11 DEF Step
  <2>2. Fine(m)
    BY <1>8, <1>11, <2>1 DEF StopsAt
  <2>3. QED
    BY <1>8, <2>2
<1>12. QED
  BY <1>10, <1>11

\* update, computed from the top level down.
UpdateStep(g, j, key) == Along(j, key)[IF j >= level THEN 0 ELSE g[j + 1]]

\* The loop over the levels computes update.
LEMMA UpdateSolves ==
    ASSUME PointersInv, NEW key \in KeyRange
    PROVE  \E g : /\ \A j \in 1..MAX_LEVEL : g[j] = UpdateStep(g, j, key)
                  /\ \A j \in 1..MAX_LEVEL : Update(j, key) = g[j]
<1>. DEFINE Good(g, d) == \A j \in 1..MAX_LEVEL : j + d >= level => g[j] = UpdateStep(g, j, key)
            H == {d \in Nat : ~\E g : Good(g, d)}
<1>1. level \in Nat /\ level \in 1..MAX_LEVEL /\ MAX_LEVEL \in Nat
  BY KvAssumption DEF PointersInv
<1>2. ASSUME H # {} PROVE FALSE
  <2>1. PICK k \in H : \A d \in H : k <= d
    BY <1>2, Least
  <2>2. k \in Nat /\ ~\E g : Good(g, k)
    OBVIOUS
  <2>3. CASE k = 0
    <3>. DEFINE g == [j \in 1..MAX_LEVEL |-> Along(j, key)[0]]
    <3>1. ASSUME NEW j \in 1..MAX_LEVEL, j + k >= level PROVE g[j] = UpdateStep(g, j, key)
      <4>1. j >= level
        BY <1>1, <2>3, <3>1
      <4>2. QED
        BY <4>1 DEF UpdateStep
    <3>2. QED
      BY <2>2, <3>1
  <2>4. CASE k # 0
    <3>1. k - 1 \in Nat /\ ~(k <= k - 1)
      BY <2>2, <2>4
    <3>2. PICK g : Good(g, k - 1)
      BY <2>1, <3>1
    <3>. DEFINE more == [j \in 1..MAX_LEVEL |-> IF j + (k - 1) >= level THEN g[j] ELSE UpdateStep(g, j, key)]
    <3>3. ASSUME NEW j \in 1..MAX_LEVEL, j + k >= level PROVE more[j] = UpdateStep(more, j, key)
      <4>1. more[j] = UpdateStep(g, j, key)
        BY <3>2
      <4>2. CASE j >= level
        BY <4>1, <4>2 DEF UpdateStep
      <4>3. CASE ~(j >= level)
        <5>1. j + 1 \in 1..MAX_LEVEL /\ (j + 1) + (k - 1) >= level
          BY <1>1, <2>2, <3>3, <4>3
        <5>2. more[j + 1] = g[j + 1]
          BY <5>1
        <5>. HIDE DEF more
        <5>3. QED
          BY <4>1, <4>3, <5>2 DEF UpdateStep
      <4>4. QED
        BY <4>2, <4>3
    <3>. HIDE DEF more
    <3>4. Good(more, k)
      BY <3>3
    <3>5. QED
      BY <2>2, <3>4
  <2>5. QED
    BY <2>3, <2>4
<1>3. PICK g : Good(g, level)
  BY <1>1, <1>2
<1>4. ASSUME NEW j \in 1..MAX_LEVEL PROVE g[j] = UpdateStep(g, j, key)
  <2>1. j + level >= level
    BY <1>1
  <2>2. QED
    BY <1>3, <2>1
<1>. DEFINE f == [j \in 1..MAX_LEVEL |-> g[j]]
<1>5. ASSUME NEW j \in 1..MAX_LEVEL PROVE f[j] = UpdateStep(f, j, key)
  <2>1. CASE j >= level
    BY <1>4, <2>1 DEF UpdateStep
  <2>2. CASE ~(j >= level)
    <3>1. j + 1 \in 1..MAX_LEVEL
      BY <1>1, <2>2
    <3>2. QED
      BY <1>4, <2>2, <3>1 DEF UpdateStep
  <2>3. QED
    BY <2>1, <2>2
<1>6. f = [j \in 1..MAX_LEVEL |-> f[j]]
  OBVIOUS
<1>. HIDE DEF f
<1>7. f = [j \in 1..MAX_LEVEL |-> UpdateStep(f, j, key)]
  BY <1>5, <1>6, Zenon
<1>. DEFINE u == CHOOSE a : a = [j \in 1..MAX_LEVEL |-> Along(j, key)[IF j >= level THEN 0 ELSE a[j + 1]]]
<1>8. \E a : a = [j \in 1..MAX_LEVEL |-> Along(j, key)[IF j >= level THEN 0 ELSE a[j + 1]]]
  BY <1>7 DEF UpdateStep
<1>9. u = [j \in 1..MAX_LEVEL |-> Along(j, key)[IF j >= level THEN 0 ELSE u[j + 1]]]
  BY <1>8
<1>10. \A j : Update(j, key) = u[j]
  BY DEF Update
<1>. HIDE DEF u
<1>11. \A j \in 1..MAX_LEVEL : u[j] = UpdateStep(u, j, key)
  BY <1>9, Zenon DEF UpdateStep
<1>12. QED
  BY <1>10, <1>11

\* On every level update is a node of the list, to the left of the key, where the search stops.
LEMMA UpdateStops ==
    ASSUME PointersInv, NEW key \in KeyRange, NEW i \in 1..MAX_LEVEL
    PROVE  /\ Update(i, key) \in Linked \cup {0} /\ Update(i, key) < key
           /\ StopsAt(forward, Update(i, key), i, key)
<1>1. PICK g : /\ \A j \in 1..MAX_LEVEL : g[j] = UpdateStep(g, j, key)
               /\ \A j \in 1..MAX_LEVEL : Update(j, key) = g[j]
  BY UpdateSolves
<1>. DEFINE Fine(j) == g[j] \in Linked \cup {0} /\ g[j] < key /\ StopsAt(forward, g[j], j, key)
            H == {d \in Nat : \E j \in 1..MAX_LEVEL : j + d >= level /\ ~Fine(j)}
<1>2. level \in Nat /\ level \in 1..MAX_LEVEL /\ MAX_LEVEL \in Nat
  BY KvAssumption DEF PointersInv
<1>3. key \in Nat /\ key # 0
  BY NodeNumbers
<1>4. ASSUME H # {} PROVE FALSE
  <2>1. PICK k \in H : \A d \in H : k <= d
    BY <1>4, Least
  <2>2. PICK j \in 1..MAX_LEVEL : j + k >= level /\ ~Fine(j)
    OBVIOUS
  <2>3. g[j] = UpdateStep(g, j, key)
    BY <1>1
  <2>4. CASE j >= level
    <3>1. g[j] = Along(j, key)[0]
      BY <2>3, <2>4 DEF UpdateStep
    <3>2. 0 < key
      BY <1>3
    <3>3. QED
      BY <2>2, <3>1, <3>2, AlongStops
  <2>5. CASE ~(j >= level)
    <3>1. g[j] = Along(j, key)[g[j + 1]]
      BY <2>3, <2>5 DEF UpdateStep
    <3>2. j + 1 \in 1..MAX_LEVEL /\ k - 1 \in Nat /\ ~(k <= k - 1) /\ (j + 1) + (k - 1) >= level
      BY <1>2, <2>2, <2>5
    <3>3. k - 1 \notin H
      BY <2>1, <3>2
    <3>4. Fine(j + 1)
      BY <3>2, <3>3
    <3>5. QED
      BY <2>2, <3>1, <3>4, AlongStops
  <2>6. QED
    BY <2>4, <2>5
<1>5. i + level >= level
  BY <1>2
<1>6. level \notin H
  BY <1>4
<1>7. Fine(i)
  BY <1>2, <1>5, <1>6
<1>8. QED
  BY <1>1, <1>7

-----------------------------------------------------------------------------
(* The steps. *)

\* Linked is what the pointers lead to, before and after a step.
LEMMA LinkedIs == Linked = LinkedBy(forward) /\ Linked' = LinkedBy(forward')
BY DEF Linked, LinkedBy

\* The list stays, its level may rise.
LEMMA ListStays ==
    ASSUME PointersInv, forward' = forward, level' \in 1..MAX_LEVEL, level' >= level
    PROVE  PointersInv' /\ Linked' = Linked
<1>1. Linked' = Linked
  BY LinkedIs
<1>2. \A i \in 1..MAX_LEVEL : i > level' => i > level
  BY KvAssumption DEF PointersInv
<1>3. QED
  BY <1>1, <1>2 DEF PointersInv

\* An insertion that starts or goes on disturbs the find and takes no key out of the list.
LEMMA DisturbedFind ==
    ASSUME FindInv, DisturbFind, Linked \subseteq Linked'
    PROVE  FindInv'
<1>. SUFFICES ASSUME find' # None
     PROVE  /\ DOMAIN find' = {"key", "node", "i", "result", "present", "quiet"}
            /\ find'.key \in KeyRange /\ find'.node \in Linked' \cup {0} /\ find'.node < find'.key
            /\ find'.i \in 0..MAX_LEVEL /\ ~find'.quiet
            /\ find'.result # None => find'.i = 0
            /\ find'.result = "found" => find'.key \in Linked'
  BY DEF FindInv
<1>1. find # None /\ find' = [find EXCEPT !.quiet = FALSE]
  BY DEF DisturbFind
<1>2. /\ DOMAIN find = {"key", "node", "i", "result", "present", "quiet"}
      /\ find.key \in KeyRange /\ find.node \in Linked \cup {0} /\ find.node < find.key
      /\ find.i \in 0..MAX_LEVEL /\ (find.result # None => find.i = 0)
      /\ (find.result = "found" => find.key \in Linked)
  BY <1>1 DEF FindInv
<1>3. /\ DOMAIN find' = DOMAIN find /\ find'.key = find.key /\ find'.node = find.node /\ find'.i = find.i
      /\ find'.result = find.result /\ find'.quiet = FALSE
  BY <1>1, <1>2
<1>4. QED
  BY <1>2, <1>3

\* An insertion that starts: no node of the key is in the list.
LEMMA NewKey ==
    ASSUME PointersInv, NEW key \in KeyRange, forward[Update(1, key)][1] # key
    PROVE  key \notin Linked
<1>1. 1 \in 1..MAX_LEVEL /\ key \in Nat
  BY KvAssumption
<1>. DEFINE u == Update(1, key)
<1>2. u \in Linked \cup {0} /\ u < key /\ StopsAt(forward, u, 1, key)
  BY <1>1, UpdateStops
<1>3. ASSUME key \in Linked PROVE FALSE
  <2>1. forward[u][1] # None /\ forward[u][1] <= key /\ forward[u][1] \in Linked
    BY <1>2, <1>3 DEF PointersInv, InOrder, Rightward
  <2>2. forward[u][1] \in Nat
    BY <2>1, NodeNumbers DEF Linked
  <2>3. ~(forward[u][1] < key)
    BY <1>2, <2>1 DEF StopsAt
  <2>4. QED
    BY <1>1, <2>1, <2>2, <2>3
<1>4. QED
  BY <1>3

\* kvdb_put: the place of the new node on each level is found under the lock.
LEMMA PutKeeps ==
    ASSUME IndexInv, NEW key \in KeyRange, NEW value \in StoredValues, NEW height \in random_level,
           kvdb_put(key, value, height)
    PROVE  IndexInv'
<1>1. PointersInv /\ InsertInv /\ FindInv /\ insert = None
  BY DEF IndexInv, kvdb_put
<1>2. level \in 1..MAX_LEVEL /\ MAX_LEVEL \in Nat /\ height \in 1..MAX_LEVEL
  BY <1>1, KvAssumption DEF PointersInv, random_level
<1>3. forward' = forward /\ level' \in 1..MAX_LEVEL /\ level' >= level
  BY <1>2 DEF kvdb_put, skiplist_insert
<1>4. PointersInv' /\ Linked' = Linked
  BY <1>1, <1>3, ListStays
<1>5. FindInv'
  BY <1>1, <1>4, DisturbedFind DEF kvdb_put
<1>6. InsertInv'
  <2>1. CASE insert' = None
    BY <2>1 DEF InsertInv
  <2>2. CASE insert' # None
    <3>. DEFINE up == [i \in 1..height |-> IF i > level THEN 0 ELSE Update(i, key)]
    <3>1. /\ forward[Update(1, key)][1] # key
          /\ level' = (IF height > level THEN height ELSE level)
          /\ insert' = [key |-> key, height |-> height, next |-> 1, update |-> up]
      BY <1>1, <2>2 DEF kvdb_put, skiplist_insert, create_node
    <3>2. key \notin Linked
      BY <1>1, <3>1, NewKey
    <3>3. ASSUME NEW i \in 1..height
          PROVE  /\ up[i] \in Linked \cup {0} /\ up[i] < key
                 /\ StopsAt(forward, up[i], i, key) /\ forward[up[i]][i] # key
      <4>1. i \in 1..MAX_LEVEL
        BY <1>2
      <4>2. CASE i > level
        <5>1. up[i] = 0 /\ forward[0][i] = None
          BY <1>1, <4>1, <4>2 DEF PointersInv
        <5>2. 0 < key /\ None # key
          BY NodeNumbers
        <5>3. QED
          BY <5>1, <5>2 DEF StopsAt
      <4>3. CASE ~(i > level)
        <5>1. up[i] = Update(i, key)
          BY <4>3
        <5>. HIDE DEF up
        <5>2. up[i] \in Linked \cup {0} /\ up[i] < key /\ StopsAt(forward, up[i], i, key)
          BY <1>1, <4>1, <5>1, UpdateStops
        <5>3. Rightward(forward, up[i], i, Linked)
          BY <1>1, <4>1, <5>2 DEF PointersInv
        <5>4. QED
          BY <3>2, <5>2, <5>3, NodeNumbers DEF Rightward
      <4>4. QED
        BY <4>2, <4>3
    <3>. HIDE DEF up
    <3>4. /\ DOMAIN insert' = {"key", "height", "next", "update"}
          /\ insert'.key = key /\ insert'.height = height /\ insert'.next = 1 /\ insert'.update = up
      BY <3>1
    <3>5. height \in 1..level' /\ 1 \in 1..height /\ ~(1 > 1)
      BY <1>2, <3>1
    <3>6. \A i \in 1..height : /\ up[i] \in Linked' \cup {0} /\ up[i] < key
                               /\ StopsAt(forward', up[i], i, key) /\ forward'[up[i]][i] # key
      BY <1>3, <1>4, <3>3 DEF StopsAt
    <3>7. QED
      BY <1>4, <3>2, <3>4, <3>5, <3>6 DEF InsertInv
  <2>3. QED
    BY <2>1, <2>2
<1>7. QED
  BY <1>4, <1>5, <1>6 DEF IndexInv

\* The machine stops, and the index starts empty.
LEMMA IndexLost ==
    ASSUME NEW kept, create_data_file(kept)
    PROVE  IndexInv'
<1>1. forward' = NewList /\ level' = 1 /\ insert' = None /\ find' = None
  BY DEF create_data_file
<1>2. MAX_LEVEL \in Nat /\ 1 \in 1..MAX_LEVEL /\ 0 \in Nodes
  BY KvAssumption, NodeNumbers
<1>3. \A n \in Nodes, i \in 1..MAX_LEVEL : forward'[n][i] = None
  BY <1>1 DEF NewList
<1>4. InOrder(forward', {})
  BY <1>2, <1>3 DEF InOrder, Rightward
<1>5. Linked' = {}
  BY <1>4, LinkedIs, OrderGivesLinked
<1>6. forward' \in [Nodes -> [1..MAX_LEVEL -> KeyRange \cup {None}]]
  BY <1>1 DEF NewList
<1>7. PointersInv'
  BY <1>1, <1>2, <1>3, <1>4, <1>5, <1>6 DEF PointersInv, Rightward, Nodes
<1>8. QED
  BY <1>1, <1>7 DEF IndexInv, InsertInv, FindInv

\* The node k is linked in behind u on level i.
LinksIn(i, u, k) == forward' = [forward EXCEPT ![k][i] = forward[u][i], ![u][i] = k]

\* A node linked in on one level.
LEMMA LinkKeepsList ==
    ASSUME IndexInv, insert # None, NEW i, NEW u, NEW k,
           i = insert.next, u = insert.update[i], k = insert.key,
           LinksIn(i, u, k), level' = level
    PROVE  PointersInv' /\ Linked' = Linked \cup {k}
<1>. DEFINE S == Linked \cup {k}
<1>1. PointersInv
  BY DEF IndexInv
<1>2. /\ k \in KeyRange /\ insert.height \in 1..level /\ i \in 1..insert.height
      /\ (k \in Linked <=> i > 1) /\ i \in insert.next..insert.height
  <2>1. /\ k \in KeyRange /\ insert.height \in 1..level /\ i \in 1..insert.height
        /\ (k \in Linked <=> i > 1)
    BY DEF IndexInv, InsertInv
  <2>2. QED
    BY <2>1
<1>3. u \in Linked \cup {0} /\ u < k /\ StopsAt(forward, u, i, k) /\ forward[u][i] # k
  BY <1>2 DEF IndexInv, InsertInv
<1>4. level \in 1..MAX_LEVEL /\ MAX_LEVEL \in Nat /\ i \in 1..MAX_LEVEL /\ i <= level
  BY <1>1, <1>2, KvAssumption DEF PointersInv
<1>5. /\ \A n \in Linked \cup {0} : n \in Nodes /\ n \in Nat
      /\ k \in Nodes /\ k \in Nat /\ k # 0 /\ k # None /\ u # k /\ u \in Nodes /\ u \in Nat
  BY <1>2, <1>3, NodeNumbers DEF Linked
<1>6. forward \in [Nodes -> [1..MAX_LEVEL -> KeyRange \cup {None}]]
  BY <1>1 DEF PointersInv
<1>7. /\ forward'[k][i] = forward[u][i] /\ forward'[u][i] = k
      /\ \A n \in Nodes, j \in 1..MAX_LEVEL : j # i \/ (n # k /\ n # u) => forward'[n][j] = forward[n][j]
  BY <1>4, <1>5, <1>6 DEF LinksIn
<1>8. forward' \in [Nodes -> [1..MAX_LEVEL -> KeyRange \cup {None}]]
  <2>1. forward[u][i] \in KeyRange \cup {None} /\ k \in KeyRange \cup {None}
    BY <1>2, <1>4, <1>5, <1>6
  <2>. DEFINE mid == [forward EXCEPT ![k][i] = forward[u][i]]
  <2>2. mid \in [Nodes -> [1..MAX_LEVEL -> KeyRange \cup {None}]]
    BY <1>6, <2>1
  <2>3. forward' = [mid EXCEPT ![u][i] = k]
    BY DEF LinksIn
  <2>. HIDE DEF mid
  <2>4. QED
    BY <2>1, <2>2, <2>3
<1>9. Rightward(forward, u, i, Linked) /\ \A n \in Linked \cup {0} : Rightward(forward, n, 1, Linked)
  BY <1>1, <1>3, <1>4 DEF PointersInv, InOrder
<1>10. forward[u][i] = None \/ (forward[u][i] \in Linked /\ forward[u][i] \in Nat /\ k < forward[u][i])
  <2>1. CASE forward[u][i] = None
    BY <2>1
  <2>2. CASE forward[u][i] # None
    <3>1. forward[u][i] \in Linked /\ forward[u][i] \in Nat /\ ~(forward[u][i] < k)
      BY <1>3, <1>5, <1>9, <2>2 DEF Rightward, StopsAt
    <3>2. QED
      BY <1>3, <1>5, <3>1
  <2>3. QED
    BY <2>1, <2>2
<1>11. ASSUME NEW n \in S \cup {0}, NEW j \in 1..MAX_LEVEL PROVE Rightward(forward', n, j, S)
  <2>1. n \in Nodes
    BY <1>5
  <2>2. CASE n = k /\ j = i
    BY <1>7, <1>10, <2>2 DEF Rightward
  <2>3. CASE n = u /\ j = i
    BY <1>3, <1>7, <2>3 DEF Rightward
  <2>4. CASE j # i \/ (n # k /\ n # u)
    <3>1. forward'[n][j] = forward[n][j]
      BY <1>7, <2>1, <2>4
    <3>2. CASE n \in Linked \cup {0}
      <4>1. Rightward(forward, n, j, Linked)
        BY <1>1, <3>2 DEF PointersInv
      <4>2. QED
        BY <3>1, <4>1 DEF Rightward
    <3>3. CASE n \notin Linked \cup {0}
      <4>1. forward[n][j] = None
        BY <1>1, <1>2, <3>3 DEF PointersInv
      <4>2. QED
        BY <3>1, <4>1 DEF Rightward
    <3>4. QED
      BY <3>2, <3>3
  <2>5. QED
    BY <2>2, <2>3, <2>4
<1>12. ASSUME NEW n \in S \cup {0}, NEW m \in S, n < m
       PROVE  forward'[n][1] # None /\ forward'[n][1] <= m
  <2>0. 1 \in 1..MAX_LEVEL /\ n \in Nodes /\ n \in Nat /\ m \in Nat
    BY <1>4, <1>5
  <2>1. \A a \in Linked \cup {0}, b \in Linked :
            a < b => /\ forward[a][1] # None /\ forward[a][1] <= b /\ forward[a][1] \in Nat
    <3>1. \A a \in Linked \cup {0}, b \in Linked :
            a < b => /\ forward[a][1] # None /\ forward[a][1] <= b
      BY <1>1 DEF PointersInv, InOrder
    <3>2. \A a \in Linked \cup {0} : forward[a][1] # None => forward[a][1] \in Nat
      BY <1>5, <1>9 DEF Rightward
    <3>3. QED
      BY <3>1, <3>2
  <2>2. CASE i # 1
    <3>1. k \in Linked
      BY <1>2, <2>2
    <3>2. forward'[n][1] = forward[n][1]
      BY <1>7, <2>0, <2>2
    <3>3. QED
      BY <1>12, <2>1, <3>1, <3>2
  <2>3. CASE i = 1
    <3>0. k \notin Linked
      BY <1>2, <2>3
    <3>1. CASE n = u
      <4>1. forward'[n][1] = k /\ k # None
        BY <1>5, <1>7, <2>3, <3>1
      <4>2. CASE m = k
        BY <1>5, <4>1, <4>2
      <4>3. CASE m # k
        <5>1. m \in Linked
          BY <4>3
        <5>2. forward[u][1] # None /\ forward[u][1] <= m
          BY <1>3, <1>12, <2>1, <3>1, <5>1
        <5>3. QED
          BY <1>5, <1>10, <2>0, <2>3, <4>1, <5>2
      <4>4. QED
        BY <4>2, <4>3
    <3>2. CASE n = k
      <4>1. forward'[n][1] = forward[u][1]
        BY <1>7, <2>3, <3>2
      <4>2. m \in Linked
        BY <1>12, <2>0, <3>2
      <4>3. u < m
        BY <1>3, <1>5, <1>12, <2>0, <3>2
      <4>4. QED
        BY <1>3, <2>1, <4>1, <4>2, <4>3
    <3>3. CASE n # u /\ n # k
      <4>1. forward'[n][1] = forward[n][1] /\ n \in Linked \cup {0}
        BY <1>7, <2>0, <3>3
      <4>2. CASE m \in Linked
        BY <1>12, <2>1, <4>1, <4>2
      <4>3. CASE m = k
        <5>1. CASE n < u
          <6>1. u # 0
            BY <1>5, <2>0, <5>1
          <6>2. u \in Linked
            BY <1>3, <6>1
          <6>3. forward[n][1] # None /\ forward[n][1] <= u /\ forward[n][1] \in Nat
            BY <2>1, <4>1, <5>1, <6>2
          <6>4. QED
            BY <1>3, <1>5, <4>1, <4>3, <6>3
        <5>2. CASE ~(n < u)
          <6>1. u < n
            BY <1>5, <2>0, <3>3, <5>2
          <6>2. n # 0
            BY <1>5, <6>1
          <6>3. n \in Linked
            BY <4>1, <6>2
          <6>4. forward[u][1] # None /\ forward[u][1] <= n
            BY <1>3, <2>1, <6>1, <6>3
          <6>5. QED
            BY <1>5, <1>10, <1>12, <2>0, <2>3, <4>3, <6>4
        <5>3. QED
          BY <5>1, <5>2
      <4>4. QED
        BY <4>2, <4>3
    <3>4. QED
      BY <3>1, <3>2, <3>3
  <2>4. QED
    BY <2>2, <2>3
<1>13. S \subseteq KeyRange
  BY <1>2 DEF Linked
<1>14. InOrder(forward', S)
  <2>. HIDE DEF S
  <2>1. 1 \in 1..MAX_LEVEL
    BY <1>4
  <2>2. QED
    BY <1>11, <1>12, <1>13, <2>1 DEF InOrder
<1>15. Linked' = S
  BY <1>14, LinkedIs, OrderGivesLinked
<1>16. \A n \in KeyRange \ S, j \in 1..MAX_LEVEL : forward'[n][j] = None
  <2>1. \A n \in KeyRange \ S : n \in Nodes /\ n # k /\ n # u /\ n \in KeyRange \ Linked
    BY <1>3, NodeNumbers
  <2>2. QED
    BY <1>1, <1>7, <2>1 DEF PointersInv
<1>17. \A j \in 1..MAX_LEVEL : j > level' => forward'[0][j] = None
  <2>1. \A j \in 1..MAX_LEVEL : j > level => j # i
    BY <1>4
  <2>2. QED
    BY <1>1, <1>7, <2>1, NodeNumbers DEF PointersInv
<1>. HIDE DEF S
<1>18. PointersInv'
  BY <1>4, <1>8, <1>11, <1>14, <1>15, <1>16, <1>17 DEF PointersInv
<1>19. QED
  BY <1>15, <1>18 DEF S

\* LinkLevel keeps the list, the insertion and the find in order.
LEMMA LinkKeepsIndex ==
    ASSUME IndexInv, LinkLevel
    PROVE  IndexInv'
<1>. DEFINE i == insert.next
            u == insert.update[i]
            k == insert.key
<1>1. /\ insert # None /\ forward' = [forward EXCEPT ![k][i] = forward[u][i], ![u][i] = k]
      /\ insert' = (IF i = insert.height THEN None ELSE [insert EXCEPT !.next = i + 1])
      /\ DisturbFind /\ level' = level
  BY DEF LinkLevel
<1>2. PointersInv' /\ Linked' = Linked \cup {k}
  <2>. HIDE DEF i, u, k
  <2>1. i = insert.next /\ u = insert.update[i] /\ k = insert.key /\ LinksIn(i, u, k)
    BY <1>1 DEF i, u, k, LinksIn
  <2>2. QED
    BY <1>1, <2>1, LinkKeepsList
<1>3. FindInv'
  BY <1>1, <1>2, DisturbedFind DEF IndexInv
<1>4. InsertInv'
  <2>. SUFFICES ASSUME insert' # None PROVE InsertInv'
    BY DEF InsertInv
  <2>1. i # insert.height /\ insert' = [insert EXCEPT !.next = i + 1]
    BY <1>1
  <2>2. /\ DOMAIN insert = {"key", "height", "next", "update"}
        /\ k \in KeyRange /\ insert.height \in 1..level /\ i \in 1..insert.height
        /\ \A j \in i..insert.height :
              /\ insert.update[j] \in Linked \cup {0} /\ insert.update[j] < k
              /\ StopsAt(forward, insert.update[j], j, k) /\ forward[insert.update[j]][j] # k
    BY <1>1 DEF IndexInv, InsertInv
  <2>3. /\ DOMAIN insert' = {"key", "height", "next", "update"} /\ insert'.key = k
        /\ insert'.height = insert.height /\ insert'.next = i + 1 /\ insert'.update = insert.update
    BY <2>1, <2>2
  <2>4. /\ i \in Nat /\ i + 1 \in 1..insert.height /\ i + 1 > 1
        /\ \A j \in (i + 1)..insert.height : j \in i..insert.height /\ j # i /\ j \in 1..MAX_LEVEL
    <3>1. level \in 1..MAX_LEVEL /\ MAX_LEVEL \in Nat
      BY KvAssumption DEF IndexInv, PointersInv
    <3>2. QED
      BY <2>1, <2>2, <3>1
  <2>5. ASSUME NEW j \in (i + 1)..insert.height
        PROVE  forward'[insert.update[j]][j] = forward[insert.update[j]][j]
    <3>1. insert.update[j] \in Nodes /\ forward \in [Nodes -> [1..MAX_LEVEL -> KeyRange \cup {None}]]
      BY <2>2, <2>4 DEF IndexInv, PointersInv, Linked, Nodes
    <3>2. i \in i..insert.height
      BY <2>2
    <3>3. u \in Nodes /\ k \in Nodes
      BY <2>2, <3>2 DEF Linked, Nodes
    <3>. HIDE DEF i, u, k
    <3>4. QED
      BY <1>1, <2>4, <3>1, <3>3
  <2>. HIDE DEF i, u, k
  <2>6. \A j \in (i + 1)..insert.height :
              /\ insert.update[j] \in Linked' \cup {0} /\ insert.update[j] < k
              /\ StopsAt(forward', insert.update[j], j, k) /\ forward'[insert.update[j]][j] # k
    BY <1>2, <2>2, <2>4, <2>5 DEF StopsAt
  <2>7. insert.height \in 1..level' /\ k \in Linked' /\ k \in KeyRange
    BY <1>1, <1>2, <2>2
  <2>8. QED
    BY <2>3, <2>4, <2>6, <2>7 DEF InsertInv
<1>5. QED
  BY <1>2, <1>3, <1>4 DEF IndexInv

\* Steps that leave the index and the insertion alone.
LEMMA IndexStays ==
    ASSUME PointersInv, InsertInv, UNCHANGED <<forward, level, insert>>
    PROVE  PointersInv' /\ InsertInv' /\ Linked' = Linked
<1>1. forward' = forward /\ level' = level /\ insert' = insert
  OBVIOUS
<1>2. Linked' = Linked
  BY <1>1, LinkedIs
<1>3. QED
  BY <1>1, <1>2 DEF PointersInv, InsertInv

\* A find starts at the header, on the highest level.
LEMMA FindStarts ==
    ASSUME IndexInv, NEW key \in KeyRange, skiplist_find(key)
    PROVE  IndexInv'
<1>1. /\ forward' = forward /\ level' = level /\ insert' = insert
      /\ find' = [key |-> key, node |-> 0, i |-> level, result |-> None,
                  present |-> key \in Linked, quiet |-> insert = None]
  BY DEF skiplist_find, list
<1>2. PointersInv' /\ InsertInv' /\ Linked' = Linked
  BY <1>1, IndexStays DEF IndexInv
<1>3. level \in 1..MAX_LEVEL /\ MAX_LEVEL \in Nat
  BY KvAssumption DEF IndexInv, PointersInv
<1>4. /\ DOMAIN find' = {"key", "node", "i", "result", "present", "quiet"}
      /\ find'.key = key /\ find'.node = 0 /\ find'.i = level /\ find'.result = None
  BY <1>1
<1>5. find'.present = (key \in Linked)
  BY <1>1, Zenon
<1>6. 0 < key /\ level \in 0..MAX_LEVEL /\ level # 0
  BY <1>3, NodeNumbers
<1>7. None # "found" /\ None # "missing"
  BY KvAssumption
<1>8. find'.present => key \in Linked
  BY <1>5
<1>9. FindInv'
  BY <1>2, <1>4, <1>6, <1>7, <1>8 DEF FindInv
<1>10. QED
  BY <1>2, <1>9 DEF IndexInv

\* The find goes along its level or down one.
LEMMA FindGoesOn ==
    ASSUME IndexInv, FindStep
    PROVE  IndexInv'
<1>. DEFINE there == forward[find.node][find.i]
<1>1. /\ find # None /\ find.i > 0 /\ forward' = forward /\ level' = level /\ insert' = insert
      /\ find' = (IF there # None /\ there < find.key THEN [find EXCEPT !.node = there]
                  ELSE [find EXCEPT !.i = find.i - 1])
  BY DEF FindStep, list
<1>2. PointersInv' /\ InsertInv' /\ Linked' = Linked
  BY <1>1, IndexStays DEF IndexInv
<1>3. /\ DOMAIN find = {"key", "node", "i", "result", "present", "quiet"}
      /\ find.key \in KeyRange /\ find.node \in Linked \cup {0} /\ find.node < find.key
      /\ find.i \in 0..MAX_LEVEL /\ (find.quiet /\ find.present => find.key \in Linked)
      /\ (find.result # None => find.i = 0)
  BY <1>1 DEF IndexInv, FindInv
<1>4. MAX_LEVEL \in Nat /\ find.i \in 1..MAX_LEVEL /\ find.i \in Nat
  BY <1>1, <1>3, KvAssumption
<1>5. find.result = None /\ None # "found" /\ None # "missing"
  BY <1>3, <1>4, KvAssumption
<1>6. CASE there # None /\ there < find.key
  <2>1. there \in Linked
    BY <1>3, <1>4, <1>6 DEF IndexInv, PointersInv, Rightward
  <2>. HIDE DEF there
  <2>2. /\ DOMAIN find' = {"key", "node", "i", "result", "present", "quiet"}
        /\ find'.key = find.key /\ find'.node = there /\ find'.i = find.i /\ find'.result = find.result
        /\ find'.present = find.present /\ find'.quiet = find.quiet
    BY <1>1, <1>3, <1>6
  <2>3. FindInv'
    BY <1>2, <1>3, <1>4, <1>5, <1>6, <2>1, <2>2 DEF FindInv
  <2>4. QED
    BY <1>2, <2>3 DEF IndexInv
<1>7. CASE ~(there # None /\ there < find.key)
  <2>1. StopsAt(forward, find.node, find.i, find.key)
    BY <1>7 DEF StopsAt
  <2>. HIDE DEF there
  <2>2. /\ DOMAIN find' = {"key", "node", "i", "result", "present", "quiet"}
        /\ find'.key = find.key /\ find'.node = find.node /\ find'.i = find.i - 1
        /\ find'.result = find.result /\ find'.present = find.present /\ find'.quiet = find.quiet
    BY <1>1, <1>3, <1>7
  <2>3. find.i - 1 \in 0..MAX_LEVEL /\ (find.i - 1 = 0 => find.i = 1)
    BY <1>4
  <2>4. find'.i = 0 => StopsAt(forward', find'.node, 1, find'.key)
    BY <1>1, <2>1, <2>2, <2>3
  <2>5. FindInv'
    BY <1>2, <1>3, <1>5, <2>2, <2>3, <2>4 DEF FindInv
  <2>6. QED
    BY <1>2, <2>5 DEF IndexInv
<1>8. QED
  BY <1>6, <1>7

\* The last comparison is right about the list there is.
LEMMA FindAnswers ==
    ASSUME IndexInv, FindEnds
    PROVE  IndexInv'
<1>. DEFINE there == forward[find.node][1]
            answer == IF there = find.key THEN "found" ELSE "missing"
<1>1. /\ find # None /\ find.i = 0 /\ forward' = forward /\ level' = level /\ insert' = insert
      /\ find' = (IF find.result = None THEN [find EXCEPT !.result = answer] ELSE None)
  BY DEF FindEnds, list
<1>2. PointersInv' /\ InsertInv' /\ Linked' = Linked
  BY <1>1, IndexStays DEF IndexInv
<1>3. CASE find' = None
  BY <1>2, <1>3 DEF IndexInv, FindInv
<1>4. CASE find' # None
  <2>1. find' = [find EXCEPT !.result = answer]
    BY <1>1, <1>4
  <2>2. /\ DOMAIN find = {"key", "node", "i", "result", "present", "quiet"}
        /\ find.key \in KeyRange /\ find.node \in Linked \cup {0} /\ find.node < find.key
        /\ find.i \in 0..MAX_LEVEL /\ (find.quiet /\ find.present => find.key \in Linked)
        /\ (find.quiet => StopsAt(forward, find.node, 1, find.key))
    BY <1>1 DEF IndexInv, FindInv
  <2>3. /\ find.key \in Nat /\ find.key # None
        /\ Rightward(forward, find.node, 1, Linked)
        /\ \A k \in Linked : find.node < k => there # None /\ there <= k
    BY <2>2, NodeNumbers DEF IndexInv, PointersInv, InOrder
  <2>4. there # None => there \in Linked /\ there \in Nat
    BY <2>3, NodeNumbers DEF Rightward, Linked
  <2>5. answer = "found" => find.key \in Linked
    BY <2>3, <2>4
  <2>6. ASSUME answer = "missing", find.quiet, find.present PROVE FALSE
    <3>1. there # find.key
      BY <2>6
    <3>2. there # None /\ there <= find.key /\ there \in Nat
      BY <2>2, <2>3, <2>4, <2>6
    <3>3. ~(there < find.key)
      BY <2>2, <2>6, <3>2 DEF StopsAt
    <3>4. QED
      BY <2>3, <3>1, <3>2, <3>3
  <2>. HIDE DEF answer
  <2>7. /\ DOMAIN find' = {"key", "node", "i", "result", "present", "quiet"}
        /\ find'.key = find.key /\ find'.node = find.node /\ find'.i = find.i
        /\ find'.result = answer /\ find'.present = find.present /\ find'.quiet = find.quiet
    BY <2>1, <2>2
  <2>8. FindInv'
    BY <1>1, <1>2, <2>2, <2>5, <2>6, <2>7 DEF FindInv
  <2>9. QED
    BY <1>2, <2>8 DEF IndexInv
<1>5. QED
  BY <1>3, <1>4

\* The index starts empty.
LEMMA IndexAtStart == KvInit => IndexInv
<1>. SUFFICES ASSUME KvInit PROVE IndexInv
  OBVIOUS
<1>1. forward = NewList /\ level = 1 /\ insert = None /\ find = None
  BY DEF KvInit
<1>2. MAX_LEVEL \in Nat /\ 1 \in 1..MAX_LEVEL /\ 0 \in Nodes
  BY KvAssumption, NodeNumbers
<1>3. \A n \in Nodes, i \in 1..MAX_LEVEL : forward[n][i] = None
  BY <1>1 DEF NewList
<1>4. InOrder(forward, {})
  BY <1>2, <1>3 DEF InOrder, Rightward
<1>5. Linked = {}
  BY <1>4, LinkedIs, OrderGivesLinked
<1>6. forward \in [Nodes -> [1..MAX_LEVEL -> KeyRange \cup {None}]]
  BY <1>1 DEF NewList
<1>7. PointersInv
  BY <1>1, <1>2, <1>3, <1>4, <1>5, <1>6 DEF PointersInv, Rightward, Nodes
<1>8. QED
  BY <1>1, <1>7 DEF IndexInv, InsertInv, FindInv

(***************************************************************************)
(* IndexInv holds of every behaviour: the skip list is in order on its     *)
(* lowest level, the upper levels lead along it, and an insertion in the   *)
(* middle of its levels has its place on those that are left.              *)
(***************************************************************************)
THEOREM IndexInvariance == KvSpec => []IndexInv
<1>1. KvInit => IndexInv
  BY IndexAtStart
<1>2. IndexInv /\ [KvNext]_kvars => IndexInv'
  <2>. SUFFICES ASSUME IndexInv, [KvNext]_kvars PROVE IndexInv'
    OBVIOUS
  <2>0. ASSUME UNCHANGED <<forward, level, insert, find>> PROVE IndexInv'
    <3>1. PointersInv' /\ InsertInv' /\ Linked' = Linked
      BY <2>0, IndexStays DEF IndexInv
    <3>2. FindInv'
      BY <2>0, <3>1 DEF IndexInv, FindInv
    <3>3. QED
      BY <3>1, <3>2 DEF IndexInv
  <2>1. CASE UNCHANGED kvars
    BY <2>0, <2>1 DEF kvars, list
  <2>2. ASSUME NEW key \in KeyRange, NEW value \in StoredValues, NEW height \in random_level,
               kvdb_put(key, value, height)
        PROVE  IndexInv'
    BY <2>2, PutKeeps
  <2>3. ASSUME NEW key \in KeyRange, NEW value \in StoredValues,
               NEW n \in 0..Len(Block(<<key>>, value)), WriteFails(<<key>>, value, n)
        PROVE  IndexInv'
    BY <2>0, <2>3 DEF WriteFails, list
  <2>4. ASSUME NEW kept \in 0..Len(file), create_data_file(kept)
        PROVE  IndexInv'
    BY <2>4, IndexLost
  <2>5. CASE LinkLevel
    BY <2>5, LinkKeepsIndex
  <2>6. ASSUME NEW key \in KeyRange, skiplist_find(key)
        PROVE  IndexInv'
    BY <2>6, FindStarts
  <2>7. CASE FindStep
    BY <2>7, FindGoesOn
  <2>8. CASE FindEnds
    BY <2>8, FindAnswers
  <2>9. QED
    BY <2>1, <2>2, <2>3, <2>4, <2>5, <2>6, <2>7, <2>8 DEF KvNext
<1>3. QED
  BY <1>1, <1>2, PTL DEF KvSpec

(***************************************************************************)
(* skiplist_find, which takes no lock, answers for the list there is, for  *)
(* any set of keys, any heights and any number of levels.                  *)
(***************************************************************************)
THEOREM FindAnswersForTheList == KvSpec => []FindSeesList
<1>1. IndexInv => FindSeesList
  BY DEF IndexInv, FindInv, FindSeesList
<1>2. QED
  BY <1>1, IndexInvariance, PTL

-----------------------------------------------------------------------------
(* The WebSocket server. *)

ThreadStates == {"none", "handshake", "loop", "cleanup", "removed", "gone"}
Served == {"handshake", "loop", "cleanup"}

\* What keeps ClientsAreLive going: a connection that found the table full was made.
WsInv ==
    /\ clients \in Seq(Conns)
    /\ wpc \in [Conns -> ThreadStates]
    /\ \A c \in unlisted : c \in Conns /\ wpc[c] # "none"
    /\ ClientsAreLive

\* Positions other than the last one.
LEMMA BelowLast ==
    ASSUME NEW n \in Nat, NEW i \in 1..n, i # n
    PROVE  i \in 1..(n - 1)
OBVIOUS

\* Moving the last client into the place of the one that goes takes exactly that
\* one out of the table.
LEMMA SwapRemoves ==
    ASSUME NEW seq \in Seq(Conns), NEW c \in Range(seq),
           \A i, j \in DOMAIN seq : seq[i] = seq[j] => i = j
    PROVE  /\ WithoutClient(seq, c) \in Seq(Conns)
           /\ \A i, j \in DOMAIN WithoutClient(seq, c) :
                 WithoutClient(seq, c)[i] = WithoutClient(seq, c)[j] => i = j
           /\ Range(WithoutClient(seq, c)) = Range(seq) \ {c}
<1>. DEFINE k == CHOOSE j \in DOMAIN seq : seq[j] = c
            out_ == [j \in 1..(Len(seq) - 1) |-> IF j = k THEN seq[Len(seq)] ELSE seq[j]]
<1>1. k \in 1..Len(seq) /\ seq[k] = c /\ Len(seq) \in Nat \ {0} /\ DOMAIN seq = 1..Len(seq)
  BY DEF Range
<1>2. WithoutClient(seq, c) = out_
  BY DEF WithoutClient
<1>. HIDE DEF k
<1>3. out_ \in Seq(Conns)
  BY <1>1
<1>4. /\ DOMAIN out_ = 1..(Len(seq) - 1)
      /\ \A j \in 1..(Len(seq) - 1) : out_[j] = IF j = k THEN seq[Len(seq)] ELSE seq[j]
  OBVIOUS
<1>. HIDE DEF out_
<1>5. \A i, j \in DOMAIN out_ : out_[i] = out_[j] => i = j
  <2>. SUFFICES ASSUME NEW i \in 1..(Len(seq) - 1), NEW j \in 1..(Len(seq) - 1), out_[i] = out_[j]
                PROVE  i = j
    BY <1>4
  <2>1. \A m, n \in 1..Len(seq) : seq[m] = seq[n] => m = n
    BY <1>1
  <2>2. QED
    BY <1>1, <1>4, <2>1
<1>6. Range(out_) = Range(seq) \ {c}
  <2>1. ASSUME NEW d \in Range(out_) PROVE d \in Range(seq) \ {c}
    <3>1. PICK j \in 1..(Len(seq) - 1) : d = out_[j]
      BY <1>4 DEF Range
    <3>2. \E m \in 1..Len(seq) : m # k /\ d = seq[m]
      <4>1. CASE j = k
        BY <1>1, <1>4, <3>1, <4>1
      <4>2. CASE j # k
        BY <1>1, <1>4, <3>1, <4>2
      <4>3. QED
        BY <4>1, <4>2
    <3>3. QED
      BY <1>1, <3>2 DEF Range
  <2>2. ASSUME NEW d \in Range(seq), d # c PROVE d \in Range(out_)
    <3>1. PICK m \in 1..Len(seq) : d = seq[m] /\ m # k
      BY <1>1, <2>2 DEF Range
    <3>2. CASE m = Len(seq)
      <4>1. k \in 1..(Len(seq) - 1)
        BY <1>1, <3>1, <3>2, BelowLast
      <4>2. out_[k] = d
        BY <1>4, <3>1, <3>2, <4>1
      <4>3. QED
        BY <1>4, <4>1, <4>2 DEF Range
    <3>3. CASE m # Len(seq)
      <4>1. m \in 1..(Len(seq) - 1)
        BY <1>1, <3>1, <3>3, BelowLast
      <4>2. out_[m] = d
        BY <1>4, <3>1, <3>3, <4>1
      <4>3. QED
        BY <1>4, <4>1, <4>2 DEF Range
    <3>4. QED
      BY <3>2, <3>3
  <2>3. QED
    BY <2>1, <2>2
<1>7. QED
  BY <1>2, <1>3, <1>5, <1>6

\* A new connection goes behind the last client.
LEMMA AppendAdds ==
    ASSUME NEW seq \in Seq(Conns), NEW c \in Conns, c \notin Range(seq),
           \A i, j \in DOMAIN seq : seq[i] = seq[j] => i = j
    PROVE  /\ Append(seq, c) \in Seq(Conns)
           /\ \A i, j \in DOMAIN Append(seq, c) : Append(seq, c)[i] = Append(seq, c)[j] => i = j
           /\ Range(Append(seq, c)) = Range(seq) \cup {c}
<1>1. /\ Append(seq, c) \in Seq(Conns) /\ DOMAIN Append(seq, c) = 1..(Len(seq) + 1)
      /\ DOMAIN seq = 1..Len(seq) /\ Len(seq) \in Nat
      /\ \A i \in 1..Len(seq) : Append(seq, c)[i] = seq[i]
      /\ Append(seq, c)[Len(seq) + 1] = c
  OBVIOUS
<1>2. \A i \in 1..Len(seq) : seq[i] # c
  BY <1>1 DEF Range
<1>3. Range(Append(seq, c)) = Range(seq) \cup {c}
  <2>1. \A d : (\E i \in 1..(Len(seq) + 1) : d = Append(seq, c)[i])
               <=> (\E i \in 1..Len(seq) : d = seq[i]) \/ d = c
    BY <1>1
  <2>2. QED
    BY <1>1, <2>1 DEF Range
<1>4. \A i, j \in 1..(Len(seq) + 1) : Append(seq, c)[i] = Append(seq, c)[j] => i = j
  BY <1>1, <1>2
<1>5. QED
  BY <1>1, <1>3, <1>4

\* A thread that moves on while it serves its connection, or that ends it after it
\* was taken off the table, does not concern the table.
LEMMA ThreadMoves ==
    ASSUME WsInv, NEW c \in Conns, NEW there \in ThreadStates \ {"none"},
           wpc[c] \in Served <=> there \in Served,
           Goto(c, there), UNCHANGED <<clients, unlisted>>
    PROVE  WsInv'
BY DEF WsInv, ClientsAreLive, Goto, ThreadStates, Served

\* The server starts without clients.
LEMMA WsInitially == WsInit => WsInv
<1>. SUFFICES ASSUME WsInit PROVE WsInv
  OBVIOUS
<1>1. clients = <<>> /\ unlisted = {} /\ wpc = [c \in Conns |-> "none"]
  BY DEF WsInit
<1>2. clients \in Seq(Conns) /\ DOMAIN clients = {} /\ Range(clients) = {}
  BY <1>1 DEF Range
<1>3. QED
  BY <1>1, <1>2 DEF WsInv, ClientsAreLive, ThreadStates

\* One turn of the accept loop.
LEMMA AcceptKeeps ==
    ASSUME WsInv, NEW c \in Conns, Accept(c)
    PROVE  WsInv'
<1>1. /\ wpc[c] = "none" /\ c \notin Range(clients) /\ c \notin unlisted
      /\ clients \in Seq(Conns) /\ \A i, j \in DOMAIN clients : clients[i] = clients[j] => i = j
  BY DEF Accept, WsInv, ClientsAreLive
<1>2. CASE Goto(c, "gone") /\ UNCHANGED <<clients, unlisted>>
  BY <1>1, <1>2, ThreadMoves DEF ThreadStates, Served
<1>3. CASE Goto(c, "handshake") /\ clients' = Append(clients, c) /\ unlisted' = unlisted
  <2>1. /\ clients' \in Seq(Conns) /\ \A i, j \in DOMAIN clients' : clients'[i] = clients'[j] => i = j
        /\ Range(clients') = Range(clients) \cup {c}
    BY <1>1, <1>3, AppendAdds
  <2>2. /\ wpc' \in [Conns -> ThreadStates] /\ wpc'[c] = "handshake"
        /\ \A d \in Conns \ {c} : wpc'[d] = wpc[d]
    BY <1>3 DEF WsInv, Goto, ThreadStates
  <2>3. \A d \in Conns : d \in Range(clients')
             <=> wpc'[d] \in {"handshake", "loop", "cleanup"} /\ d \notin unlisted'
    BY <1>1, <1>3, <2>1, <2>2 DEF WsInv, ClientsAreLive
  <2>4. \A d \in unlisted' : d \in Conns /\ wpc'[d] # "none"
    BY <1>3, <2>2 DEF WsInv
  <2>5. QED
    BY <2>1, <2>2, <2>3, <2>4 DEF WsInv, ClientsAreLive
<1>4. CASE Goto(c, "handshake") /\ clients' = clients /\ unlisted' = unlisted \cup {c}
  <2>1. /\ wpc' \in [Conns -> ThreadStates] /\ wpc'[c] = "handshake"
        /\ \A d \in Conns \ {c} : wpc'[d] = wpc[d]
    BY <1>4 DEF WsInv, Goto, ThreadStates
  <2>2. QED
    BY <1>1, <1>4, <2>1 DEF WsInv, ClientsAreLive
<1>5. QED
  BY <1>2, <1>3, <1>4 DEF Accept, add_client

\* remove_client.
LEMMA RemoveKeeps ==
    ASSUME WsInv, NEW c \in Conns, remove_client(c)
    PROVE  WsInv'
<1>1. /\ wpc[c] = "cleanup" /\ clients' = WithoutClient(clients, c) /\ unlisted' = unlisted
      /\ clients \in Seq(Conns) /\ \A i, j \in DOMAIN clients : clients[i] = clients[j] => i = j
  BY DEF remove_client, WsInv, ClientsAreLive
<1>2. /\ wpc' \in [Conns -> ThreadStates] /\ wpc'[c] = "removed"
      /\ \A d \in Conns \ {c} : wpc'[d] = wpc[d]
  BY DEF remove_client, WsInv, Goto, ThreadStates
<1>3. /\ clients' \in Seq(Conns) /\ \A i, j \in DOMAIN clients' : clients'[i] = clients'[j] => i = j
      /\ Range(clients') = Range(clients) \ {c}
  <2>1. CASE c \in Range(clients)
    BY <1>1, <2>1, SwapRemoves
  <2>2. CASE c \notin Range(clients)
    BY <1>1, <2>2 DEF WithoutClient
  <2>3. QED
    BY <2>1, <2>2
<1>4. \A d \in Conns : d \in Range(clients')
           <=> wpc'[d] \in {"handshake", "loop", "cleanup"} /\ d \notin unlisted'
  BY <1>1, <1>2, <1>3 DEF WsInv, ClientsAreLive
<1>5. \A d \in unlisted' : d \in Conns /\ wpc'[d] # "none"
  BY <1>1, <1>2 DEF WsInv
<1>6. QED
  BY <1>2, <1>3, <1>4, <1>5 DEF WsInv, ClientsAreLive

\* WsInv holds in every state of the WebSocket server: the table holds the connections
\* that are served, each once, but for those that found it full.
THEOREM WsInvariance == WsSpec => []WsInv
<1>1. WsInv /\ [WsNext]_wvars => WsInv'
  <2>. SUFFICES ASSUME WsInv, [WsNext]_wvars PROVE WsInv'
    OBVIOUS
  <2>1. CASE UNCHANGED <<clients, wpc, unlisted>>
    BY <2>1 DEF WsInv, ClientsAreLive
  <2>2. ASSUME NEW c \in Conns, HandshakeFails(c) \/ ReceiveFails(c) PROVE WsInv'
    <3>1. wpc[c] \in Served /\ Goto(c, "cleanup") /\ UNCHANGED <<clients, unlisted>>
      BY <2>2 DEF HandshakeFails, ReceiveFails, Served
    <3>2. QED
      BY <3>1, ThreadMoves DEF ThreadStates, Served
  <2>3. ASSUME NEW c \in Conns, NEW request \in Requests, ws_handle_handshake(c, request) PROVE WsInv'
    <3>1. wpc[c] \in Served /\ Goto(c, "loop") /\ UNCHANGED <<clients, unlisted>>
      BY <2>3 DEF ws_handle_handshake, Served
    <3>2. QED
      BY <3>1, ThreadMoves DEF ThreadStates, Served
  <2>4. ASSUME NEW c \in Conns, NEW n \in RecvSizes, ReceiveFrames(c, n) PROVE WsInv'
    BY <2>1, <2>4 DEF ReceiveFrames
  <2>5. ASSUME NEW c \in Conns, FreeConn(c) PROVE WsInv'
    <3>1. wpc[c] \notin Served /\ Goto(c, "gone") /\ UNCHANGED <<clients, unlisted>>
      BY <2>5 DEF FreeConn, Served
    <3>2. QED
      BY <3>1, ThreadMoves DEF ThreadStates, Served
  <2>6. CASE broadcast_message \/ BroadcastSend
    BY <2>1, <2>6 DEF broadcast_message, BroadcastSend
  <2>7. CASE UNCHANGED wvars
    BY <2>1, <2>7 DEF wvars
  <2>8. QED
    BY <2>2, <2>3, <2>4, <2>5, <2>6, <2>7, AcceptKeeps, RemoveKeeps DEF WsNext
<1>2. QED
  BY <1>1, WsInitially, PTL DEF WsSpec

\* The table of clients and the connections that exist agree, for any number of
\* connections and any size of the table: remove_client, which moves the last entry
\* into the gap, neither loses a connection nor leaves one that is about to be freed.
THEOREM ClientsStayLive == WsSpec => []ClientsAreLive
BY WsInvariance, PTL DEF WsInv

-----------------------------------------------------------------------------
(* The MQTT client. *)

\* Where the client is once its socket is connected.
Connected == {"ctx", "certificates", "ssl", "tls handshake", "ready"}

\* The socket of the context, the descriptors open and the sockets made, by where
\* the client is.  Descriptor 0 was there before and 1 is the lowest free one.
SocketAgrees ==
    /\ mpc = "none" => fds = {0} /\ made = {} /\ ~resolved
    /\ mpc = "new" => net.socket = 0 /\ fds = {0} /\ made = {} /\ ~resolved
    /\ mpc = "trying" => fds = {0} /\ made \subseteq {1} /\ resolved
    /\ mpc \in Connected => net.socket = 1 /\ fds = {0, 1} /\ made = {1} /\ resolved
    /\ mpc = "failed" =>
         \/ net.socket = 0 /\ fds = {0} /\ made = {} /\ ~resolved
         \/ net.socket = -1 /\ fds = {0} /\ made \subseteq {1} /\ resolved
         \/ net.socket = 1 /\ fds = {0, 1} /\ made = {1} /\ resolved

\* The context knows the TLS objects that exist.
KnownTo(context, made_objects) ==
    /\ context \in [socket : Int, ssl : BOOLEAN, ssl_ctx : BOOLEAN]
    /\ made_objects = (IF context.ssl THEN {"ssl"} ELSE {})
                      \cup (IF context.ssl_ctx THEN {"ctx"} ELSE {})
ObjectsAgree ==
    /\ mpc = "none" => objects = {}
    /\ mpc \in {"new", "trying", "failed"} \cup Connected => KnownTo(net, objects)

\* The inductive invariant of the client.
MqttInv ==
    /\ mpc \in {"none", "new", "trying", "failed", "destroyed"} \cup Connected
    /\ resolved \in BOOLEAN
    /\ SocketAgrees /\ ObjectsAgree /\ NetworkReleased

\* With only descriptor 0 open, socket() returns 1.
LEMMA UnusedIsOne == fds = {0} => Unused = 1
<1>. SUFFICES ASSUME fds = {0} PROVE Unused = 1
  OBVIOUS
<1>1. Cardinality(fds) = 1
  BY FS_Singleton
<1>2. \A fd \in 0..1 : (fd \notin fds /\ \A g \in 0..(fd - 1) : g \in fds) <=> fd = 1
  BY SMT
<1>3. QED
  BY <1>1, <1>2 DEF Unused

\* Assigning the socket of a context leaves a context.
LEMMA SocketReplaced ==
    ASSUME NEW S, NEW B, NEW r \in [socket : S, ssl : B, ssl_ctx : B], NEW x \in S
    PROVE  [r EXCEPT !.socket = x] \in [socket : S, ssl : B, ssl_ctx : B]
OBVIOUS

\* What a socket field is given is a descriptor or an error.
LEMMA Descriptors == 1 \in Int /\ -1 \in Int
OBVIOUS

\* Nothing exists before network_new.
LEMMA MqttInitially == MqttInit => MqttInv
BY DEF MqttInit, MqttInv, Connected, SocketAgrees, ObjectsAgree, NetworkReleased

\* One turn of the loop over the addresses.
LEMMA TryKeeps ==
    ASSUME MqttInv, NEW outcome \in {"no socket", "refused", "connected"}, TryAddress(outcome)
    PROVE  MqttInv'
<1>1. /\ mpc = "trying" /\ fds = {0} /\ Unused = 1 /\ made \subseteq {1} /\ resolved
      /\ KnownTo(net, objects)
  BY UnusedIsOne DEF TryAddress, MqttInv, SocketAgrees, ObjectsAgree
<1>2. CASE outcome = "connected"
  <2>1. /\ net' = [net EXCEPT !.socket = 1] /\ fds' = {0, 1} /\ made' = {1}
        /\ mpc' \in {"ctx", "ready"} /\ resolved' = resolved /\ objects' = objects
    BY <1>1, <1>2 DEF TryAddress, AfterTry
  <2>2. KnownTo(net, objects)' /\ net'.socket = 1
    <3>1. /\ net' \in [socket : Int, ssl : BOOLEAN, ssl_ctx : BOOLEAN]
          /\ net'.socket = 1 /\ net'.ssl = net.ssl /\ net'.ssl_ctx = net.ssl_ctx
      <4>1. net \in [socket : Int, ssl : BOOLEAN, ssl_ctx : BOOLEAN]
        BY <1>1 DEF KnownTo
      <4>2. net' = [socket |-> 1, ssl |-> net.ssl, ssl_ctx |-> net.ssl_ctx]
        BY <2>1, <4>1
      <4>3. net' \in [socket : Int, ssl : BOOLEAN, ssl_ctx : BOOLEAN]
        BY <2>1, <4>1, SocketReplaced, Descriptors, Zenon
      <4>4. net'.socket = 1 /\ net'.ssl = net.ssl /\ net'.ssl_ctx = net.ssl_ctx
        BY <4>2
      <4>5. QED
        BY <4>3, <4>4
    <3>2. QED
      BY <1>1, <2>1, <3>1 DEF KnownTo
  <2>3. SocketAgrees'
    BY <1>1, <2>1, <2>2 DEF SocketAgrees, Connected
  <2>4. ObjectsAgree'
    BY <2>1, <2>2 DEF ObjectsAgree
  <2>5. NetworkReleased'
    BY <2>1 DEF NetworkReleased
  <2>6. QED
    BY <1>1, <2>1, <2>3, <2>4, <2>5 DEF MqttInv, Connected
<1>3. CASE outcome # "connected"
  <2>1. /\ net' = [net EXCEPT !.socket = -1] /\ fds' = {0} /\ made' \subseteq {1}
        /\ mpc' \in {"failed", "trying"} /\ resolved' = resolved /\ objects' = objects
    BY <1>1, <1>3 DEF TryAddress, AfterTry
  <2>2. KnownTo(net, objects)' /\ net'.socket = -1
    <3>1. /\ net' \in [socket : Int, ssl : BOOLEAN, ssl_ctx : BOOLEAN]
          /\ net'.socket = -1 /\ net'.ssl = net.ssl /\ net'.ssl_ctx = net.ssl_ctx
      <4>1. net \in [socket : Int, ssl : BOOLEAN, ssl_ctx : BOOLEAN]
        BY <1>1 DEF KnownTo
      <4>2. net' = [socket |-> -1, ssl |-> net.ssl, ssl_ctx |-> net.ssl_ctx]
        BY <2>1, <4>1
      <4>3. net' \in [socket : Int, ssl : BOOLEAN, ssl_ctx : BOOLEAN]
        BY <2>1, <4>1, SocketReplaced, Descriptors, Zenon
      <4>4. net'.socket = -1 /\ net'.ssl = net.ssl /\ net'.ssl_ctx = net.ssl_ctx
        BY <4>2
      <4>5. QED
        BY <4>3, <4>4
    <3>2. QED
      BY <1>1, <2>1, <3>1 DEF KnownTo
  <2>3. SocketAgrees'
    BY <1>1, <2>1, <2>2 DEF SocketAgrees, Connected
  <2>4. ObjectsAgree'
    BY <2>1, <2>2 DEF ObjectsAgree
  <2>5. NetworkReleased'
    BY <2>1 DEF NetworkReleased
  <2>6. QED
    BY <1>1, <2>1, <2>3, <2>4, <2>5 DEF MqttInv, Connected
<1>4. QED
  BY <1>2, <1>3

\* One step of setting up TLS.
LEMMA TlsKeeps ==
    ASSUME MqttInv, NEW ok \in BOOLEAN, TlsStep(ok)
    PROVE  MqttInv'
<1>1. /\ mpc \in Connected \ {"ready"} /\ mpc' \in Connected \cup {"failed"}
      /\ KnownTo(net, objects)
      /\ net.socket = 1 /\ fds = {0, 1} /\ made = {1} /\ resolved
      /\ UNCHANGED <<fds, made, resolved>>
  BY DEF TlsStep, MqttInv, SocketAgrees, ObjectsAgree, Connected
<1>2. /\ net' \in [socket : Int, ssl : BOOLEAN, ssl_ctx : BOOLEAN]
      /\ net'.socket = net.socket
      /\ net'.ssl = (net.ssl \/ (ok /\ mpc = "ssl"))
      /\ net'.ssl_ctx = (net.ssl_ctx \/ (ok /\ mpc = "ctx"))
  BY <1>1 DEF TlsStep, KnownTo
<1>3. objects' = (IF net'.ssl THEN {"ssl"} ELSE {}) \cup (IF net'.ssl_ctx THEN {"ctx"} ELSE {})
  BY <1>1, <1>2 DEF TlsStep, KnownTo
<1>4. QED
  BY <1>1, <1>2, <1>3 DEF MqttInv, SocketAgrees, ObjectsAgree, KnownTo, NetworkReleased, Connected

\* network_destroy, from wherever the connection got to.
LEMMA DestroyKeeps ==
    ASSUME MqttInv, network_destroy
    PROVE  MqttInv'
<1>1. /\ mpc \in {"new", "failed", "ready"} /\ mpc' = "destroyed"
      /\ UNCHANGED <<made, resolved>>
      /\ fds' = IF net.socket >= 0 THEN fds \ {net.socket} ELSE fds
  BY DEF network_destroy
<1>2. objects' = {}
  BY <1>1 DEF network_destroy, MqttInv, ObjectsAgree, KnownTo, Connected
<1>3. fds' \cap (made' \ {0}) = {} /\ (resolved' => 0 \in fds')
  <2>1. \/ net.socket = 0 /\ fds = {0} /\ made = {} /\ ~resolved
        \/ net.socket = -1 /\ fds = {0} /\ made \subseteq {1} /\ resolved
        \/ net.socket = 1 /\ fds = {0, 1} /\ made = {1} /\ resolved
    BY <1>1 DEF MqttInv, SocketAgrees, Connected
  <2>2. CASE net.socket = 0 /\ fds = {0} /\ made = {} /\ ~resolved
    BY <1>1, <2>2
  <2>3. CASE net.socket = -1 /\ fds = {0} /\ made \subseteq {1} /\ resolved
    BY <1>1, <2>3
  <2>4. CASE net.socket = 1 /\ fds = {0, 1} /\ made = {1} /\ resolved
    BY <1>1, <2>4
  <2>5. QED
    BY <2>1, <2>2, <2>3, <2>4
<1>4. QED
  BY <1>1, <1>2, <1>3 DEF MqttInv, SocketAgrees, ObjectsAgree, NetworkReleased, Connected

\* MqttInv holds in every state of the MQTT client: at each point of the connection the
\* context knows the socket and the TLS objects that exist.
THEOREM MqttInvariance == MqttSpec => []MqttInv
<1>1. MqttInv /\ [MqttNext]_mvars => MqttInv'
  <2>. SUFFICES ASSUME MqttInv, [MqttNext]_mvars PROVE MqttInv'
    OBVIOUS
  <2>1. CASE network_new
    <3>1. /\ mpc = "none" /\ mpc' = "new" /\ fds' = {0} /\ made' = {} /\ objects' = {}
          /\ net' = [socket |-> 0, ssl |-> FALSE, ssl_ctx |-> FALSE] /\ resolved' = resolved
      BY <2>1 DEF network_new, MqttInv, SocketAgrees, ObjectsAgree
    <3>2. KnownTo(net, objects)' /\ net'.socket = 0
      BY <3>1 DEF KnownTo
    <3>3. ~resolved
      BY <3>1 DEF MqttInv, SocketAgrees
    <3>4. QED
      BY <3>1, <3>2, <3>3 DEF MqttInv, SocketAgrees, ObjectsAgree, NetworkReleased, Connected
  <2>2. ASSUME NEW n \in 0..MaxAddresses, network_connect(n) PROVE MqttInv'
    <3>1. /\ mpc = "new" /\ UNCHANGED <<net, fds, objects, made>>
          /\ \/ mpc' = "failed" /\ ~resolved'
             \/ mpc' = "trying" /\ resolved'
          /\ resolved' \in BOOLEAN
      <4>1. /\ mpc = "new" /\ UNCHANGED <<net, fds, objects, made>>
            /\ resolved' = (n # 0) /\ mpc' = IF n = 0 THEN "failed" ELSE "trying"
        BY <2>2 DEF network_connect
      <4>2. QED
        BY <4>1, Zenon
    <3>2. /\ net.socket = 0 /\ fds = {0} /\ made = {} /\ KnownTo(net, objects)
      BY <3>1 DEF MqttInv, SocketAgrees, ObjectsAgree
    <3>3. QED
      BY <3>1, <3>2 DEF MqttInv, SocketAgrees, ObjectsAgree, NetworkReleased, Connected
  <2>3. CASE UNCHANGED <<net, fds, objects, mpc, made, resolved>>
    BY <2>3 DEF MqttInv, SocketAgrees, ObjectsAgree, NetworkReleased
  <2>4. CASE \E select \in {"error", "timeout", "ready"}, moved \in {"error", "some", "all"} :
               network_read(select, moved) \/ network_write(select, moved)
    BY <2>3, <2>4 DEF network_read, network_write
  <2>5. CASE UNCHANGED mvars
    BY <2>3, <2>5 DEF mvars
  <2>6. QED
    BY <2>1, <2>2, <2>4, <2>5, TryKeeps, TlsKeeps, DestroyKeeps DEF MqttNext
<1>2. QED
  BY <1>1, MqttInitially, PTL DEF MqttSpec

\* After network_destroy no descriptor and no TLS object of the connection is left,
\* wherever network_connect gave up and however many addresses the name has.
THEOREM NetworkIsReleased == MqttSpec => []NetworkReleased
BY MqttInvariance, PTL DEF MqttInv

-----------------------------------------------------------------------------
(* The port layer of lwIP. *)

\* The types of the state.
LwipTypes ==
    /\ mbox \in Seq(Pbufs \cup Apps) /\ ring \in Seq(Nat) /\ delivered \in Seq(Nat)
    /\ pool \subseteq Pbufs /\ payload \in [Pbufs -> Nat]
    /\ inHand \in Pbufs \cup Apps \cup {Nothing}
    /\ sem \in [Apps -> Nat] /\ app \in [Apps -> {"idle", "posting", "waiting"}]
    /\ arrived \in Nat

\* Nothing is in the mailbox twice, or there and in the hand of the stack.
EachOnce ==
    /\ \A i, j \in 1..Len(mbox) : mbox[i] = mbox[j] => i = j
    /\ \A i \in 1..Len(mbox) : mbox[i] # inHand

\* A pbuf is free exactly when it is not on its way.
FreeOrUnderway ==
    \A p \in Pbufs : p \in pool <=> p # inHand /\ \A i \in 1..Len(mbox) : mbox[i] # p

\* A thread that waits has its request on the way or its semaphore signalled,
\* and no other has either.
AnswersComing ==
    \A a \in Apps :
        /\ sem[a] \in {0, 1}
        /\ app[a] = "waiting" <=> sem[a] = 1 \/ a = inHand \/ \E i \in 1..Len(mbox) : mbox[i] = a
        /\ sem[a] = 1 => a # inHand /\ \A i \in 1..Len(mbox) : mbox[i] # a

\* The numbers of the frames grow within each station.
FramesGrow ==
    /\ \A i, j \in 1..Len(delivered) : i < j => delivered[i] < delivered[j]
    /\ \A i, j \in 1..Len(ring) : i < j => ring[i] < ring[j]
    /\ \A i, j \in 1..Len(mbox) :
          i < j /\ mbox[i] \in Pbufs /\ mbox[j] \in Pbufs => payload[mbox[i]] < payload[mbox[j]]

\* And from each station to those before it; none is above the last number given.
StationsGrow ==
    /\ \A i \in 1..Len(delivered) :
          /\ delivered[i] <= arrived
          /\ inHand \in Pbufs => delivered[i] < payload[inHand]
          /\ \A j \in 1..Len(mbox) : mbox[j] \in Pbufs => delivered[i] < payload[mbox[j]]
          /\ \A j \in 1..Len(ring) : delivered[i] < ring[j]
    /\ inHand \in Pbufs =>
          /\ payload[inHand] <= arrived
          /\ \A j \in 1..Len(mbox) : mbox[j] \in Pbufs => payload[inHand] < payload[mbox[j]]
          /\ \A j \in 1..Len(ring) : payload[inHand] < ring[j]
    /\ \A i \in 1..Len(mbox) : mbox[i] \in Pbufs =>
          /\ payload[mbox[i]] <= arrived
          /\ \A j \in 1..Len(ring) : payload[mbox[i]] < ring[j]
    /\ \A i \in 1..Len(ring) : ring[i] <= arrived

\* The stack's thread fetches only with nothing in its hand.
HandFree == fetch = Nothing \/ inHand = Nothing

\* The inductive invariant of the port layer.
LwipInv ==
    /\ LwipTypes /\ EachOnce /\ FreeOrUnderway /\ AnswersComing
    /\ FramesGrow /\ StationsGrow

\* What Append does to a sequence, element by element.
LEMMA AppendElements ==
    ASSUME NEW S, NEW s \in Seq(S), NEW e \in S
    PROVE  /\ Append(s, e) \in Seq(S)
           /\ Len(s) \in Nat /\ Len(Append(s, e)) = Len(s) + 1
           /\ \A i \in 1..Len(s) : Append(s, e)[i] = s[i]
           /\ Append(s, e)[Len(s) + 1] = e
OBVIOUS

\* What Tail does to it.
LEMMA TailElements ==
    ASSUME NEW S, NEW s \in Seq(S), s # <<>>
    PROVE  /\ Tail(s) \in Seq(S) /\ Head(s) \in S /\ Head(s) = s[1]
           /\ Len(s) \in Nat \ {0} /\ Len(Tail(s)) = Len(s) - 1
           /\ \A i \in 1..(Len(s) - 1) : Tail(s)[i] = s[i + 1]
OBVIOUS

\* The elements of the queues, and the numbers of the frames.
LEMMA Elements ==
    ASSUME LwipTypes
    PROVE  /\ Len(mbox) \in Nat /\ Len(ring) \in Nat /\ Len(delivered) \in Nat
           /\ \A i \in 1..Len(mbox) : mbox[i] \in Pbufs \cup Apps
           /\ \A i \in 1..Len(ring) : ring[i] \in Nat
           /\ \A i \in 1..Len(delivered) : delivered[i] \in Nat
           /\ \A p \in Pbufs : payload[p] \in Nat
           /\ arrived \in Nat
BY DEF LwipTypes

\* At the start the queues are empty and all pbufs are in the pool.
LEMMA LwipInitially == LwipInit => LwipInv
BY LwipAssumption DEF LwipInit, LwipInv, LwipTypes, EachOnce, FreeOrUnderway, AnswersComing,
     FramesGrow, StationsGrow

\* A frame that arrives has a higher number than all others.
LEMMA FrameArrivesKeeps ==
    ASSUME LwipInv, FrameArrives
    PROVE  LwipInv'
<1>. USE DEF LwipInv
<1>1. CASE ring' = ring
  <2>1. LwipTypes' /\ EachOnce' /\ FreeOrUnderway' /\ AnswersComing' /\ FramesGrow'
    BY <1>1 DEF FrameArrives, LwipTypes, EachOnce, FreeOrUnderway, AnswersComing, FramesGrow
  <2>2. \A n \in Nat : n <= arrived => n <= arrived'
    BY Elements DEF FrameArrives
  <2>3. StationsGrow'
    BY <1>1, <2>2, Elements DEF FrameArrives, StationsGrow
  <2>4. QED
    BY <2>1, <2>3
<1>2. CASE ring' = Append(ring, arrived + 1)
  <2>1. arrived + 1 \in Nat
    BY DEF LwipTypes
  <2>2. /\ ring' \in Seq(Nat) /\ Len(ring) \in Nat /\ Len(ring') = Len(ring) + 1
        /\ \A i \in 1..Len(ring) : ring'[i] = ring[i]
        /\ ring'[Len(ring) + 1] = arrived + 1
    BY <1>2, <2>1, AppendElements DEF LwipTypes
  <2>3. LwipTypes' /\ EachOnce' /\ FreeOrUnderway' /\ AnswersComing'
    <3>1. LwipTypes'
      BY <2>1, <2>2 DEF FrameArrives, LwipTypes
    <3>2. EachOnce' /\ FreeOrUnderway' /\ AnswersComing'
      BY DEF FrameArrives, EachOnce, FreeOrUnderway, AnswersComing
    <3>3. QED
      BY <3>1, <3>2
  <2>4. \A i \in 1..Len(ring') : i \in 1..Len(ring) \/ i = Len(ring) + 1
    BY <2>2
  <2>5. FramesGrow'
    <3>1. \A i, j \in 1..Len(ring') : i < j => ring'[i] < ring'[j]
      <4>. SUFFICES ASSUME NEW i \in 1..Len(ring'), NEW j \in 1..Len(ring'), i < j
                    PROVE  ring'[i] < ring'[j]
        OBVIOUS
      <4>1. i \in 1..Len(ring) /\ ring'[i] = ring[i] /\ ring[i] \in Nat /\ ring[i] <= arrived
        BY <2>2, <2>4, Elements DEF StationsGrow
      <4>2. CASE j \in 1..Len(ring)
        BY <2>2, <4>1, <4>2 DEF FramesGrow
      <4>3. CASE j = Len(ring) + 1
        BY <2>2, <4>1, <4>3, Elements
      <4>4. QED
        BY <2>4, <4>2, <4>3
    <3>2. QED
      BY <3>1 DEF FramesGrow, FrameArrives
  <2>6. StationsGrow'
    <3>1. \A n \in Nat : n <= arrived => n <= arrived' /\ n < arrived + 1
      BY Elements DEF FrameArrives
    <3>2. \A i \in 1..Len(ring') : ring'[i] <= arrived'
      BY <2>2, <2>4, <3>1, Elements DEF StationsGrow, FrameArrives
    <3>3. \A n \in Nat : n <= arrived /\ (\A j \in 1..Len(ring) : n < ring[j])
                          => \A j \in 1..Len(ring') : n < ring'[j]
      BY <2>2, <2>4, <3>1
    <3>4. UNCHANGED <<mbox, payload, delivered, inHand>>
      BY DEF FrameArrives
    <3>5. QED
      BY <3>1, <3>2, <3>3, <3>4, Elements DEF StationsGrow
  <2>7. QED
    BY <2>3, <2>5, <2>6
<1>3. QED
  BY <1>1, <1>2 DEF FrameArrives

\* Taking a frame off the ring and dropping it leaves the order of the others.
LEMMA InputDropsKeeps ==
    ASSUME LwipInv, InputDrops
    PROVE  LwipInv'
<1>. USE DEF LwipInv
<1>1. /\ ring' \in Seq(Nat) /\ Len(ring) \in Nat \ {0} /\ Len(ring') = Len(ring) - 1
      /\ \A i \in 1..Len(ring') : ring'[i] = ring[i + 1] /\ i + 1 \in 1..Len(ring)
  BY TailElements DEF InputDrops, LwipTypes
<1>2. LwipTypes' /\ EachOnce' /\ FreeOrUnderway' /\ AnswersComing'
  BY <1>1 DEF InputDrops, LwipTypes, EachOnce, FreeOrUnderway, AnswersComing
<1>3. FramesGrow'
  BY <1>1 DEF InputDrops, FramesGrow
<1>4. StationsGrow'
  BY <1>1 DEF InputDrops, StationsGrow
<1>5. QED
  BY <1>2, <1>3, <1>4

\* ethernetif_input: the frame goes from the ring into a free pbuf and, if there
\* is room, with it to the end of the mailbox.
LEMMA InputKeeps ==
    ASSUME LwipInv, NEW p \in Pbufs, ethernetif_input(p)
    PROVE  LwipInv'
<1>. USE DEF LwipInv
<1>1. /\ ring' \in Seq(Nat) /\ Len(ring) \in Nat \ {0} /\ Len(ring') = Len(ring) - 1
      /\ \A i \in 1..Len(ring') : ring'[i] = ring[i + 1] /\ i + 1 \in 1..Len(ring)
      /\ Head(ring) = ring[1] /\ ring[1] \in Nat /\ 1 \in 1..Len(ring)
  BY TailElements, Elements DEF ethernetif_input, LwipTypes
<1>2. /\ payload' \in [Pbufs -> Nat] /\ payload'[p] = ring[1]
      /\ \A q \in Pbufs \ {p} : payload'[q] = payload[q]
  BY <1>1 DEF ethernetif_input, LwipTypes
<1>3. /\ p \in pool /\ p # inHand /\ \A i \in 1..Len(mbox) : mbox[i] # p
      /\ p \notin Apps /\ p # Nothing
  BY LwipAssumption DEF ethernetif_input, FreeOrUnderway, LwipTypes
<1>4. UNCHANGED <<arrived, sem, app, inHand, delivered>>
  BY DEF ethernetif_input
<1>5. \A i \in 1..Len(ring') : ring[1] < ring'[i]
  BY <1>1 DEF FramesGrow
<1>6. \A i, j \in 1..Len(ring') : i < j => ring'[i] < ring'[j]
  <2>. SUFFICES ASSUME NEW i \in 1..Len(ring'), NEW j \in 1..Len(ring'), i < j
                PROVE  ring'[i] < ring'[j]
    OBVIOUS
  <2>1. i + 1 < j + 1 /\ ring'[i] = ring[i + 1] /\ ring'[j] = ring[j + 1]
        /\ i + 1 \in 1..Len(ring) /\ j + 1 \in 1..Len(ring)
    BY <1>1
  <2>2. QED
    BY <2>1 DEF FramesGrow
<1>7. \A i \in 1..Len(mbox) : mbox[i] \in Pbufs => payload'[mbox[i]] = payload[mbox[i]]
  BY <1>2, <1>3
<1>8. inHand \in Pbufs => payload'[inHand] = payload[inHand]
  BY <1>2, <1>3
<1>9. CASE ~HasRoom
  <2>1. mbox' = mbox /\ pool' = pool
    BY <1>9 DEF ethernetif_input, sys_mbox_trypost, PoolAfterInput
  <2>2. LwipTypes' /\ EachOnce' /\ FreeOrUnderway' /\ AnswersComing'
    BY <1>1, <1>2, <1>4, <2>1 DEF LwipTypes, EachOnce, FreeOrUnderway, AnswersComing
  <2>3. FramesGrow'
    BY <1>4, <1>6, <1>7, <2>1 DEF FramesGrow
  <2>4. StationsGrow'
    BY <1>1, <1>4, <1>7, <1>8, <2>1 DEF StationsGrow
  <2>5. QED
    BY <2>2, <2>3, <2>4
<1>10. CASE HasRoom
  <2>1. mbox' = Append(mbox, p) /\ pool' = pool \ {p}
    BY <1>10 DEF ethernetif_input, sys_mbox_trypost, PoolAfterInput
  <2>2. /\ mbox' \in Seq(Pbufs \cup Apps) /\ Len(mbox) \in Nat /\ Len(mbox') = Len(mbox) + 1
        /\ \A i \in 1..Len(mbox) : mbox'[i] = mbox[i]
        /\ mbox'[Len(mbox) + 1] = p
    BY <2>1, AppendElements DEF LwipTypes
  <2>3. \A i \in 1..Len(mbox') : i \in 1..Len(mbox) \/ i = Len(mbox) + 1
    BY <2>2
  <2>4. LwipTypes'
    BY <1>1, <1>2, <1>4, <2>1, <2>2 DEF LwipTypes
  <2>5. EachOnce'
    BY <1>3, <1>4, <2>2, <2>3 DEF EachOnce
  <2>6. FreeOrUnderway'
    BY <1>3, <1>4, <2>1, <2>2, <2>3 DEF FreeOrUnderway
  <2>7. AnswersComing'
    <3>1. \A a \in Apps : (\E i \in 1..Len(mbox') : mbox'[i] = a)
                          <=> (\E i \in 1..Len(mbox) : mbox[i] = a)
      BY <1>3, <2>2, <2>3
    <3>2. QED
      BY <1>4, <3>1 DEF AnswersComing
  <2>8. \A i \in 1..Len(mbox) : mbox[i] \in Pbufs => payload[mbox[i]] < ring[1]
    BY <1>1 DEF StationsGrow
  <2>9. FramesGrow'
    <3>1. \A i, j \in 1..Len(mbox') : i < j /\ mbox'[i] \in Pbufs /\ mbox'[j] \in Pbufs
                                      => payload'[mbox'[i]] < payload'[mbox'[j]]
      <4>. SUFFICES ASSUME NEW i \in 1..Len(mbox'), NEW j \in 1..Len(mbox'), i < j,
                           mbox'[i] \in Pbufs, mbox'[j] \in Pbufs
                    PROVE  payload'[mbox'[i]] < payload'[mbox'[j]]
        OBVIOUS
      <4>1. i \in 1..Len(mbox) /\ mbox'[i] = mbox[i]
        BY <2>2, <2>3
      <4>2. CASE j \in 1..Len(mbox)
        BY <1>7, <2>2, <4>1, <4>2 DEF FramesGrow
      <4>3. CASE j = Len(mbox) + 1
        BY <1>2, <1>7, <2>2, <2>8, <4>1, <4>3
      <4>4. QED
        BY <2>3, <4>2, <4>3
    <3>2. QED
      BY <1>4, <1>6, <3>1 DEF FramesGrow
  <2>10. StationsGrow'
    <3>1. \A i \in 1..Len(mbox') : mbox'[i] \in Pbufs =>
            \/ \E j \in 1..Len(mbox) : mbox[j] = mbox'[i] /\ mbox[j] \in Pbufs
                                       /\ payload'[mbox'[i]] = payload[mbox[j]]
            \/ payload'[mbox'[i]] = ring[1]
      BY <1>2, <1>7, <2>2, <2>3
    <3>2. \A i \in 1..Len(delivered') :
            /\ delivered'[i] <= arrived'
            /\ inHand' \in Pbufs => delivered'[i] < payload'[inHand']
            /\ \A j \in 1..Len(mbox') : mbox'[j] \in Pbufs => delivered'[i] < payload'[mbox'[j]]
            /\ \A j \in 1..Len(ring') : delivered'[i] < ring'[j]
      BY <1>1, <1>4, <1>8, <3>1 DEF StationsGrow
    <3>3. inHand' \in Pbufs =>
            /\ payload'[inHand'] <= arrived'
            /\ \A j \in 1..Len(mbox') : mbox'[j] \in Pbufs => payload'[inHand'] < payload'[mbox'[j]]
            /\ \A j \in 1..Len(ring') : payload'[inHand'] < ring'[j]
      BY <1>1, <1>4, <1>8, <3>1 DEF StationsGrow
    <3>4. \A i \in 1..Len(mbox') : mbox'[i] \in Pbufs =>
            /\ payload'[mbox'[i]] <= arrived'
            /\ \A j \in 1..Len(ring') : payload'[mbox'[i]] < ring'[j]
      BY <1>1, <1>4, <1>5, <3>1 DEF StationsGrow
    <3>5. \A i \in 1..Len(ring') : ring'[i] <= arrived'
      BY <1>1, <1>4 DEF StationsGrow
    <3>6. QED
      BY <3>2, <3>3, <3>4, <3>5 DEF StationsGrow
  <2>11. QED
    BY <2>4, <2>5, <2>6, <2>7, <2>9, <2>10
<1>11. QED
  BY <1>9, <1>10

\* A message goes from the head of the mailbox into the hand of the stack.
LEMMA TakeKeeps ==
    ASSUME LwipInv, mbox # <<>>, inHand = Nothing,
           inHand' = Head(mbox), mbox' = Tail(mbox),
           UNCHANGED <<ring, arrived, pool, payload, sem, app, delivered>>
    PROVE  LwipInv'
<1>. USE DEF LwipInv
<1>1. /\ mbox' \in Seq(Pbufs \cup Apps) /\ Len(mbox) \in Nat \ {0} /\ Len(mbox') = Len(mbox) - 1
      /\ \A i \in 1..Len(mbox') : mbox'[i] = mbox[i + 1] /\ i + 1 \in 1..Len(mbox)
      /\ inHand' = mbox[1] /\ mbox[1] \in Pbufs \cup Apps /\ 1 \in 1..Len(mbox)
  BY TailElements DEF LwipTypes
<1>2. \A i \in 1..Len(mbox) : i = 1 \/ (i - 1 \in 1..Len(mbox') /\ mbox'[i - 1] = mbox[i])
  BY <1>1
<1>3. LwipTypes'
  BY <1>1 DEF LwipTypes
<1>4. EachOnce'
  BY <1>1 DEF EachOnce
<1>5. \A x \in Pbufs \cup Apps :
         (x = inHand' \/ \E i \in 1..Len(mbox') : mbox'[i] = x)
         <=> (x = inHand \/ \E i \in 1..Len(mbox) : mbox[i] = x)
  BY <1>1, <1>2, LwipAssumption
<1>6. FreeOrUnderway'
  BY <1>5 DEF FreeOrUnderway
<1>7. AnswersComing'
  BY <1>5 DEF AnswersComing
<1>8. FramesGrow'
  BY <1>1 DEF FramesGrow
<1>9. StationsGrow'
  BY <1>1 DEF StationsGrow, FramesGrow
<1>10. QED
  BY <1>3, <1>4, <1>6, <1>7, <1>8, <1>9

\* The stack's thread ends its work on a packet or a request.
LEMMA FinishKeeps ==
    ASSUME LwipInv, StackFinishes
    PROVE  LwipInv'
<1>. USE DEF LwipInv
<1>1. /\ inHand # Nothing /\ inHand \in Pbufs \cup Apps /\ inHand' = Nothing
      /\ Nothing \notin Pbufs \cup Apps
      /\ UNCHANGED <<ring, arrived, payload, mbox, app>>
  BY LwipAssumption DEF StackFinishes, LwipTypes
<1>2. EachOnce'
  BY <1>1, Elements DEF EachOnce
<1>3. CASE inHand \in Pbufs
  <2>1. /\ delivered' = Append(delivered, payload[inHand]) /\ pool' = pool \cup {inHand}
        /\ sem' = sem /\ inHand \notin Apps /\ payload[inHand] \in Nat
    BY <1>3, LwipAssumption DEF StackFinishes, LwipTypes
  <2>2. /\ delivered' \in Seq(Nat) /\ Len(delivered) \in Nat
        /\ Len(delivered') = Len(delivered) + 1
        /\ \A i \in 1..Len(delivered) : delivered'[i] = delivered[i]
        /\ delivered'[Len(delivered) + 1] = payload[inHand]
    BY <2>1, AppendElements DEF LwipTypes
  <2>3. \A i \in 1..Len(delivered') : i \in 1..Len(delivered) \/ i = Len(delivered) + 1
    BY <2>2
  <2>4. LwipTypes'
    BY <1>1, <1>3, <2>1, <2>2 DEF LwipTypes
  <2>5. FreeOrUnderway'
    BY <1>1, <1>3, <2>1 DEF FreeOrUnderway, EachOnce
  <2>6. AnswersComing'
    BY <1>1, <1>3, <2>1 DEF AnswersComing
  <2>7. FramesGrow'
    <3>1. \A i, j \in 1..Len(delivered') : i < j => delivered'[i] < delivered'[j]
      <4>. SUFFICES ASSUME NEW i \in 1..Len(delivered'), NEW j \in 1..Len(delivered'), i < j
                    PROVE  delivered'[i] < delivered'[j]
        OBVIOUS
      <4>1. i \in 1..Len(delivered) /\ delivered'[i] = delivered[i]
        BY <2>2, <2>3
      <4>2. CASE j \in 1..Len(delivered)
        BY <2>2, <4>1, <4>2 DEF FramesGrow
      <4>3. CASE j = Len(delivered) + 1
        BY <1>3, <2>2, <4>1, <4>3 DEF StationsGrow
      <4>4. QED
        BY <2>3, <4>2, <4>3
    <3>2. QED
      BY <1>1, <3>1 DEF FramesGrow
  <2>8. StationsGrow'
    BY <1>1, <1>3, <2>2, <2>3 DEF StationsGrow
  <2>9. QED
    BY <1>2, <2>4, <2>5, <2>6, <2>7, <2>8
<1>4. CASE inHand \notin Pbufs
  <2>1. /\ inHand \in Apps /\ UNCHANGED <<delivered, pool>>
        /\ sem' = [sem EXCEPT ![inHand] = @ + 1]
    BY <1>1, <1>4 DEF StackFinishes, sys_sem_signal
  <2>2. sem[inHand] = 0
    BY <2>1 DEF AnswersComing
  <2>3. /\ sem' \in [Apps -> Nat] /\ sem'[inHand] = 1
        /\ \A a \in Apps \ {inHand} : sem'[a] = sem[a]
    BY <2>1, <2>2 DEF LwipTypes
  <2>4. LwipTypes'
    BY <1>1, <2>1, <2>3 DEF LwipTypes
  <2>5. FreeOrUnderway'
    BY <1>1, <1>4, <2>1 DEF FreeOrUnderway
  <2>6. AnswersComing'
    BY <1>1, <2>1, <2>3, Elements DEF AnswersComing, EachOnce
  <2>7. FramesGrow' /\ StationsGrow'
    BY <1>1, <2>1 DEF FramesGrow, StationsGrow
  <2>8. QED
    BY <1>2, <2>4, <2>5, <2>6, <2>7
<1>5. QED
  BY <1>3, <1>4

\* sys_mbox_post: the request of a thread goes to the end of the mailbox.
LEMMA PostKeeps ==
    ASSUME LwipInv, NEW a \in Apps, sys_mbox_post(a)
    PROVE  LwipInv'
<1>. USE DEF LwipInv
<1>1. /\ mbox' = Append(mbox, a) /\ app[a] = "posting" /\ app' = [app EXCEPT ![a] = "waiting"]
      /\ UNCHANGED <<ring, arrived, pool, payload, sem, inHand, delivered>>
  BY DEF sys_mbox_post
<1>2. /\ mbox' \in Seq(Pbufs \cup Apps) /\ Len(mbox) \in Nat /\ Len(mbox') = Len(mbox) + 1
      /\ \A i \in 1..Len(mbox) : mbox'[i] = mbox[i]
      /\ mbox'[Len(mbox) + 1] = a
  BY <1>1, AppendElements DEF LwipTypes
<1>3. \A i \in 1..Len(mbox') : i \in 1..Len(mbox) \/ i = Len(mbox) + 1
  BY <1>2
<1>4. /\ sem[a] = 0 /\ a # inHand /\ \A i \in 1..Len(mbox) : mbox[i] # a
      /\ a \notin Pbufs
  BY <1>1, LwipAssumption DEF AnswersComing
<1>5. LwipTypes'
  BY <1>1, <1>2 DEF LwipTypes
<1>6. EachOnce'
  BY <1>1, <1>2, <1>3, <1>4 DEF EachOnce
<1>7. FreeOrUnderway'
  BY <1>1, <1>2, <1>3, <1>4 DEF FreeOrUnderway
<1>8. AnswersComing'
  <2>1. \A b \in Apps \ {a} : /\ app'[b] = app[b]
                              /\ (\E i \in 1..Len(mbox') : mbox'[i] = b)
                                 <=> (\E i \in 1..Len(mbox) : mbox[i] = b)
    <3>1. \A b \in Apps \ {a} : app'[b] = app[b]
      BY <1>1 DEF LwipTypes
    <3>2. \A i \in 1..Len(mbox) : i \in 1..Len(mbox')
      BY <1>2
    <3>3. \A b \in Apps \ {a} : (\E i \in 1..Len(mbox') : mbox'[i] = b)
                                <=> (\E i \in 1..Len(mbox) : mbox[i] = b)
      BY <1>2, <1>3, <3>2
    <3>4. QED
      BY <3>1, <3>3
  <2>2. app'[a] = "waiting" /\ \E i \in 1..Len(mbox') : mbox'[i] = a
    BY <1>1, <1>2 DEF LwipTypes
  <2>3. QED
    BY <1>1, <1>4, <2>1, <2>2 DEF AnswersComing
<1>9. \A i \in 1..Len(mbox') : mbox'[i] \in Pbufs => i \in 1..Len(mbox) /\ mbox'[i] = mbox[i]
  BY <1>2, <1>3, <1>4
<1>10. FramesGrow'
  BY <1>1, <1>9 DEF FramesGrow
<1>11. StationsGrow'
  BY <1>1, <1>9 DEF StationsGrow
<1>12. QED
  BY <1>5, <1>6, <1>7, <1>8, <1>10, <1>11

\* Making a request and taking the answer change the state of one thread.
LEMMA RequestKeeps ==
    ASSUME LwipInv, NEW a \in Apps, Request(a) \/ sys_arch_sem_wait(a)
    PROVE  LwipInv'
<1>. USE DEF LwipInv
<1>1. UNCHANGED <<ring, arrived, pool, payload, mbox, inHand, delivered>>
  BY DEF Request, sys_arch_sem_wait
<1>2. EachOnce' /\ FreeOrUnderway' /\ FramesGrow' /\ StationsGrow'
  BY <1>1 DEF EachOnce, FreeOrUnderway, FramesGrow, StationsGrow
<1>3. CASE Request(a)
  <2>1. app[a] = "idle" /\ app' = [app EXCEPT ![a] = "posting"] /\ UNCHANGED sem
    BY <1>3 DEF Request
  <2>2. LwipTypes' /\ AnswersComing'
    BY <1>1, <2>1 DEF LwipTypes, AnswersComing
  <2>3. QED
    BY <1>1, <1>2, <2>1, <2>2
<1>4. CASE sys_arch_sem_wait(a)
  <2>1. /\ sem[a] = 1 /\ sem' = [sem EXCEPT ![a] = @ - 1] /\ app' = [app EXCEPT ![a] = "idle"]
    BY <1>4 DEF sys_arch_sem_wait, AnswersComing
  <2>2. sem' \in [Apps -> Nat] /\ sem'[a] = 0 /\ app'[a] = "idle"
        /\ app' \in [Apps -> {"idle", "posting", "waiting"}]
        /\ \A b \in Apps \ {a} : sem'[b] = sem[b] /\ app'[b] = app[b]
    BY <2>1 DEF LwipTypes
  <2>3. LwipTypes'
    BY <1>1, <2>2 DEF LwipTypes
  <2>4. AnswersComing'
    BY <1>1, <2>1, <2>2 DEF AnswersComing
  <2>5. QED
    BY <1>2, <2>3, <2>4
<1>5. QED
  BY <1>3, <1>4

\* LwipInv holds in every reachable state of the port, for every pool, mailbox
\* and number of threads.
THEOREM LwipInvariance == LwipSpec => [](LwipInv /\ HandFree)
<1>1. LwipInv /\ HandFree /\ [LwipNext]_lvars => LwipInv'
  <2>. SUFFICES ASSUME LwipInv, HandFree, [LwipNext]_lvars
                PROVE  LwipInv'
    OBVIOUS
  <2>1. ASSUME NEW p \in Pbufs, ethernetif_input(p) PROVE LwipInv'
    BY <2>1, InputKeeps
  <2>2. CASE UNCHANGED <<ring, arrived, pool, payload, mbox, sem, app, inHand, delivered>>
    <3>1. LwipTypes' /\ EachOnce' /\ FreeOrUnderway'
      BY <2>2 DEF LwipInv, LwipTypes, EachOnce, FreeOrUnderway
    <3>2. AnswersComing' /\ FramesGrow' /\ StationsGrow'
      BY <2>2 DEF LwipInv, AnswersComing, FramesGrow, StationsGrow
    <3>3. QED
      BY <3>1, <3>2 DEF LwipInv
  <2>3. ASSUME NEW timeout \in 0..MaxTicks, sys_arch_mbox_fetch(timeout) PROVE LwipInv'
    BY <2>2, <2>3 DEF sys_arch_mbox_fetch
  <2>4. CASE FetchReturns \/ sys_arch_mbox_tryfetch
    <3>1. /\ mbox # <<>> /\ inHand = Nothing
          /\ inHand' = Head(mbox) /\ mbox' = Tail(mbox)
          /\ UNCHANGED <<ring, arrived, pool, payload, sem, app, delivered>>
      BY <2>4 DEF FetchReturns, sys_arch_mbox_tryfetch, HandFree
    <3>2. QED
      BY <3>1, TakeKeeps
  <2>5. CASE FetchTimesOut \/ sys_tick_handler \/ UNCHANGED lvars
    BY <2>2, <2>5 DEF FetchTimesOut, sys_tick_handler, lvars
  <2>6. ASSUME NEW a \in Apps, Request(a) \/ sys_mbox_post(a) \/ sys_arch_sem_wait(a)
        PROVE  LwipInv'
    BY <2>6, PostKeeps, RequestKeeps
  <2>7. QED
    BY <2>1, <2>3, <2>4, <2>5, <2>6, FrameArrivesKeeps, InputDropsKeeps, FinishKeeps DEF LwipNext
<1>2. HandFree /\ [LwipNext]_lvars => HandFree'
  BY DEF HandFree, LwipNext, lvars, FrameArrives, InputDrops, ethernetif_input,
     sys_arch_mbox_fetch, FetchReturns, FetchTimesOut, sys_arch_mbox_tryfetch, StackFinishes,
     Request, sys_mbox_post, sys_arch_sem_wait, sys_tick_handler
<1>3. LwipInit => HandFree
  BY DEF LwipInit, HandFree
<1>4. QED
  BY <1>1, <1>2, <1>3, LwipInitially, PTL DEF LwipSpec

\* How often x is under way is 0 or 1 when nothing is in the mailbox twice.
LEMMA UnderwayOnce ==
    ASSUME LwipInv, NEW x \in Pbufs \cup Apps
    PROVE  Underway(x) = IF x = inHand \/ \E i \in 1..Len(mbox) : mbox[i] = x THEN 1 ELSE 0
<1>. DEFINE At == {i \in DOMAIN mbox : mbox[i] = x}
<1>1. At = {i \in 1..Len(mbox) : mbox[i] = x}
  BY DEF LwipInv, LwipTypes
<1>2. CASE \E i \in 1..Len(mbox) : mbox[i] = x
  <2>1. PICK k \in 1..Len(mbox) : mbox[k] = x
    BY <1>2
  <2>2. At = {k} /\ x # inHand
    BY <1>1, <2>1 DEF LwipInv, EachOnce
  <2>3. Cardinality(At) = 1
    BY <2>2, FS_Singleton
  <2>4. QED
    BY <2>1, <2>2, <2>3 DEF Underway
<1>3. CASE ~\E i \in 1..Len(mbox) : mbox[i] = x
  <2>1. Cardinality(At) = 0
    BY <1>1, <1>3, FS_EmptySet
  <2>2. QED
    BY <1>3, <2>1 DEF Underway
<1>4. QED
  BY <1>2, <1>3

\* No packet and no request is lost, duplicated or overtaken between the receive
\* ring, the mailbox, the stack's thread and the waiting applications
\* (ethernetif_input, sys_mbox_trypost, sys_mbox_post, sys_arch_mbox_fetch).
THEOREM MailIsConserved == LwipSpec => []MailConserved
<1>1. LwipInv => MailConserved
  <2>. SUFFICES ASSUME LwipInv PROVE MailConserved
    OBVIOUS
  <2>1. \A p \in Pbufs : Underway(p) = IF p \in pool THEN 0 ELSE 1
    BY UnderwayOnce DEF LwipInv, FreeOrUnderway
  <2>2. \A a \in Apps : Underway(a) + sem[a] = IF app[a] = "waiting" THEN 1 ELSE 0
    <3>. SUFFICES ASSUME NEW a \in Apps
                  PROVE  Underway(a) + sem[a] = IF app[a] = "waiting" THEN 1 ELSE 0
      OBVIOUS
    <3>1. CASE sem[a] = 1
      BY <3>1, UnderwayOnce DEF LwipInv, AnswersComing
    <3>2. CASE sem[a] = 0
      BY <3>2, UnderwayOnce DEF LwipInv, AnswersComing
    <3>3. QED
      BY <3>1, <3>2 DEF LwipInv, AnswersComing
  <2>3. ASSUME NEW f \in FramesUnderway, NEW g \in FramesUnderway, Ahead(f, g)
        PROVE  f[3] < g[3]
    <3>1. /\ DOMAIN delivered = 1..Len(delivered) /\ DOMAIN mbox = 1..Len(mbox)
          /\ DOMAIN ring = 1..Len(ring)
      BY DEF LwipInv, LwipTypes
    <3>2. \/ \E i \in 1..Len(delivered) : f = <<1, i, delivered[i]>>
          \/ inHand \in Pbufs /\ f = <<2, 1, payload[inHand]>>
          \/ \E i \in 1..Len(mbox) : mbox[i] \in Pbufs /\ f = <<3, i, payload[mbox[i]]>>
          \/ \E i \in 1..Len(ring) : f = <<4, i, ring[i]>>
      BY <3>1 DEF FramesUnderway
    <3>3. \/ \E i \in 1..Len(delivered) : g = <<1, i, delivered[i]>>
          \/ inHand \in Pbufs /\ g = <<2, 1, payload[inHand]>>
          \/ \E i \in 1..Len(mbox) : mbox[i] \in Pbufs /\ g = <<3, i, payload[mbox[i]]>>
          \/ \E i \in 1..Len(ring) : g = <<4, i, ring[i]>>
      BY <3>1 DEF FramesUnderway
    <3>4. CASE \E i \in 1..Len(delivered) : f = <<1, i, delivered[i]>>
      BY <2>3, <3>3, <3>4 DEF Ahead, LwipInv, FramesGrow, StationsGrow
    <3>5. CASE inHand \in Pbufs /\ f = <<2, 1, payload[inHand]>>
      BY <2>3, <3>3, <3>5 DEF Ahead, LwipInv, FramesGrow, StationsGrow
    <3>6. CASE \E i \in 1..Len(mbox) : mbox[i] \in Pbufs /\ f = <<3, i, payload[mbox[i]]>>
      BY <2>3, <3>3, <3>6 DEF Ahead, LwipInv, FramesGrow, StationsGrow
    <3>7. CASE \E i \in 1..Len(ring) : f = <<4, i, ring[i]>>
      BY <2>3, <3>3, <3>7 DEF Ahead, LwipInv, FramesGrow, StationsGrow
    <3>8. QED
      BY <3>2, <3>4, <3>5, <3>6, <3>7
  <2>4. QED
    BY <2>1, <2>2, <2>3 DEF MailConserved, LwipInv, LwipTypes
<1>2. QED
  BY <1>1, LwipInvariance, PTL
=============================================================================
