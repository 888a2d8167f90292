-------------------------------- MODULE KvTxn --------------------------------
(***************************************************************************)
(* transaction.c: transactions that collect put and delete operations and  *)
(* run them one by one against the database when they commit.  The         *)
(* database itself (kvdb_put, kvdb_get, kvdb_delete: declared in kvdb.h,   *)
(* defined nowhere) is a map whose writes may fail.                        *)
(***************************************************************************)
EXTENDS Naturals, SequencesExt

CONSTANTS Txns,       \* the transactions the program starts
          Keys, Values,
          NOTFOUND,   \* no value (KVDB_ERR_NOTFOUND)
          MaxOps      \* bound on the operations of one transaction

ASSUME KvTxnAssumption == NOTFOUND \notin Values /\ MaxOps \in Nat

VARIABLES
    db,       \* the database
    ops,      \* txn->ops: the list of operations, newest first
    phase,    \* "none", "open", "committing" (in the loop), "ok", "failed", "aborted"
    op,       \* the operations the commit loop has yet to run
    program,  \* history: the operations in the order in which they were requested
    base      \* history: the database when the commit started

vars == <<db, ops, phase, op, program, base>>

Op == [key : Keys, value : Values \cup {NOTFOUND}]  \* value NOTFOUND: TXN_OP_DELETE

Init ==
    /\ db = [k \in Keys |-> NOTFOUND]
    /\ ops = [x \in Txns |-> <<>>] /\ op = [x \in Txns |-> <<>>]
    /\ program = [x \in Txns |-> <<>>]
    /\ phase = [x \in Txns |-> "none"]
    /\ base = [x \in Txns |-> db]

-----------------------------------------------------------------------------
(* Mutated forms of the definitions below. *)

\* The operation is put at the end of the list.
AddLast(list, o) == Append(list, o)

\* The error of an operation is noticed one operation too late.
RunOpNoticesLate(x) ==
    /\ phase[x] = "committing" /\ op[x] # <<>>
    /\ \/ /\ db' = [db EXCEPT ![Head(op[x]).key] = Head(op[x]).value]
          /\ op' = [op EXCEPT ![x] = Tail(@)]
          /\ UNCHANGED <<ops, phase>>
       \/ /\ Len(op[x]) > 1
          /\ phase' = [phase EXCEPT ![x] = "failed"]
          /\ db' = [db EXCEPT ![op[x][2].key] = op[x][2].value]
          /\ ops' = [ops EXCEPT ![x] = <<>>]
          /\ UNCHANGED op
    /\ UNCHANGED <<program, base>>

-----------------------------------------------------------------------------
(* The operations. *)

kvdb_txn_begin(x) ==
    /\ phase[x] = "none"
    /\ phase' = [phase EXCEPT ![x] = "open"]
    /\ UNCHANGED <<db, ops, op, program, base>>

\* op->next = txn->ops; txn->ops = op.
AddFirst(list, o) == <<o>> \o list

\* If malloc fails nothing changes.
txn_add_op(x, o) ==
    /\ phase[x] = "open"
    /\ Len(ops[x]) < MaxOps
    /\ ops' = [ops EXCEPT ![x] = AddFirst(@, o)]
    /\ program' = [program EXCEPT ![x] = Append(@, o)]
    /\ UNCHANGED <<db, phase, op, base>>

kvdb_txn_put(x, k, v) == txn_add_op(x, [key |-> k, value |-> v])
kvdb_txn_delete(x, k) == txn_add_op(x, [key |-> k, value |-> NOTFOUND])

\* What kvdb_txn_get returns: the first operation on the key in the list, or
\* what the database has.
kvdb_txn_get(x, k) ==
    LET hits == {i \in DOMAIN ops[x] : ops[x][i].key = k}
    IN  IF hits = {} THEN db[k]
        ELSE ops[x][CHOOSE i \in hits : \A j \in hits : i <= j].value

\* kvdb_txn_commit up to its loop.
StartCommit(x) ==
    /\ phase[x] = "open"
    /\ phase' = [phase EXCEPT ![x] = "committing"]
    /\ op' = [op EXCEPT ![x] = ops[x]]
    /\ base' = [base EXCEPT ![x] = db]
    /\ UNCHANGED <<db, ops, program>>

\* One round of the loop: kvdb_put or kvdb_delete.  An error ends the loop;
\* kvdb_txn_abort then frees the list and the error is returned.
RunOp(x) ==
    /\ phase[x] = "committing" /\ op[x] # <<>>
    /\ \/ /\ db' = [db EXCEPT ![Head(op[x]).key] = Head(op[x]).value]
          /\ op' = [op EXCEPT ![x] = Tail(@)]
          /\ UNCHANGED phase
          /\ UNCHANGED ops
       \/ /\ phase' = [phase EXCEPT ![x] = "failed"]
          /\ ops' = [ops EXCEPT ![x] = <<>>]
          /\ UNCHANGED <<db, op>>
    /\ UNCHANGED <<program, base>>

\* The loop is over: kvdb_txn_abort frees the list, KVDB_OK is returned.
EndCommit(x) ==
    /\ phase[x] = "committing" /\ op[x] = <<>>
    /\ phase' = [phase EXCEPT ![x] = "ok"]
    /\ ops' = [ops EXCEPT ![x] = <<>>]
    /\ UNCHANGED <<db, op, program, base>>

kvdb_txn_abort(x) ==
    /\ phase[x] = "open"
    /\ phase' = [phase EXCEPT ![x] = "aborted"]
    /\ ops' = [ops EXCEPT ![x] = <<>>]
    /\ UNCHANGED <<db, op, program, base>>

Next ==
    \E x \in Txns :
        \/ kvdb_txn_begin(x)
        \/ \E k \in Keys : kvdb_txn_delete(x, k) \/ \E v \in Values : kvdb_txn_put(x, k, v)
        \/ StartCommit(x)
        \/ RunOp(x)
        \/ EndCommit(x)
        \/ kvdb_txn_abort(x)

Spec == Init /\ [][Next]_vars

-----------------------------------------------------------------------------
(* Properties. *)

\* The database d after running the operations s in order: for every key the
\* last operation on it counts.
Replay(d, s) ==
    [k \in Keys |->
        LET hits == {i \in DOMAIN s : s[i].key = k}
        IN  IF hits = {} THEN d[k]
            ELSE s[CHOOSE i \in hits : \A j \in hits : i >= j].value]

\* A transaction sees its own operations, the latest on each key first, and the
\* database otherwise (kvdb_txn_get).
ReadsOwnWrites ==
    \A x \in Txns : phase[x] = "open" =>
        \A k \in Keys : kvdb_txn_get(x, k) = Replay(db, program[x])[k]

OneOpPerKey(s) == \A i, j \in DOMAIN s : s[i].key = s[j].key => i = j
OthersQuiet(x) == \A y \in Txns \ {x} : phase[y] \in {"none", "open", "aborted"}

\* A commit that fails has run some of the operations, the newest ones, and
\* nothing else: there is no roll-back.
FailedCommitIsPartial ==
    \A x \in Txns : phase[x] = "failed" /\ OthersQuiet(x) =>
        \E n \in 0..(Len(program[x]) - 1) :
            db = Replay(base[x], SubSeq(Reverse(program[x]), 1, n))

\* A commit that succeeds has the effect of the operations in the order in which
\* the program asked for them.
CommitInOrder ==
    \A x \in Txns : phase[x] = "ok" /\ OthersQuiet(x)
                    => db = Replay(base[x], program[x])
=============================================================================
