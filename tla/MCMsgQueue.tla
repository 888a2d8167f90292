----------------------------- MODULE MCMsgQueue -----------------------------
(* Model-checking instances of MsgQueue.                                    *)
EXTENDS MsgQueue, TLC

MCMessages == [type : {1, 2}]

Symmetry == Permutations(Tasks)
=============================================================================
