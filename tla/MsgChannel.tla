----------------------------- MODULE MsgChannel -----------------------------
(***************************************************************************)
(* What ipc.h promises of a message queue: a bounded sequence of messages  *)
(* with a type each.  msgq_send appends, msgq_receive takes the oldest     *)
(* message of the type it asks for (0: of any type).                       *)
(***************************************************************************)
EXTENDS Naturals, Sequences

CONSTANTS Tasks, NULL,
          Messages,  \* the messages, records with a field type
          Capacity   \* max_msgs

VARIABLES chan,  \* the messages in the queue, oldest first
          got    \* what a task asked for and got, until its call returns

ChanInit == chan = <<>> /\ got = [t \in Tasks |-> NULL]

Matches(m, type) == type = 0 \/ m.type = type

Send(m) == Len(chan) < Capacity /\ chan' = Append(chan, m) /\ UNCHANGED got

Receive(t, type) ==
    \E i \in DOMAIN chan :
        /\ Matches(chan[i], type)
        /\ \A j \in 1..(i - 1) : ~Matches(chan[j], type)
        /\ chan' = SubSeq(chan, 1, i - 1) \o SubSeq(chan, i + 1, Len(chan))
        /\ got' = [got EXCEPT ![t] = [type |-> type, msg |-> chan[i]]]

Return(t) == got[t] # NULL /\ got' = [got EXCEPT ![t] = NULL] /\ UNCHANGED chan

ChanNext ==
    \/ \E m \in Messages : Send(m)
    \/ \E t \in Tasks : \/ \E type \in {0} \cup {m.type : m \in Messages} : Receive(t, type)
                        \/ Return(t)

ChanSpec == ChanInit /\ [][ChanNext]_<<chan, got>>
=============================================================================
