----------------------------- MODULE MCServices -----------------------------
(***************************************************************************)
(* Model-checking instance of the services above the kernel, which share   *)
(* no state with one another: the key-value database (its transactions,    *)
(* its data file and index), epoll, the WebSocket server, the MQTT client, *)
(* lwIP's port layer and JSON.  A behaviour is one of one service, and the *)
(* others stay as they start.                                              *)
(***************************************************************************)
EXTENDS KvTxn, KvStore, Epoll, WsServer, Mqtt, LwipPort, Json

VARIABLE part    \* the service that takes the steps

txnVars == vars
allVars == <<txnVars, kvars, evars, wvars, mvars, lvars, jvars, part>>

-----------------------------------------------------------------------------
(* Values of the constants that are too long for the configuration file.   *)

\* Key-value store: every key is stored with the same two bytes.
MCStoredValues == {<<2, 1>>}

\* WebSocket: a request with the headers the handshake looks for, and one with a
\* header more than fits.  The peers send a short text, a ping and a close, and
\* the shortest binary message with an extended length.
Upgrade == << <<"Upgrade", "websocket">>, <<"Connection", "Upgrade">>,
              <<"Sec-WebSocket-Key", "k">>, <<"Sec-WebSocket-Version", "13">> >>
MCRequests == {[method |-> "GET", headers |-> Upgrade],
               [method |-> "GET", headers |-> << <<"Host", "h">> >> \o Upgrade]}
MCScript == [c1 |-> << <<1, <<7, 8, 9, 10, 11>> >>, <<9, <<>> >>, <<8, <<3, 232>> >> >>,
             c2 |-> << <<2, [i \in 1..126 |-> i % 7]>> >>,
             c3 |-> <<>>]
MCMaskingKey == <<1, 2, 4, 8>>

\* MQTT: strings with which the remaining length takes one byte and just two,
\* with and without each of the optional parts; and lengths around its limits.
Letters(n) == [i \in 1..n |-> 97]
MCConfigs ==
    {[client_id |-> Letters(n), username |-> user, password |-> pass, keepalive |-> 300,
      clean_session |-> TRUE, will_topic |-> will, will_message |-> Letters(2), will_qos |-> 2,
      will_retain |-> FALSE, use_ssl |-> tls] :
        n \in {0, 115, 116}, user \in {Absent, Letters(1)}, pass \in {Absent, Letters(2)},
        will \in {Absent, Letters(4)}, tls \in BOOLEAN}
MCProbeLengths == UNION {{n - 1, n, n + 1} : n \in {1, 128, 16384, 2097152, 268435454}}

\* JSON: all strings of up to three of these characters, numbers, short arrays.
\* The numbers are ints, have six places, a seventh that is dropped up or down,
\* with a carry into the whole part, and are printed with "%e" at either end.
Number(neg, whole, frac) == [neg |-> neg, whole |-> whole, frac |-> frac]
Numbers == {Number(FALSE, 0, 0), Number(TRUE, 1, 0), Number(FALSE, 2147483647, 0),
            Number(TRUE, 0, 10), Number(FALSE, 10, 5000000), Number(TRUE, 20, 9999990),
            Number(FALSE, 0, 1234567), Number(TRUE, 7, 1234561), Number(FALSE, 19, 9999997),
            Number(TRUE, 0, 9), Number(FALSE, 0, 1), Number(FALSE, 0, 11),
            Number(FALSE, 999999999, 9999996), Number(TRUE, 1234567890, 5000000)}
StringItem(s) == [type |-> "String", value |-> s]
NumberItem(n) == [type |-> "Number", value |-> n]
MCItems ==
    {StringItem(s) : s \in SeqOf({1, 10, 31, Quote, Slash, 97, 117, 195}, 3)}
    \cup {NumberItem(n) : n \in Numbers}
    \cup {[type |-> "Array", value |-> v] :
            v \in SeqOf({StringItem(<<>>), StringItem(<<Quote>>), NumberItem(Number(TRUE, 20, 50))}, 3)}
MCCodePoints == {1, 127, 128, 2047, 2048, 55295, 57344, 65535, 65536, 128512, 1114111}
\* 1e3, -2.5E-1 and -0.
MCLiterals == {<< <<49, 101, 51>>, Number(FALSE, 1000, 0)>>,
               << <<45, 50, 46, 53, 69, 45, 49>>, Number(TRUE, 0, 2500000)>>,
               << <<45, 48>>, Number(FALSE, 0, 0)>>}

-----------------------------------------------------------------------------

ServicesInit ==
    /\ part \in {"transactions", "store", "epoll", "websocket", "mqtt", "lwip", "json"}
    /\ Init /\ KvInit /\ EpollInit /\ WsInit /\ MqttInit /\ LwipInit /\ JsonInit
    /\ part # "mqtt" => config = CHOOSE c \in Configs : c.client_id = <<>>

Transactions == Next       /\ UNCHANGED <<kvars, evars, wvars, mvars, lvars, jvars>>
Store        == KvNext     /\ UNCHANGED <<txnVars, evars, wvars, mvars, lvars, jvars>>
Polling      == EpollNext  /\ UNCHANGED <<txnVars, kvars, wvars, mvars, lvars, jvars>>
WebSocket    == WsNext     /\ UNCHANGED <<txnVars, kvars, evars, mvars, lvars, jvars>>
MqttClient   == MqttNext   /\ UNCHANGED <<txnVars, kvars, evars, wvars, lvars, jvars>>
NetworkStack == LwipNext   /\ UNCHANGED <<txnVars, kvars, evars, wvars, mvars, jvars>>
JsonLibrary  == JsonNext   /\ UNCHANGED <<txnVars, kvars, evars, wvars, mvars, lvars>>

ServicesNext ==
    /\ \/ part = "transactions" /\ Transactions
       \/ part = "store"        /\ Store
       \/ part = "epoll"        /\ Polling
       \/ part = "websocket"    /\ WebSocket
       \/ part = "mqtt"         /\ MqttClient
       \/ part = "lwip"         /\ NetworkStack
       \/ part = "json"         /\ JsonLibrary
    /\ UNCHANGED part

ServicesSpec == ServicesInit /\ [][ServicesNext]_allVars

\* A WebSocket connection is followed until a frame of it was cut in two by recv.
NoFrameCut == cut = {}

\* Of the descriptors only one is ever registered for the event e2.
OneForE2 ==
    /\ \A s \in Slots, fd \in RbNodes \ {4} : registered[s][fd] # "e2"
    /\ \A u \in Users : call[u][1] = "ctl" /\ call[u][5] = "e2" => call[u][4] = 4
=============================================================================
