-------------------------------- MODULE Mqtt --------------------------------
(***************************************************************************)
(* The MQTT client as far as the repository has it: the CONNECT packet of  *)
(* mqtt_protocol.c and the network context of mqtt_network.c.  The code    *)
(* that would call them (mqtt_client_connect of mqtt.h) is missing; here   *)
(* it makes a context, connects it once, moves bytes and destroys it.      *)
(* Strings are sequences of bytes; Absent is a NULL pointer.               *)
(***************************************************************************)
EXTENDS Integers, Sequences, FiniteSets

CONSTANTS
    Configs,            \* the configurations (mqtt_config_t) tried
    Absent,             \* NULL
    MaxAddresses,       \* how many addresses getaddrinfo finds at most
    ProbeLengths        \* lengths for which the encoding is examined

ASSUME MqttAssumption == MaxAddresses \in Nat

VARIABLES
    config,         \* the caller's configuration
    net,            \* the network_t
    fds,            \* the descriptors the process has open
    objects,        \* the OpenSSL objects that exist
    addresses,      \* how many addresses of addr_list are left to try
    mpc,            \* where the client is
    last,           \* what the last network_read or network_write returned
    made,           \* history: the sockets made for net
    resolved        \* history: getaddrinfo found the host

mvars == <<config, net, fds, objects, addresses, mpc, last, made, resolved>>

-----------------------------------------------------------------------------
(* mqtt_protocol.c *)

\* A slip: while (length >= 128) instead of while (length > 0), so that the last
\* digit is missing if there are several.
EncodeStopsAt128(length) ==
    LET left[i \in 0..5] == IF i = 0 THEN length ELSE left[i - 1] \div 128
        encoded == CHOOSE n \in 1..5 : left[n] < 128 /\ (n = 1 \/ left[n - 1] >= 128)
    IN  [i \in 1..encoded |-> (left[i - 1] % 128) + (IF left[i] > 0 THEN 128 ELSE 0)]

\* The length as it is left after i rounds of the loop, which a uint32_t ends after
\* five at the latest, and the bytes those rounds write.
mqtt_encode_remaining_length(length) ==
    LET left[i \in 0..5] == IF i = 0 THEN length ELSE left[i - 1] \div 128
        encoded == CHOOSE n \in 1..5 : left[n] = 0 /\ (n = 1 \/ left[n - 1] > 0)
    IN  [i \in 1..encoded |-> (left[i - 1] % 128) + (IF left[i] > 0 THEN 128 ELSE 0)]

(***************************************************************************)
(* The value and the number of bytes it took; no value when the fourth     *)
(* byte announces a fifth.                                                 *)
(***************************************************************************)
mqtt_decode_remaining_length(buf) ==
    LET multiplier == <<1, 128, 16384, 2097152>>
        length[i \in 0..4] ==
            IF i = 0 THEN 0 ELSE length[i - 1] + (buf[i] % 128) * multiplier[i]
        ends(i) == buf[i] < 128 /\ \A j \in 1..(i - 1) : buf[j] >= 128
        decoded == {i \in 1..4 : i <= Len(buf) /\ ends(i)}
    IN  IF decoded = {} THEN [decoded |-> -1, value |-> 0]      \* MQTT_ERR_PROTOCOL
        ELSE LET n == CHOOSE n \in decoded : TRUE IN [decoded |-> n, value |-> length[n]]

Word(n) == <<(n \div 256) % 256, n % 256>>
Text(s) == IF s = Absent THEN <<>> ELSE Word(Len(s)) \o s
Flag(condition, bits) == IF condition THEN bits ELSE 0

connect_flags(c) ==
    Flag(c.clean_session, 2) + Flag(c.username # Absent, 128) + Flag(c.password # Absent, 64)
    + Flag(c.will_topic # Absent, 4 + (c.will_qos % 4) * 8 + Flag(c.will_retain, 32))

Protocol == <<0, 4, 77, 81, 84, 84, 4>>     \* "MQTT" with its length, MQTT_PROTOCOL_V4

\* n bytes from offset from on are copied to offset to, in a buffer that counts
\* from 0 as in C.
memmove(buf, to, from, n) ==
    [i \in DOMAIN buf |-> IF i \in (to + 1)..(to + n) THEN buf[i - to + from] ELSE buf[i]]

Gap == <<0, 0, 0, 0>>

(***************************************************************************)
(* mqtt_create_connect_packet leaves four bytes for the remaining length,  *)
(* writes it there, then moves what follows down to the bytes it took.     *)
(***************************************************************************)
mqtt_create_connect_packet(c) ==
    LET will  == IF c.will_topic = Absent THEN <<>> ELSE Text(c.will_topic) \o Text(c.will_message)
        buf   == <<16>> \o Gap \o Protocol \o <<connect_flags(c)>> \o Word(c.keepalive)
                   \o Text(c.client_id) \o will \o Text(c.username) \o Text(c.password)
        len   == Len(buf)
        remaining_length == mqtt_encode_remaining_length(len - 5)
        bytes == Len(remaining_length)
        filled == [i \in DOMAIN buf |-> IF i \in 2..(bytes + 1) THEN remaining_length[i - 1] ELSE buf[i]]
    IN  SubSeq(memmove(filled, 1 + bytes, 5, len - 5), 1, len - (4 - bytes))

-----------------------------------------------------------------------------
(* mqtt_network.c *)

MqttInit ==
    /\ config \in Configs
    /\ net = Absent /\ fds = {0} /\ objects = {} /\ addresses = 0
    /\ mpc = "none" /\ last = "none" /\ made = {} /\ resolved = FALSE

Unused == CHOOSE fd \in 0..(Cardinality(fds)) : fd \notin fds /\ \A g \in 0..(fd - 1) : g \in fds

\* calloc: the socket of a new context is descriptor 0.
network_new ==
    /\ mpc = "none"
    /\ net' = [socket |-> 0, ssl |-> FALSE, ssl_ctx |-> FALSE]
    /\ mpc' = "new"
    /\ UNCHANGED <<config, fds, objects, addresses, last, made, resolved>>

\* network_connect up to its loop: getaddrinfo fails or finds n addresses.
network_connect(n) ==
    /\ mpc = "new"
    /\ addresses' = n
    /\ resolved' = (n # 0)
    /\ mpc' = IF n = 0 THEN "failed" ELSE "trying"
    /\ UNCHANGED <<config, net, fds, objects, last, made>>

\* What follows an address: TLS or the end after a connection, else the next address.
AfterTry(ok) ==
    mpc' = IF ok THEN (IF config.use_ssl THEN "ctx" ELSE "ready")
           ELSE IF addresses = 1 THEN "failed" ELSE "trying"

\* A socket whose connect() failed is forgotten, not closed.
TryAddressLeaks(outcome) ==
    LET fd == Unused
    IN  /\ mpc = "trying"
        /\ addresses' = addresses - 1
        /\ net' = [net EXCEPT !.socket = IF outcome = "connected" THEN fd ELSE -1]
        /\ fds' = IF outcome = "no socket" THEN fds ELSE fds \cup {fd}
        /\ made' = IF outcome = "no socket" THEN made ELSE made \cup {fd}
        /\ AfterTry(outcome = "connected")
        /\ UNCHANGED <<config, objects, last, resolved>>

(***************************************************************************)
(* One turn of the loop: socket() or connect() fails, or both succeed.     *)
(***************************************************************************)
TryAddress(outcome) ==
    LET fd == Unused
    IN  /\ mpc = "trying"
        /\ addresses' = addresses - 1
        /\ net' = [net EXCEPT !.socket = IF outcome = "connected" THEN fd ELSE -1]
        /\ fds' = IF outcome = "connected" THEN fds \cup {fd} ELSE fds
        /\ made' = IF outcome = "no socket" THEN made ELSE made \cup {fd}
        /\ AfterTry(outcome = "connected")
        /\ UNCHANGED <<config, objects, last, resolved>>

(***************************************************************************)
(* The TLS part: the context, the certificates loaded into it, the         *)
(* connection, the handshake.  Each may fail with MQTT_ERR_TLS and leaves  *)
(* what exists so far to network_destroy.                                  *)
(***************************************************************************)
TlsStep(ok) ==
    /\ mpc \in {"ctx", "certificates", "ssl", "tls handshake"}
    /\ mpc' = IF ~ok THEN "failed"
              ELSE CASE mpc = "ctx"          -> "certificates"
                     [] mpc = "certificates" -> "ssl"
                     [] mpc = "ssl"          -> "tls handshake"
                     [] OTHER                -> "ready"
    /\ objects' = objects \cup (IF ok /\ mpc \in {"ctx", "ssl"} THEN {mpc} ELSE {})
    /\ net' = [net EXCEPT !.ssl_ctx = @ \/ (ok /\ mpc = "ctx"), !.ssl = @ \/ (ok /\ mpc = "ssl")]
    /\ UNCHANGED <<config, fds, addresses, last, made, resolved>>

(***************************************************************************)
(* network_read and network_write wait for the socket with select, then    *)
(* make one call that may move fewer bytes than asked for, or none.        *)
(***************************************************************************)
Transferred(select, moved) ==
    CASE select = "error"   -> "MQTT_ERR_UNKNOWN"
      [] select = "timeout" -> "MQTT_ERR_TIMEOUT"
      [] moved = "error"    -> "MQTT_ERR_CONN_LOST"
      [] OTHER              -> moved

network_read(select, moved) ==
    /\ mpc = "ready"
    /\ last' = Transferred(select, moved)
    /\ UNCHANGED <<config, net, fds, objects, addresses, mpc, made, resolved>>

network_write(select, moved) ==
    /\ mpc = "ready"
    /\ last' = Transferred(select, moved)
    /\ UNCHANGED <<config, net, fds, objects, addresses, mpc, made, resolved>>

network_destroy ==
    /\ mpc \in {"new", "failed", "ready"}
    /\ objects' = objects \ ((IF net.ssl THEN {"ssl"} ELSE {}) \cup (IF net.ssl_ctx THEN {"ctx"} ELSE {}))
    /\ fds' = IF net.socket >= 0 THEN fds \ {net.socket} ELSE fds
    /\ net' = Absent
    /\ mpc' = "destroyed"
    /\ UNCHANGED <<config, addresses, last, made, resolved>>

MqttNext ==
    \/ network_new
    \/ \E n \in 0..MaxAddresses : network_connect(n)
    \/ \E outcome \in {"no socket", "refused", "connected"} : TryAddress(outcome)
    \/ \E ok \in BOOLEAN : TlsStep(ok)
    \/ \E select \in {"error", "timeout", "ready"}, moved \in {"error", "some", "all"} :
          network_read(select, moved) \/ network_write(select, moved)
    \/ network_destroy

MqttSpec == MqttInit /\ [][MqttNext]_mvars

-----------------------------------------------------------------------------

\* The strings of the rest of a packet, each after its length.
Strings(bytes) ==
    LET from[at \in Nat] ==
            LET n == bytes[at] * 256 + bytes[at + 1]
            IN  IF at > Len(bytes) THEN <<>>
                ELSE <<SubSeq(bytes, at + 2, at + n + 1)>> \o from[at + n + 2]
    IN  from[1]

Present(strings) == SelectSeq(strings, LAMBDA s : s # Absent)

(***************************************************************************)
(* A broker that reads the CONNECT packet that goes out on a connection    *)
(* finds the configuration in it:                                          *)
(* the remaining length, decoded by mqtt_decode_remaining_length, counts   *)
(* exactly the bytes that follow it (the packet was moved by the right     *)
(* amount, whichever number of bytes the length takes), the flags say      *)
(* which strings there are, and those are the configured ones in order.    *)
(* A length of up to four bytes survives encoding and decoding.            *)
(***************************************************************************)
ConnectDecodes ==
    mpc = "ready" =>
    /\ LET packet == mqtt_create_connect_packet(config)
           length == mqtt_decode_remaining_length(Tail(packet))
           body   == SubSeq(packet, length.decoded + 2, Len(packet))
           flags  == body[8]
           wills  == IF (flags \div 4) % 2 = 1 THEN <<config.will_topic, config.will_message>>
                     ELSE <<>>
       IN  /\ length.value = Len(body)
           /\ Strings(SubSeq(body, 11, Len(body)))
                 = <<config.client_id>> \o wills \o Present(<<config.username, config.password>>)
           /\ (config.will_topic # Absent) = ((flags \div 4) % 2 = 1)
           /\ (config.username # Absent) = (flags \div 128 = 1)
           /\ (config.password # Absent) = ((flags \div 64) % 2 = 1)
    /\ \A n \in ProbeLengths :
          mqtt_decode_remaining_length(mqtt_encode_remaining_length(n)).value = n

(***************************************************************************)
(* However far network_connect got, network_destroy releases what it made: *)
(* no socket and no TLS object outlives the context.  It closes nothing    *)
(* that is not its own either, once the host was resolved; before that the *)
(* socket of the context is the 0 calloc put there, and descriptor 0 is    *)
(* closed.                                                                 *)
(***************************************************************************)
NetworkReleased ==
    mpc = "destroyed" => /\ objects = {}
                         /\ fds \cap (made \ {0}) = {}
                         /\ resolved => 0 \in fds
=============================================================================
