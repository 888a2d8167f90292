------------------------------ MODULE WsServer ------------------------------
(***************************************************************************)
(* server.c and handshake.c: the WebSocket server.  One thread accepts,    *)
(* every connection has a thread of its own, and client_manager.lock       *)
(* guards the table of clients.  The peer and the socket are external: a   *)
(* recv returns any non-empty part of what is still to come, or fails (the *)
(* sockets are non-blocking, so finding nothing there is a failure too).   *)
(*                                                                         *)
(* on_connect is tested and called by client_thread, but ws_server_start   *)
(* copies only on_message and on_close to a connection, so no step calls   *)
(* it.                                                                     *)
(***************************************************************************)
EXTENDS WsFrame, SequencesExt

CONSTANTS
    Conns,              \* the connections peers make
    MAX_CLIENTS,
    MAX_HEADERS,        \* how many headers a request may have
    BUFFER_SIZE,        \* of client_thread
    RecvSizes,          \* how many bytes a recv may bring
    Requests,           \* the requests a peer may open with
    Script,             \* connection -> the frames its peer sends, as <<opcode, payload>>
    MaskingKey,         \* the key the peers mask their frames with
    MaxBroadcasts       \* bound on the messages the application broadcasts

ASSUME WsAssumption == MAX_CLIENTS \in Nat

VARIABLES
    clients,        \* client_manager.clients[0 .. client_count - 1]
    lock,           \* client_manager.lock: "free", or held by "broadcast"
    next,           \* where broadcast_message is in its loop
    broadcasts,     \* how many were started
    wpc,            \* connection -> where its thread is
    rx,             \* connection -> how many bytes of its peer's stream were received
    out,            \* connection -> what the server sent on it
    handled,        \* connection -> the frames handed to handle_client_message
    cut,            \* history: a recv ended inside a frame, whose rest the loop dropped
    unlisted        \* history: add_client found the table full

wvars == <<clients, lock, next, broadcasts, wpc, rx, out, handled, cut, unlisted>>

(***************************************************************************)
(* External: the bytes a peer puts on the wire, and where in them its n-th *)
(* frame ends (with a header of 6 or, for an extended length, 8 bytes).    *)
(***************************************************************************)
Stream ==
    [c \in Conns |-> FlattenSeq([i \in DOMAIN Script[c] |->
        ws_build_frame(BUFFER_SIZE, Script[c][i][1], Script[c][i][2], TRUE, MaskingKey)])]

FrameEnd(c, n) ==
    LET len(f) == Len(f[2]) + (IF Len(f[2]) <= 125 THEN 6 ELSE 8)
    IN  FoldLeft(LAMBDA sum, f : sum + len(f), 0, SubSeq(Script[c], 1, n))

WsInit ==
    /\ clients = <<>> /\ lock = "free" /\ next = 1 /\ broadcasts = 0
    /\ wpc = [c \in Conns |-> "none"]
    /\ rx = [c \in Conns |-> 0]
    /\ out = [c \in Conns |-> <<>>]
    /\ handled = [c \in Conns |-> <<>>]
    /\ cut = {} /\ unlisted = {}

Goto(c, there) == wpc' = [wpc EXCEPT ![c] = there]

(***************************************************************************)
(* ws_server_start, one turn of the accept loop: the connection is made,   *)
(* added to the table and given its thread; or calloc fails and the socket *)
(* is closed.                                                              *)
(***************************************************************************)
add_client(c) ==
    IF Len(clients) < MAX_CLIENTS
    THEN clients' = Append(clients, c) /\ UNCHANGED unlisted
    ELSE unlisted' = unlisted \cup {c} /\ UNCHANGED clients

Accept(c) ==
    /\ wpc[c] = "none"
    /\ \/ /\ lock = "free"
          /\ add_client(c)
          /\ Goto(c, "handshake")
       \/ /\ Goto(c, "gone")
          /\ UNCHANGED <<clients, unlisted>>
    /\ UNCHANGED <<lock, next, rx, broadcasts, out, handled, cut>>

(***************************************************************************)
(* parse_http_request keeps the first MAX_HEADERS headers; get_header_value*)
(* returns the first that has the name.                                    *)
(***************************************************************************)
parse_http_request(request) ==
    [request EXCEPT !.headers = SubSeq(@, 1, IF Len(@) < MAX_HEADERS THEN Len(@) ELSE MAX_HEADERS)]

get_header_value(request, name) ==
    LET at == {i \in DOMAIN request.headers : request.headers[i][1] = name}
    IN  IF at = {} THEN "NULL"
        ELSE request.headers[CHOOSE i \in at : \A j \in at : i <= j][2]

\* The conditions of ws_handle_handshake, in its order.
Upgrades(buffer) ==
    LET request == parse_http_request(buffer)
    IN  /\ request.method = "GET"
        /\ get_header_value(request, "Upgrade") = "websocket"
        /\ get_header_value(request, "Connection") = "Upgrade"
        /\ get_header_value(request, "Sec-WebSocket-Key") # "NULL"
        /\ get_header_value(request, "Sec-WebSocket-Version") = "13"

(***************************************************************************)
(* client_thread up to its loop: recv, ws_handle_handshake, the response.  *)
(***************************************************************************)
ws_handle_handshake(c, request) ==
    /\ wpc[c] = "handshake"
    /\ Upgrades(request)
    /\ out' = [out EXCEPT ![c] = Append(@, "101")]
    /\ Goto(c, "loop")
    /\ UNCHANGED <<clients, lock, next, broadcasts, rx, handled, cut, unlisted>>

\* The request is refused, or recv or send fails.
HandshakeFails(c) ==
    /\ wpc[c] = "handshake"
    /\ Goto(c, "cleanup")
    /\ UNCHANGED <<clients, lock, next, broadcasts, rx, out, handled, cut, unlisted>>

-----------------------------------------------------------------------------
(***************************************************************************)
(* The inner loop of client_thread: the complete frames at the front of    *)
(* the buffer.  What is left over is forgotten.                            *)
(***************************************************************************)
FramesIn(buffer) ==
    LET from[at \in Nat] ==
            LET data   == SubSeq(buffer, at, Len(buffer))
                header == ws_parse_frame_header(data)
                last   == header.size + header.payload_length
                frame  == <<header.opcode,
                            ws_mask_payload(SubSeq(data, header.size + 1, last), header.masking_key)>>
            IN  IF data = <<>> \/ header.size < 0 THEN <<>>
                ELSE IF last > Len(data) THEN <<>>
                ELSE <<frame>> \o from[at + last]
    IN  from[1]

\* handle_client_message: what it sends; the callbacks get the frame (handled).
Reply(opcode) == CASE opcode = WS_PING  -> <<"pong">>
                   [] opcode = WS_CLOSE -> <<"close">>
                   [] OTHER             -> <<>>

handle_client_message(c, frames) ==
    /\ handled' = [handled EXCEPT ![c] = @ \o frames]
    /\ out' = [out EXCEPT ![c] = @ \o FlattenSeq([i \in DOMAIN frames |-> Reply(frames[i][1])])]

(***************************************************************************)
(* One turn of the outer loop of client_thread with n bytes received.      *)
(***************************************************************************)
ReceiveFrames(c, n) ==
    /\ wpc[c] = "loop"
    /\ n <= BUFFER_SIZE /\ rx[c] + n <= FrameEnd(c, Len(Script[c]))
    /\ handle_client_message(c, FramesIn(SubSeq(Stream[c], rx[c] + 1, rx[c] + n)))
    /\ rx' = [rx EXCEPT ![c] = @ + n]
    /\ cut' = IF \E k \in DOMAIN Script[c] : rx'[c] = FrameEnd(c, k) THEN cut ELSE cut \cup {c}
    /\ UNCHANGED <<clients, lock, next, broadcasts, wpc, unlisted>>

\* recv returns 0 or an error, nothing to read included.
ReceiveFails(c) ==
    /\ wpc[c] = "loop"
    /\ Goto(c, "cleanup")
    /\ UNCHANGED <<clients, lock, next, broadcasts, rx, out, handled, cut, unlisted>>

-----------------------------------------------------------------------------

\* Shortens the table without moving the last client.
WithoutLast(seq, c) == IF c \in Range(seq) THEN SubSeq(seq, 1, Len(seq) - 1) ELSE seq

\* remove_client: the last client takes the place of the one that goes.
WithoutClient(seq, c) ==
    LET i == CHOOSE j \in DOMAIN seq : seq[j] = c
    IN  IF c \in Range(seq)
        THEN [j \in 1..(Len(seq) - 1) |-> IF j = i THEN seq[Len(seq)] ELSE seq[j]]
        ELSE seq

remove_client(c) ==
    /\ wpc[c] = "cleanup"
    /\ lock = "free"
    /\ clients' = WithoutClient(clients, c)
    /\ Goto(c, "removed")
    /\ UNCHANGED <<lock, next, broadcasts, rx, out, handled, cut, unlisted>>

\* close(conn->socket); free(conn).
FreeConn(c) ==
    /\ wpc[c] = "removed"
    /\ Goto(c, "gone")
    /\ UNCHANGED <<clients, lock, next, broadcasts, rx, out, handled, cut, unlisted>>

(***************************************************************************)
(* broadcast_message: under the lock, ws_send to one client after another. *)
(***************************************************************************)
broadcast_message ==
    /\ lock = "free" /\ broadcasts < MaxBroadcasts
    /\ lock' = "broadcast" /\ next' = 1 /\ broadcasts' = broadcasts + 1
    /\ UNCHANGED <<clients, wpc, rx, out, handled, cut, unlisted>>

BroadcastSend ==
    /\ lock = "broadcast"
    /\ IF next <= Len(clients)
       THEN /\ out' = [out EXCEPT ![clients[next]] = Append(@, "text")]
            /\ next' = next + 1 /\ UNCHANGED lock
       ELSE lock' = "free" /\ next' = 1 /\ UNCHANGED out
    /\ UNCHANGED <<clients, broadcasts, wpc, rx, handled, cut, unlisted>>

WsNext ==
    \/ \E c \in Conns :
          \/ Accept(c) \/ HandshakeFails(c) \/ ReceiveFails(c)
          \/ \E request \in Requests : ws_handle_handshake(c, request)
          \/ \E n \in RecvSizes : ReceiveFrames(c, n)
          \/ remove_client(c) \/ FreeConn(c)
    \/ broadcast_message \/ BroadcastSend

WsSpec == WsInit /\ [][WsNext]_wvars

-----------------------------------------------------------------------------

(***************************************************************************)
(* The frames a peer sends are handled in order, complete, unmasked and    *)
(* each once, however recv cuts the stream between them, as long as no     *)
(* recv ends inside a frame: what was handled is what the bytes received   *)
(* so far hold.  (client_thread keeps no bytes between two                *)
(* recv calls, so a frame cut in two is out of its reach; receive_buffer   *)
(* of websocket.h, meant for that, is never used.)                         *)
(***************************************************************************)
MessagesInOrder ==
    \A c \in {d \in Conns \ cut : wpc[d] # "none"} :
        /\ IsPrefix(handled[c], Script[c])
        /\ rx[c] = FrameEnd(c, Len(handled[c]))

(***************************************************************************)
(* The table of clients and the connections that exist agree: it holds no  *)
(* connection twice and none that its thread has taken leave of (whose     *)
(* memory broadcast_message would use after free), and every connection    *)
(* being served is in it unless it was full when the connection was made.  *)
(***************************************************************************)
ClientsAreLive ==
    /\ \A i, j \in DOMAIN clients : clients[i] = clients[j] => i = j
    /\ \A c \in Conns :
          c \in Range(clients) <=> wpc[c] \in {"handshake", "loop", "cleanup"} /\ c \notin unlisted
=============================================================================
