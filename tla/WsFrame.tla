------------------------------ MODULE WsFrame -------------------------------
(***************************************************************************)
(* frame.c: WebSocket frames as sequences of bytes, built and parsed.      *)
(***************************************************************************)
EXTENDS Integers, Sequences

Huge == 2 ^ 30      \* stands for every payload length of 2^30 or more

\* WS_TEXT, WS_BINARY, WS_CLOSE, WS_PING, WS_PONG
WS_TEXT   == 1
WS_BINARY == 2
WS_CLOSE  == 8
WS_PING   == 9
WS_PONG   == 10

\* The first two bytes in the order of the host.
HostOrder(b) == b[1] + 256 * b[2]

\* A number as w bytes in network order, and back.
ToNet(n, w) == [i \in 1..w |-> IF w - i > 3 THEN 0 ELSE (n \div 256 ^ (w - i)) % 256]
FromNet(b) ==
    LET w == Len(b)
        low == [i \in 1..w |-> IF w - i > 3 THEN 0 ELSE b[i] * 256 ^ (w - i)]
        total[i \in 0..w] == IF i = 0 THEN 0 ELSE total[i - 1] + low[i]
    IN  IF \E i \in 1..w : (w - i > 3 /\ b[i] # 0) \/ (w - i = 3 /\ b[i] > 63) THEN Huge
        ELSE total[w]

\* a ^ b of two bytes: the bits in which they differ.
Xor(a, b) ==
    LET differ(i) == (a \div 2 ^ i + b \div 2 ^ i) % 2
        low[i \in 0..8] == IF i = 0 THEN 0 ELSE low[i - 1] + differ(i - 1) * 2 ^ (i - 1)
    IN  low[8]

(***************************************************************************)
(* ws_mask_payload: byte i of the payload with byte i % 4 of the mask.     *)
(***************************************************************************)
ws_mask_payload(payload, key) ==
    [i \in DOMAIN payload |-> Xor(payload[i], key[((i - 1) % 4) + 1])]

(***************************************************************************)
(* ws_parse_frame_header: the header at the front of data, with the number *)
(* of bytes it takes; size -1 when data does not hold all of it.           *)
(***************************************************************************)
ws_parse_frame_header(data) ==
    LET incomplete == [size |-> -1]
        payload_len == data[2] % 128
        mask        == data[2] \div 128 = 1
        extended    == IF payload_len = 126 THEN 2 ELSE IF payload_len = 127 THEN 8 ELSE 0
        base        == 2 + extended
        size        == IF mask THEN base + 4 ELSE base
    IN  IF Len(data) < 2 THEN incomplete
        ELSE IF Len(data) < size THEN incomplete
        ELSE [size           |-> size,
              opcode         |-> data[1] % 16,
              payload_length |-> IF extended = 0 THEN payload_len
                                 ELSE FromNet(SubSeq(data, 3, base)),
              masking_key    |-> IF mask THEN SubSeq(data, base + 1, size) ELSE <<0, 0, 0, 0>>]

(***************************************************************************)
(* ws_build_frame: header, mask if any, payload.  <<>> when the buffer is  *)
(* too small for it.                                                       *)
(***************************************************************************)
ws_build_frame(buffer_size, opcode, data, mask, masking_key) ==
    LET len   == Len(data)
        flag  == IF mask THEN 128 ELSE 0
        first == <<128 + (opcode % 16)>>
        head  == IF len <= 125 THEN first \o <<flag + len>>
                 ELSE IF len <= 65535 THEN first \o <<flag + 126>> \o ToNet(len, 2)
                 ELSE first \o <<flag + 127>> \o ToNet(len, 8)
        frame == IF mask THEN head \o masking_key \o ws_mask_payload(data, masking_key)
                 ELSE head \o data
    IN  IF buffer_size < Len(frame) THEN <<>> ELSE frame
=============================================================================
