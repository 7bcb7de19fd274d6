------------------------------ MODULE WsFrames ------------------------------
(***************************************************************************)
(* The handshake and the frame layer of the WebSocket sub-transport, the   *)
(* pure functions of ws.rs (rust-lib-sync).  Frames are bytes with their   *)
(* real values.  An upgrade request is what parse_upgrade tells apart in   *)
(* it: whether it is text, whether its request line is a GET of HTTP/1.x,  *)
(* and its header lines, names and values as trimmed and lower-cased, the  *)
(* value of Connection as the set of its tokens, a key as the number of    *)
(* bytes it decodes to.                                                    *)
(***************************************************************************)
EXTENDS Integers, SequencesExt, Bitwise

OP_CONT == 0
OP_TEXT == 1
OP_BIN == 2
OP_CLOSE == 8
OP_PING == 9
OP_PONG == 10

Byte == 0..255

From(s, i) == SubSeq(s, i, Len(s))

-----------------------------------------------------------------------------
(* Handshake *)

NoColon == "a line without colon"

(* The status of the reply.  Of a repeated header the last one counts.     *)
parse_upgrade(request) ==
    LET lines == request.headers
        Named(name) == {i \in DOMAIN lines : lines[i].name = name}
        Has(name) == Named(name) # {}
        Value(name) == lines[Max(Named(name))].value
    IN  IF ~request.utf8 \/ ~request.get \/ Has(NoColon) THEN 400
        ELSE IF ~Has("upgrade") \/ ~Has("connection") THEN 400
        ELSE IF Value("upgrade") # "websocket" \/ "upgrade" \notin Value("connection") THEN 400
        ELSE IF ~Has("sec-websocket-version") THEN 426
        ELSE IF Value("sec-websocket-version") # "13" THEN 426
        ELSE IF ~Has("sec-websocket-key") THEN 400
        ELSE IF Value("sec-websocket-key") # 16 THEN 400
        ELSE 101

-----------------------------------------------------------------------------
(* Frames *)

(* to_be_bytes of a number below 2^31.                                     *)
BigEndian(n, width) ==
    [i \in 1..width |-> IF width - i > 3 THEN 0 ELSE (n \div 256^(width - i)) % 256]

from_be_bytes(s) == FoldLeft(LAMBDA n, b : n * 256 + b, 0, s)

(* Variant: a length of 126 is written into the 7-bit field.               *)
server_header_inline(opcode, n) ==
    <<128 | opcode>> \o
    IF n < 127 THEN <<n>>
    ELSE IF n < 65536 THEN <<126>> \o BigEndian(n, 2)
    ELSE <<127>> \o BigEndian(n, 8)

(* The bytes server_frame puts before a payload of n bytes.                *)
server_header(opcode, n) ==
    <<128 | opcode>> \o
    IF n < 126 THEN <<n>>
    ELSE IF n < 65536 THEN <<126>> \o BigEndian(n, 2)
    ELSE <<127>> \o BigEndian(n, 8)

NeedMore == [kind |-> "NeedMore"]

(* A violation.  One of the header is found before the frame is consumed.  *)
Protocol(code, used) == [kind |-> "Protocol", code |-> code, used |-> used]

(* XOR with the four bytes of the mask in turn.                            *)
Unmask(mask, masked) ==
    [i \in DOMAIN masked |-> masked[i] ^^ mask[((i - 1) & 3) + 1]]

close_code(payload) ==
    IF Len(payload) >= 2 THEN from_be_bytes(SubSeq(payload, 1, 2)) ELSE 1000

(* A complete frame with its payload unmasked, `used` bytes long.          *)
Frame(opcode, payload, used) ==
    CASE opcode \in {OP_BIN, OP_CONT} -> [kind |-> "Data", payload |-> payload, used |-> used]
      [] opcode = OP_PING -> [kind |-> "Ping", payload |-> payload, used |-> used]
      [] opcode = OP_PONG -> [kind |-> "Pong", used |-> used]
      [] opcode = OP_TEXT -> Protocol(1003, used)
      [] opcode = OP_CLOSE -> [kind |-> "Close", code |-> close_code(payload), used |-> used]
      [] OTHER -> Protocol(1002, used)

(* The frame at the front of buf.                                          *)
parse_client_frame(buf) ==
    IF Len(buf) < 2 THEN NeedMore ELSE
    LET opcode == buf[1] & 15
        fin == buf[1] & 128 # 0
        len7 == buf[2] & 127
        width == CASE len7 = 126 -> 2 [] len7 = 127 -> 8 [] OTHER -> 0
        offset == 2 + width
        len == IF width = 0 THEN len7 ELSE from_be_bytes(SubSeq(buf, 3, offset))
        used == offset + 4 + len
    IN  IF buf[1] & 112 # 0 \/ buf[2] & 128 = 0 THEN Protocol(1002, 0)
        ELSE IF Len(buf) < offset THEN NeedMore
        ELSE IF width = 8 /\ buf[3] & 128 # 0 THEN Protocol(1002, 0)
        ELSE IF opcode >= 8 /\ (~fin \/ len > 125) THEN Protocol(1002, 0)
        ELSE IF Len(buf) < used THEN NeedMore
        ELSE Frame(opcode, Unmask(SubSeq(buf, offset + 1, offset + 4),
                                  SubSeq(buf, offset + 5, used)), used)
=============================================================================
