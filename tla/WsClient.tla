------------------------------ MODULE WsClient ------------------------------
(***************************************************************************)
(* A WebSocket client as the two adapters meet it: the bytes of its        *)
(* request and frames, and what its frames mean by PROTOCOL.md section 10, *)
(* read off the frames and not off their bytes.  The byte stream and the   *)
(* answers defined here are what modules WsStream and AsyncWs are checked  *)
(* against.                                                                *)
(***************************************************************************)
EXTENDS WsFrames, FiniteSets

REQ == -1   \* a byte of the request
END == -2   \* the last byte of the blank line that ends it

RequestBytes(r) == [i \in 1..r.size |-> REQ] \o <<END>>

(* A frame of the client as bytes: width is that of its extended length    *)
(* field, 0 if it has none; high is set in the first byte of that field.   *)
ClientFrame(f) ==
    LET n == Len(f.payload)
        masked == [i \in 1..n |-> f.payload[i] ^^ f.mask[((i - 1) % 4) + 1]]
        len7 == CASE f.width = 2 -> 126 [] f.width = 8 -> 127 [] OTHER -> n
        ext == IF f.high THEN <<128>> \o BigEndian(n, f.width - 1) ELSE BigEndian(n, f.width)
    IN  <<f.b0, (IF f.masked THEN 128 ELSE 0) + len7>>
          \o (IF f.width = 0 THEN <<>> ELSE ext)
          \o (IF f.masked THEN f.mask \o masked ELSE f.payload)

Opcode(f) == f.b0 % 16

(* PROTOCOL.md section 10 and RFC 6455 section 5: what the server must     *)
(* close the connection for, and with which code; 0 for a legal frame.     *)
Verdict(f) ==
    IF \/ (f.b0 \div 16) % 8 # 0 \/ ~f.masked \/ f.high
       \/ Opcode(f) \notin {OP_CONT, OP_TEXT, OP_BIN, OP_CLOSE, OP_PING, OP_PONG}
       \/ Opcode(f) >= 8 /\ (f.b0 < 128 \/ Len(f.payload) > 125)
      THEN 1002
    ELSE IF Opcode(f) = OP_TEXT THEN 1003
    ELSE IF Opcode(f) = OP_CLOSE
      THEN IF Len(f.payload) >= 2 THEN f.payload[1] * 256 + f.payload[2] ELSE 1000
    ELSE 0

EndsAt(sent) == SelectInSeq(sent, LAMBDA f : Verdict(f) # 0)

(* The frames before the one that ends the connection.                     *)
Legal(sent) == IF EndsAt(sent) = 0 THEN sent ELSE SubSeq(sent, 1, EndsAt(sent) - 1)

(* The byte stream: the binary payloads, one after the other.              *)
StreamOf(sent) ==
    FlattenSeq([i \in DOMAIN Legal(sent) |->
        IF Opcode(Legal(sent)[i]) \in {OP_BIN, OP_CONT} THEN Legal(sent)[i].payload ELSE <<>>])

(* The pongs, and the close if the connection has to end.                  *)
AnswersOf(sent) ==
    LET pings == SelectSeq(Legal(sent), LAMBDA f : Opcode(f) = OP_PING)
        pongs == [i \in DOMAIN pings |-> [op |-> OP_PONG, data |-> pings[i].payload]]
    IN  IF EndsAt(sent) = 0 THEN pongs
        ELSE Append(pongs, [op |-> OP_CLOSE, data |-> BigEndian(Verdict(sent[EndsAt(sent)]), 2)])
=============================================================================
