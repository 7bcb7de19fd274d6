------------------------------ MODULE Protocol ------------------------------
(***************************************************************************)
(* The wire format of protocol.rs: typed envelopes, and frames that carry  *)
(* one envelope behind a big-endian length.  Field widths and the number   *)
(* of byte values are parameters, so that TLC can enumerate messages.      *)
(***************************************************************************)
EXTENDS Integers, SequencesExt

CONSTANTS
    BYTE,           \* the number of values of a byte: 256
    PREFIX,         \* bytes of the length prefix: 4
    IDENTITY_SIZE,  \* 16
    MSG_ID_SIZE     \* 16

PROTOCOL_VERSION == 1

T_HELLO == 1
T_HEARTBEAT == 2
T_DATA == 3
T_DATA_REQ == 4
T_ACK == 5

ASSUME ProtocolAssumption ==
    /\ BYTE \in Nat /\ BYTE > T_ACK
    /\ PREFIX \in Nat \ {0}
    /\ IDENTITY_SIZE \in Nat \ {0}
    /\ MSG_ID_SIZE \in Nat \ {0}

Byte == 0..(BYTE - 1)

Bytes == Seq(Byte)

-----------------------------------------------------------------------------
(* Encoders *)

(* body_len as u32, most significant byte first: a length that does not    *)
(* fit loses its high digits.                                              *)
put_len_prefix(body_len) ==
    [i \in 1..PREFIX |-> (body_len \div BYTE^(PREFIX - i)) % BYTE]

Framed(body) == put_len_prefix(Len(body)) \o body

hello(version, identity) == Framed(<<T_HELLO, version>> \o identity)

heartbeat == Framed(<<T_HEARTBEAT>>)

data(payload) == Framed(<<T_DATA>> \o payload)

data_req(msg_id, payload) == Framed(<<T_DATA_REQ>> \o msg_id \o payload)

ack(msg_id) == Framed(<<T_ACK>> \o msg_id)

-----------------------------------------------------------------------------
(* Decoders *)

None == [type |-> "None"]

From(s, i) == SubSeq(s, i, Len(s))

(* Variant: the payload of a DATA_REQ still includes its id.               *)
decode_keeps_id(frame) ==
    IF frame = <<>> THEN None ELSE
    LET t == Head(frame)
        body == Tail(frame)
    IN  CASE t = T_HELLO /\ Len(body) >= 1 + IDENTITY_SIZE ->
               [type |-> "HELLO", version |-> body[1],
                identity |-> SubSeq(body, 2, 1 + IDENTITY_SIZE)]
          [] t = T_HEARTBEAT -> [type |-> "HEARTBEAT"]
          [] t = T_DATA -> [type |-> "DATA", payload |-> body]
          [] t = T_DATA_REQ /\ Len(body) >= MSG_ID_SIZE ->
               [type |-> "DATA_REQ", id |-> SubSeq(body, 1, MSG_ID_SIZE),
                payload |-> body]
          [] t = T_ACK /\ Len(body) >= MSG_ID_SIZE ->
               [type |-> "ACK", id |-> SubSeq(body, 1, MSG_ID_SIZE)]
          [] OTHER -> None

decode(frame) ==
    IF frame = <<>> THEN None ELSE
    LET t == Head(frame)
        body == Tail(frame)
    IN  CASE t = T_HELLO /\ Len(body) >= 1 + IDENTITY_SIZE ->
               [type |-> "HELLO", version |-> body[1],
                identity |-> SubSeq(body, 2, 1 + IDENTITY_SIZE)]
          [] t = T_HEARTBEAT -> [type |-> "HEARTBEAT"]
          [] t = T_DATA -> [type |-> "DATA", payload |-> body]
          [] t = T_DATA_REQ /\ Len(body) >= MSG_ID_SIZE ->
               [type |-> "DATA_REQ", id |-> SubSeq(body, 1, MSG_ID_SIZE),
                payload |-> From(body, MSG_ID_SIZE + 1)]
          [] t = T_ACK /\ Len(body) >= MSG_ID_SIZE ->
               [type |-> "ACK", id |-> SubSeq(body, 1, MSG_ID_SIZE)]
          [] OTHER -> None

from_be_bytes(s) == FoldLeft(LAMBDA n, b : n * BYTE + b, 0, s)

(* Does buf begin with a complete frame?                                   *)
HasFrame(buf) ==
    /\ Len(buf) >= PREFIX
    /\ Len(buf) >= PREFIX + from_be_bytes(SubSeq(buf, 1, PREFIX))

(* take_frame, as what it returns and what it leaves in the buffer.        *)
take_frame(buf) ==
    LET end == PREFIX + from_be_bytes(SubSeq(buf, 1, PREFIX)) IN
    [frame |-> SubSeq(buf, PREFIX + 1, end), rest |-> From(buf, end + 1)]
=============================================================================
