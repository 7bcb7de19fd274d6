------------------------------ MODULE Framing -------------------------------
(***************************************************************************)
(* The inbound byte stream of one connection: how the reader finds the     *)
(* frames in it, from the peer's HELLO on.  TCP keeps the order of bytes   *)
(* and nothing else, so a read returns any prefix of what has arrived.     *)
(*                                                                         *)
(* Every session of the synchronous crate starts with a FrameDecoder       *)
(* (read_hello), registers with the broker and forwards the frames already *)
(* decoded (forward_frames).  Then tls_reader and ws_session go on with    *)
(* the same decoder, whereas plain_session goes on with read_frame on the  *)
(* socket.  The tokio crate has a read_frame of its own, from the HELLO    *)
(* on, which collects a frame over several polls and never asks for more.  *)
(***************************************************************************)
EXTENDS Protocol

CONSTANTS
    Readers,    \* the readers a connection may have, from AnyReader
    Traffic,    \* the envelopes a peer may send after its HELLO
    CHUNK,      \* the most a read returns: 16 KiB
    MaxFrames   \* bound: frames the peer sends after its HELLO

(* TLS and WebSocket, plain TCP, and a raw connection of the tokio crate.  *)
AnyReader == {"FrameDecoder", "read_frame", "poll_read"}

ASSUME FramingAssumption ==
    /\ Readers \subseteq AnyReader
    /\ CHUNK \in Nat \ {0}
    /\ MaxFrames \in Nat

VARIABLES
    reader,     \* the reader of this connection
    sent,       \* history: the envelopes the peer sent after its HELLO
    wire,       \* bytes sent by the peer and not yet read
    eof,        \* the peer has closed
    buf,        \* FrameDecoder::buf, or what the tokio read_frame has of a frame
    dropped,    \* history: bytes left in a decoder that is not used again
    stage,      \* "sniff", "hello", "drain", "frames", "done"
    out         \* history: the envelopes forwarded to the broker

vars == <<reader, sent, wire, eof, buf, dropped, stage, out>>

(* The frame of an envelope: the encoders, and a type from a later version *)
(* of the protocol.                                                        *)
encode(e) ==
    CASE e.type = "HELLO" -> hello(e.version, e.identity)
      [] e.type = "HEARTBEAT" -> heartbeat
      [] e.type = "DATA" -> data(e.payload)
      [] e.type = "DATA_REQ" -> data_req(e.id, e.payload)
      [] e.type = "ACK" -> ack(e.id)
      [] OTHER -> Framed(<<0>>)

(* Heartbeats, a second HELLO and unknown types stop at the reader.        *)
ForBroker(e) == e.type \notin {"HEARTBEAT", "HELLO", "None", "UNKNOWN"}

Expected == SelectSeq(sent, ForBroker)

(* How many bytes of the frame at the end of buf are missing: first of its *)
(* length, then of its body.                                               *)
Missing ==
    IF Len(buf) < PREFIX THEN PREFIX - Len(buf)
    ELSE PREFIX + from_be_bytes(SubSeq(buf, 1, PREFIX)) - Len(buf)

(* The peer's HELLO is the first thing it writes, unless it speaks another *)
(* version or another protocol.                                            *)
Init ==
    /\ reader \in Readers
    /\ sent = <<>>
    /\ \/ \E v \in {PROTOCOL_VERSION, PROTOCOL_VERSION + 1}, id \in [1..IDENTITY_SIZE -> Byte] :
            wire = hello(v, id)
       \/ wire = <<1>>
    /\ eof = FALSE
    /\ buf = <<>>
    /\ dropped = <<>>
    /\ stage = "sniff"
    /\ out = <<>>

-----------------------------------------------------------------------------
(* The peer *)

PeerSend(e) ==
    /\ ~eof
    /\ Len(sent) < MaxFrames
    /\ sent' = Append(sent, e)
    /\ wire' = wire \o encode(e)
    /\ UNCHANGED <<reader, eof, buf, dropped, stage, out>>

PeerClose ==
    /\ ~eof
    /\ eof' = TRUE
    /\ UNCHANGED <<reader, sent, wire, buf, dropped, stage, out>>

-----------------------------------------------------------------------------
(* The session thread *)

Stop ==
    /\ stage' = "done"
    /\ UNCHANGED <<reader, sent, wire, eof, buf, dropped, out>>

(* The connect end, and a WebSocket after its upgrade, start at once.  A   *)
(* stranger that a tokio socket dialled would be waited for without limit, *)
(* which module AsyncLifecycle looks at.                                   *)
Start ==
    /\ stage = "sniff"
    /\ reader = "poll_read" => Head(wire) = 0
    /\ stage' = "hello"
    /\ UNCHANGED <<reader, sent, wire, eof, buf, dropped, out>>

(* The bind end looks at the first byte.  On plain TCP it peeks; on TLS it *)
(* consumes the byte and seeds the decoder with it; the tokio crate puts   *)
(* it in front of the stream (Prefixed), so that it is the first byte that *)
(* read_frame gets.                                                        *)
Sniff ==
    /\ stage = "sniff"
    /\ wire # <<>>
    /\ Head(wire) = 0
    /\ stage' = "hello"
    /\ IF reader = "read_frame"
         THEN UNCHANGED <<wire, buf>>
         ELSE buf' = Append(buf, Head(wire)) /\ wire' = Tail(wire)
    /\ UNCHANGED <<reader, sent, eof, dropped, out>>

SniffForeign ==
    /\ stage = "sniff"
    /\ wire # <<>>
    /\ Head(wire) # 0
    /\ Stop

(* The most a read returns: the tokio read_frame has room for what is      *)
(* missing of its frame.                                                   *)
Room == IF reader = "poll_read" THEN Missing ELSE CHUNK

(* One read, appended to what the reader has.                              *)
ReadChunk ==
    \E n \in 1..Len(wire) :
        /\ n <= Room
        /\ buf' = buf \o SubSeq(wire, 1, n)
        /\ wire' = From(wire, n + 1)

(* read_hello: a buffered frame if there is one, else one read.  The tokio *)
(* crate asks the same of its first frame.                                 *)
ReadHello ==
    /\ stage = "hello"
    /\ IF HasFrame(buf)
         THEN LET e == decode(take_frame(buf).frame) IN
              /\ buf' = take_frame(buf).rest
              /\ stage' = IF e.type = "HELLO" /\ e.version = PROTOCOL_VERSION
                            THEN "drain" ELSE "done"
              /\ UNCHANGED <<reader, sent, wire, eof, dropped, out>>
         ELSE /\ ReadChunk
              /\ UNCHANGED <<reader, sent, eof, dropped, stage, out>>

Forwarded(frame) ==
    LET e == decode(frame) IN out \o (IF ForBroker(e) THEN <<e>> ELSE <<>>)

(* forward_frames: one turn of its loop; the tokio reader's one frame.     *)
Drain ==
    /\ stage = "drain"
    /\ HasFrame(buf)
    /\ out' = Forwarded(take_frame(buf).frame)
    /\ buf' = take_frame(buf).rest
    /\ UNCHANGED <<reader, sent, wire, eof, dropped, stage>>

(* Variant: the reader goes back to the socket without looking.            *)
DrainedEarly ==
    /\ stage = "drain"
    /\ stage' = "frames"
    /\ UNCHANGED <<reader, sent, wire, eof, buf, dropped, out>>

(* No complete frame is left.  plain_session does not look into the        *)
(* decoder again.                                                          *)
Drained ==
    /\ stage = "drain"
    /\ ~HasFrame(buf)
    /\ stage' = "frames"
    /\ IF reader = "read_frame"
         THEN buf' = <<>> /\ dropped' = buf
         ELSE UNCHANGED <<buf, dropped>>
    /\ UNCHANGED <<reader, sent, wire, eof, out>>

(* tls_reader and ws_session: read, then forward_frames again.  The tokio  *)
(* read_frame: one poll of its read.                                       *)
ReadMore ==
    /\ stage = "frames"
    /\ reader # "read_frame"
    /\ ReadChunk
    /\ stage' = "drain"
    /\ UNCHANGED <<reader, sent, eof, dropped, out>>

(* plain_session: read_frame blocks until it has the whole frame.          *)
read_frame ==
    /\ stage = "frames"
    /\ reader = "read_frame"
    /\ HasFrame(wire)
    /\ out' = Forwarded(take_frame(wire).frame)
    /\ wire' = take_frame(wire).rest
    /\ UNCHANGED <<reader, sent, eof, buf, dropped, stage>>

(* End of file with too little left to read.                               *)
ReadEnd ==
    /\ eof
    /\ \/ stage \in {"sniff", "hello", "frames"} /\ wire = <<>> /\ ~HasFrame(buf)
       \/ stage = "frames" /\ reader = "read_frame" /\ ~HasFrame(wire)
    /\ Stop

(* The handshake's deadline: a peer that stays silent or incomplete.       *)
(* The tokio crate has none.                                               *)
HandshakeTimeout ==
    /\ stage \in {"sniff", "hello"}
    /\ reader # "poll_read"
    /\ Stop

(* A read timeout, an I/O error, a rejection by the broker or its          *)
(* disappearance.                                                          *)
Abort ==
    /\ stage \in {"drain", "frames"}
    /\ Stop

-----------------------------------------------------------------------------
ReaderStep ==
    \/ Start \/ Sniff \/ SniffForeign \/ ReadHello \/ HandshakeTimeout
    \/ Drain \/ Drained \/ ReadMore \/ read_frame \/ ReadEnd

Next ==
    \/ \E e \in Traffic : PeerSend(e)
    \/ PeerClose
    \/ ReaderStep
    \/ Abort

Spec == Init /\ [][Next]_vars

(* The reader thread keeps running, and its handshake has a deadline; the  *)
(* peer owes nothing.                                                      *)
FairSpec == Spec /\ WF_vars(ReaderStep)

-----------------------------------------------------------------------------
(* However TCP cuts the stream, what reaches the broker is a prefix of     *)
(* what the peer sent: the reader takes exactly LENGTH bytes for each      *)
(* envelope (PROTOCOL.md section 2).                                       *)
ForwardsWhatWasSent == IsPrefix(out, Expected)

(* Framing implements the channel of envelopes that the broker relies on.  *)
Channel == INSTANCE FrameChannel
    WITH Envelope <- Traffic, sent <- Expected, out <- out, open <- (stage # "done")

(* However TCP cuts the stream, every step of a reader is one that the     *)
(* channel of envelopes allows (PROTOCOL.md sections 2 to 4), also for a   *)
(* frame that was sent together with the HELLO, as long as plain_session   *)
(* had nothing in its decoder to abandon.                                  *)
ChannelSpec == Channel!Init /\ [][dropped' # <<>> \/ Channel!Next \/ UNCHANGED Channel!vars]_vars

(* Nothing that has arrived is left waiting for more bytes: what the peer  *)
(* pipelined behind its HELLO is forwarded even if the peer falls silent   *)
(* (PROTOCOL.md section 4).                                                *)
EverythingForwarded == <>[](out = Expected \/ stage = "done" \/ dropped # <<>>)
=============================================================================
