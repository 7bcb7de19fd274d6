------------------------------ MODULE WsStream ------------------------------
(***************************************************************************)
(* The adapter of ws.rs (rust-lib-sync) that turns a WebSocket connection  *)
(* into a byte stream: accept_upgrade, and WsStream with its pump, read    *)
(* and write.  One thread calls it, ws_session of conn.rs, which writes a  *)
(* frame or reads, never both at once.  A step is one turn of the loop in  *)
(* accept_upgrade, in read or in pump; each of these loops may block in    *)
(* the middle, in a read of the inner stream that returns any prefix of    *)
(* what has arrived.                                                       *)
(*                                                                         *)
(* The bytes of the upgrade request are units below zero: its contents are *)
(* the abstract request of module WsFrames, its end is found by position.  *)
(***************************************************************************)
EXTENDS WsClient

CONSTANTS
    Requests,           \* the upgrade requests a client may send
    Traffic,            \* the frames a client may send after it
    MAX_REQUEST_BYTES,  \* 8192
    CHUNK,              \* the most one inner read returns: 1024, then 16 KiB
    ROOM,               \* the size of the buffer given to read: 16 KiB
    WriteLengths,       \* lengths of the frames the session writes
    MaxFrames,          \* bound: frames the client sends
    MaxWrites           \* bound: frames the session writes

ASSUME WsStreamAssumption ==
    /\ {MAX_REQUEST_BYTES, CHUNK, ROOM, MaxFrames, MaxWrites} \subseteq Nat
    /\ CHUNK > 0 /\ ROOM > 0

VARIABLES
    request,    \* the client's request
    sent,       \* history: the frames the client sent, from Traffic
    wire,       \* bytes sent by the client and not yet read
    link,       \* FALSE when the client has gone
    at,         \* where the thread is: "upgrade", "session", "read" or "done"
    rawbuf,     \* accept_upgrade's buf, then WsStream::rawbuf
    payload,    \* WsStream::payload from payload_pos on
    eof,        \* WsStream::eof
    close_sent, \* WsStream::close_sent
    out,        \* history: what was written to the inner stream
    got,        \* history: the bytes read() returned
    writes      \* history: how many frames the session wrote

vars == <<request, sent, wire, link, at, rawbuf, payload, eof, close_sent, out, got, writes>>

streamVars == <<rawbuf, payload, eof, close_sent>>

-----------------------------------------------------------------------------
(* The client *)

(* A session that has ended has closed the connection.                     *)
ClientSends(f) ==
    /\ link
    /\ at # "done"
    /\ Len(sent) < MaxFrames
    /\ sent' = Append(sent, f)
    /\ wire' = wire \o ClientFrame(f)
    /\ UNCHANGED <<request, link, at, streamVars, out, got, writes>>

ClientGone ==
    /\ link
    /\ link' = FALSE
    /\ UNCHANGED <<request, sent, wire, at, streamVars, out, got, writes>>

-----------------------------------------------------------------------------
(* The thread *)

Goto(place) == at' = place /\ UNCHANGED <<request, sent, link>>

Response(status) == [op |-> status, data |-> <<>>]

ServerFrame(op, len, data) ==
    [op |-> op, header |-> server_header(op, len), len |-> len, data |-> data]

Write(f) == out' = Append(out, f)

InnerRead ==
    \E n \in 1..Len(wire) :
        /\ n <= CHUNK
        /\ rawbuf' = rawbuf \o SubSeq(wire, 1, n)
        /\ wire' = From(wire, n + 1)

Ended == Contains(rawbuf, END)

UpgradeReads ==
    /\ at = "upgrade"
    /\ ~Ended
    /\ Len(rawbuf) <= MAX_REQUEST_BYTES
    /\ InnerRead
    /\ UNCHANGED <<request, sent, link, at, payload, eof, close_sent, out, got, writes>>

UpgradeTooLong ==
    /\ at = "upgrade"
    /\ ~Ended
    /\ Len(rawbuf) > MAX_REQUEST_BYTES
    /\ Write(Response(400))
    /\ Goto("done")
    /\ UNCHANGED <<wire, streamVars, got, writes>>

(* End of file, an error, or the deadline that is tested on every turn.    *)
UpgradeGivesUp ==
    /\ at = "upgrade"
    /\ ~Ended
    /\ Goto("done")
    /\ UNCHANGED <<wire, streamVars, out, got, writes>>

(* buf[header_end..]                                                       *)
Leftover == From(rawbuf, SelectInSeq(rawbuf, LAMBDA b : b = END) + 1)

(* The request is complete: answer it, and keep what came behind it.       *)
Upgrade ==
    /\ at = "upgrade"
    /\ Ended
    /\ Write(Response(parse_upgrade(request)))
    /\ Goto(IF parse_upgrade(request) = 101 THEN "session" ELSE "done")
    /\ rawbuf' = Leftover
    /\ UNCHANGED <<wire, payload, eof, close_sent, got, writes>>

(* write: one frame of the session in one binary frame.                    *)
SessionWrites(len) ==
    /\ at = "session"
    /\ writes < MaxWrites
    /\ writes' = writes + 1
    /\ Write(ServerFrame(OP_BIN, len, <<>>))
    /\ Goto("session")
    /\ UNCHANGED <<wire, streamVars, got>>

SessionReads ==
    /\ at = "session"
    /\ Goto("read")
    /\ UNCHANGED <<wire, streamVars, out, got, writes>>

(* Variant: what is handed back is not taken out of the payload.           *)
HandBackKeeps ==
    /\ at = "read"
    /\ payload # <<>>
    /\ got' = got \o SubSeq(payload, 1, Min({ROOM, Len(payload)}))
    /\ UNCHANGED payload
    /\ Goto("session")
    /\ UNCHANGED <<wire, rawbuf, eof, close_sent, out, writes>>

(* read: 1. hand back what is there.                                       *)
HandBack ==
    /\ at = "read"
    /\ payload # <<>>
    /\ LET n == Min({ROOM, Len(payload)}) IN
        /\ got' = got \o SubSeq(payload, 1, n)
        /\ payload' = From(payload, n + 1)
    /\ Goto("session")
    /\ UNCHANGED <<wire, rawbuf, eof, close_sent, out, writes>>

(* read returns 0 and the session ends.                                    *)
ReadZero ==
    /\ at = "read"
    /\ payload = <<>>
    /\ eof
    /\ Goto("done")
    /\ UNCHANGED <<wire, streamVars, out, got, writes>>

Pumping == at = "read" /\ payload = <<>> /\ ~eof

Parsed == parse_client_frame(rawbuf)

PumpData ==
    /\ Pumping
    /\ Parsed.kind = "Data"
    /\ rawbuf' = From(rawbuf, Parsed.used + 1)
    /\ payload' = payload \o Parsed.payload
    /\ UNCHANGED <<request, sent, wire, link, at, eof, close_sent, out, got, writes>>

(* Variant: the pong is empty.                                             *)
PongBare(data) == ServerFrame(OP_PONG, 0, <<>>)

Pong(data) == ServerFrame(OP_PONG, Len(data), data)

PumpPing ==
    /\ Pumping
    /\ Parsed.kind = "Ping"
    /\ rawbuf' = From(rawbuf, Parsed.used + 1)
    /\ Write(Pong(Parsed.payload))
    /\ UNCHANGED <<request, sent, wire, link, at, payload, eof, close_sent, got, writes>>

(* Variant: the buffer is cleared with the pong.                           *)
PumpPongClears ==
    /\ Pumping
    /\ Parsed.kind = "Pong"
    /\ rawbuf' = <<>>
    /\ UNCHANGED <<request, sent, wire, link, at, payload, eof, close_sent, out, got, writes>>

PumpPong ==
    /\ Pumping
    /\ Parsed.kind = "Pong"
    /\ rawbuf' = From(rawbuf, Parsed.used + 1)
    /\ UNCHANGED <<request, sent, wire, link, at, payload, eof, close_sent, out, got, writes>>

(* The guard close_sent is part of send_close; no path calls it twice.     *)
send_close(code) ==
    /\ close_sent' = TRUE
    /\ IF close_sent THEN UNCHANGED out
       ELSE Write(ServerFrame(OP_CLOSE, 2, BigEndian(code, 2)))

(* A close frame is echoed, a violation is answered with its code; either  *)
(* way the stream is at its end.                                           *)
PumpClose ==
    /\ Pumping
    /\ Parsed.kind \in {"Close", "Protocol"}
    /\ send_close(Parsed.code)
    /\ eof' = TRUE
    /\ rawbuf' = IF Parsed.kind = "Close" THEN From(rawbuf, Parsed.used + 1) ELSE rawbuf
    /\ UNCHANGED <<request, sent, wire, link, at, payload, got, writes>>

(* read: 3. more bytes are needed.                                         *)
ReadMore ==
    /\ Pumping
    /\ Parsed.kind = "NeedMore"
    /\ InnerRead
    /\ UNCHANGED <<request, sent, link, at, payload, eof, close_sent, out, got, writes>>

(* The inner read timed out: the session gets its turn.                    *)
WouldBlock ==
    /\ Pumping
    /\ Parsed.kind = "NeedMore"
    /\ wire = <<>>
    /\ link
    /\ Goto("session")
    /\ UNCHANGED <<wire, streamVars, out, got, writes>>

ReadEof ==
    /\ Pumping
    /\ Parsed.kind = "NeedMore"
    /\ wire = <<>>
    /\ ~link
    /\ eof' = TRUE
    /\ Goto("done")
    /\ UNCHANGED <<wire, rawbuf, payload, close_sent, out, got, writes>>

(* An error of the inner stream, when it is read or when a pong or a frame *)
(* is written, ends the session.                                           *)
Broken ==
    /\ at \in {"session", "read"}
    /\ ~link
    /\ Goto("done")
    /\ UNCHANGED <<wire, streamVars, out, got, writes>>

-----------------------------------------------------------------------------
Init ==
    /\ request \in Requests
    /\ sent = <<>>
    /\ \/ rawbuf = <<>> /\ wire = RequestBytes(request)                 \* plain: peeked
       \/ rawbuf = <<REQ>> /\ wire = Tail(RequestBytes(request))        \* TLS: consumed
    /\ link = TRUE
    /\ at = "upgrade"
    /\ payload = <<>>
    /\ eof = FALSE
    /\ close_sent = FALSE
    /\ out = <<>>
    /\ got = <<>>
    /\ writes = 0

ThreadStep ==
    \/ UpgradeReads \/ UpgradeTooLong \/ UpgradeGivesUp \/ Upgrade
    \/ SessionReads \/ HandBack \/ ReadZero
    \/ PumpData \/ PumpPing \/ PumpPong \/ PumpClose
    \/ ReadMore \/ WouldBlock \/ ReadEof \/ Broken

Next ==
    \/ ThreadStep
    \/ \E len \in WriteLengths : SessionWrites(len)
    \/ \E f \in Traffic : ClientSends(f)
    \/ ClientGone

Spec == Init /\ [][Next]_vars

-----------------------------------------------------------------------------
Stream == StreamOf(sent)

Answers == AnswersOf(sent)

Controls ==
    LET frames == SelectSeq(out, LAMBDA f : f.op \in {OP_PONG, OP_CLOSE})
    IN  [i \in DOMAIN frames |-> [op |-> frames[i].op, data |-> frames[i].data]]

-----------------------------------------------------------------------------
(* However the request and the frames behind it are cut into reads, what   *)
(* read() returns is the client's binary payloads in order, without loss,  *)
(* repetition or a byte of a control frame, up to the frame that ends the  *)
(* connection (PROTOCOL.md section 10.4: the concatenated payloads form    *)
(* the byte stream).                                                       *)
PayloadIntact == IsPrefix(got \o payload, Stream)

(* Every ping is answered by a pong with its payload and the frame that    *)
(* ends the connection by a close with the code PROTOCOL.md section 10     *)
(* gives, in the order they came, and nothing else is answered.            *)
AnswersInOrder == IsPrefix(Controls, Answers)

(* RFC 6455 section 5.2, as the client reads a header.                     *)
HeaderLength(h) ==
    CASE h[2] = 126 -> from_be_bytes(From(h, 3)) [] h[2] = 127 -> from_be_bytes(From(h, 3))
      [] OTHER -> h[2]

(* The client finds the end of every frame the server writes, also at the  *)
(* lengths where server_frame changes the form of the length: the header   *)
(* is complete for its form and says the length and the kind.              *)
HeadersParse ==
    \A i \in DOMAIN out : out[i].op < 16 =>
        LET h == out[i].header IN
        /\ h[1] = 128 + out[i].op
        /\ Len(h) = (CASE h[2] = 126 -> 4 [] h[2] = 127 -> 10 [] OTHER -> 2)
        /\ HeaderLength(h) = out[i].len

(* Nothing that has arrived waits for further traffic: when read() has to  *)
(* wait for the client, every payload byte has been returned and every     *)
(* ping answered, also those buffered behind pongs and empty frames.       *)
NothingHeldBack ==
    (Pumping /\ Parsed.kind = "NeedMore" /\ wire = <<>>) => got = Stream /\ Controls = Answers
=============================================================================
