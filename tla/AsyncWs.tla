------------------------------ MODULE AsyncWs -------------------------------
(***************************************************************************)
(* The WebSocket adapter of the tokio port (ws.rs of rust-lib-async): the  *)
(* upgrade in sniff_and_wrap, and the WsStream whose two halves belong to  *)
(* two tasks, the connection task R, which reads, and the writer task W.   *)
(* split() puts the adapter behind a lock, so a call of poll_write or      *)
(* poll_flush is one step; poll_read, a loop, is one step per turn, and    *)
(* holds the lock while `at` is "turn".  Either task flushes what both     *)
(* have queued.                                                            *)
(*                                                                         *)
(* A task whose call is pending is polled again when its waker is called.  *)
(* The TCP stream has one slot for a waker per direction, and the latest   *)
(* call that was pending owns it.  What goes to the client are units, two  *)
(* for each frame, so that a frame can be written in part; what comes from *)
(* the client are real bytes.  The HELLO that R itself writes, before it   *)
(* reads and while there is no W, is left out.                             *)
(***************************************************************************)
EXTENDS WsClient

CONSTANTS
    Requests,           \* the upgrade requests a client may send
    Traffic,            \* the frames a client may send after it
    MAX_REQUEST_BYTES,  \* 8192
    CHUNK,              \* the most one inner read returns: 8192
    ROOM,               \* the size of the buffer given to poll_read
    CAPACITY,           \* units the TCP connection to the client holds
    MaxFrames,          \* bound: frames the client sends
    MaxWrites           \* bound: frames the writer task writes

ASSUME AsyncWsAssumption ==
    /\ {MAX_REQUEST_BYTES, CHUNK, ROOM, CAPACITY, MaxFrames, MaxWrites} \subseteq Nat
    /\ CHUNK > 0 /\ ROOM > 0 /\ CAPACITY > 0

VARIABLES
    request,    \* the client's request
    status,     \* the status of the response; 0 if there is none yet
    sent,       \* history: the frames the client sent, from Traffic
    wire,       \* bytes sent by the client and not yet read
    link,       \* FALSE when the client has gone
    at,         \* R: "sniff", "respond", "poll", "turn", "wait", "closing" or "done"
    in_buf,     \* the request so far, then WsStream::in_buf
    ready,      \* WsStream::ready
    eof,        \* WsStream::eof
    close_sent, \* WsStream::close_sent
    got,        \* history: the bytes poll_read returned
    queued,     \* history: the frames put into out_buf
    out_buf,    \* WsStream::out_buf, in units
    out_pos,    \* WsStream::out_pos
    pipe,       \* units on their way to the client
    seen,       \* history: units the client has read
    writer,     \* W: "idle", "write", "wait_write", "flush", "wait_flush" or "done"
    writes,     \* history: how many frames W has written
    woken,      \* the tasks whose waker was called since they were last polled
    read_waker, \* whom the stream wakes when there is something to read
    write_waker \* whom the stream wakes when there is room

inVars == <<in_buf, ready, eof, got>>

outVars == <<queued, out_buf, out_pos, pipe, write_waker>>

clientVars == <<request, sent, link, seen>>

vars == <<clientVars, status, wire, at, inVars, close_sent, outVars, writer, writes,
          woken, read_waker>>

Nobody == "none"

Unflushed == From(out_buf, out_pos + 1)

-----------------------------------------------------------------------------
(* The client and the TCP stream *)

Wake(slot) == woken' = woken \cup ({slot} \ {Nobody})

ClientSends(f) ==
    /\ link
    /\ at # "done"
    /\ Len(sent) < MaxFrames
    /\ sent' = Append(sent, f)
    /\ wire' = wire \o ClientFrame(f)
    /\ Wake(read_waker)
    /\ read_waker' = Nobody
    /\ UNCHANGED <<request, link, seen, status, at, inVars, close_sent, outVars, writer, writes>>

ClientReads ==
    /\ link
    /\ pipe # <<>>
    /\ seen' = Append(seen, Head(pipe))
    /\ pipe' = Tail(pipe)
    /\ Wake(write_waker)
    /\ write_waker' = Nobody
    /\ UNCHANGED <<request, sent, link, status, wire, at, inVars, close_sent, queued, out_buf, out_pos,
                   writer, writes, read_waker>>

(* An orderly close lets what was sent arrive; a reset discards it.        *)
ClientGone ==
    /\ link
    /\ link' = FALSE
    /\ wire' \in {wire, <<>>}
    /\ woken' = woken \cup ({read_waker, write_waker} \ {Nobody})
    /\ read_waker' = Nobody /\ write_waker' = Nobody
    /\ UNCHANGED <<request, sent, seen, status, at, inVars, close_sent, queued, out_buf, out_pos,
                   pipe, writer, writes>>

-----------------------------------------------------------------------------
(* sniff_and_wrap *)

(* The first byte was a G.  One byte at a time, so as not to read into the *)
(* first frame.                                                            *)
UpgradeByte ==
    /\ at = "sniff"
    /\ wire # <<>>
    /\ in_buf' = Append(in_buf, Head(wire))
    /\ wire' = Tail(wire)
    /\ IF Head(wire) # END /\ Len(in_buf') > MAX_REQUEST_BYTES
         THEN at' = "done" /\ status' = 400
         ELSE at' = (IF Head(wire) = END THEN "respond" ELSE "sniff") /\ UNCHANGED status
    /\ UNCHANGED <<clientVars, ready, eof, got, close_sent, outVars, writer, writes, woken, read_waker>>

UpgradeEof ==
    /\ at = "sniff"
    /\ wire = <<>> /\ ~link
    /\ at' = "done"
    /\ UNCHANGED <<clientVars, status, wire, inVars, close_sent, outVars, writer, writes, woken, read_waker>>

(* from_utf8_lossy accepts any bytes; otherwise as in the other crate.     *)
parse_upgrade_lossy(r) == parse_upgrade([r EXCEPT !.utf8 = TRUE])

(* The response, and WsStream::new.                                        *)
Upgrade ==
    /\ at = "respond"
    /\ status' = parse_upgrade_lossy(request)
    /\ at' = IF status' = 101 /\ link THEN "poll" ELSE "done"
    /\ in_buf' = <<>>
    /\ UNCHANGED <<clientVars, wire, ready, eof, got, close_sent, outVars, writer, writes, woken, read_waker>>

-----------------------------------------------------------------------------
(* The outbound side of the adapter *)

(* Variant: what was written is forgotten when the rest is pending.        *)
flush_out_restarts(buf, pos, room) ==
    LET n == Min({Len(buf) - pos, room})
        drained == pos + n = Len(buf)
    IN  [written |-> SubSeq(buf, pos + 1, pos + n), pending |-> ~drained,
         buf |-> IF drained THEN <<>> ELSE buf, pos |-> IF drained THEN 0 ELSE pos]

(* What flush_out writes and leaves, if the stream has room for so much.   *)
flush_out(buf, pos, room) ==
    LET n == Min({Len(buf) - pos, room})
        drained == pos + n = Len(buf)
    IN  [written |-> SubSeq(buf, pos + 1, pos + n), pending |-> ~drained,
         buf |-> IF drained THEN <<>> ELSE buf, pos |-> IF drained THEN 0 ELSE pos + n]

(* The stream of a client that is gone takes nothing: an error.            *)
Room == IF link THEN CAPACITY - Len(pipe) ELSE 0

Flushed == flush_out(out_buf, out_pos, Room)

Pending(task, f) == write_waker' = IF link /\ f.pending THEN task ELSE write_waker

(* queue_frame: the units of the next frame.                               *)
Units == <<<<Len(queued) + 1, "head">>, <<Len(queued) + 1, "tail">>>>

Queue(op, bytes) == queued' = Append(queued, [op |-> op, data |-> bytes])

-----------------------------------------------------------------------------
(* R: poll_read *)

PollRead ==
    /\ at = "poll" \/ (at = "wait" /\ "R" \in woken)
    /\ at' = "turn"
    /\ woken' = woken \ {"R"}
    /\ UNCHANGED <<clientVars, status, wire, inVars, close_sent, outVars, writer, writes, read_waker>>

(* Variant: what is queued is left to the writer.                          *)
FlushTurnSkips ==
    /\ at = "turn"
    /\ UNCHANGED <<out_buf, out_pos, pipe, write_waker, queued>>

(* Every turn starts with a flush, whose outcome does not matter.          *)
FlushTurn ==
    /\ at = "turn"
    /\ out_buf' = Flushed.buf /\ out_pos' = Flushed.pos
    /\ pipe' = pipe \o Flushed.written
    /\ Pending("R", Flushed)
    /\ UNCHANGED queued

(* The same, with a frame queued in the rest of the turn.                  *)
FlushTurnThenQueue(op, bytes) ==
    /\ at = "turn"
    /\ out_buf' = Flushed.buf \o Units /\ out_pos' = Flushed.pos
    /\ pipe' = pipe \o Flushed.written
    /\ Pending("R", Flushed)
    /\ Queue(op, bytes)

(* Variant: the rest of a payload that does not fit is dropped.            *)
HandBackDrops ==
    /\ FlushTurn
    /\ ready # <<>>
    /\ LET n == Min({ROOM, Len(ready)}) IN
        /\ got' = got \o SubSeq(ready, 1, n)
        /\ ready' = <<>>
    /\ at' = "poll"
    /\ UNCHANGED <<clientVars, status, wire, in_buf, eof, close_sent, writer, writes, woken, read_waker>>

HandBack ==
    /\ FlushTurn
    /\ ready # <<>>
    /\ LET n == Min({ROOM, Len(ready)}) IN
        /\ got' = got \o SubSeq(ready, 1, n)
        /\ ready' = From(ready, n + 1)
    /\ at' = "poll"
    /\ UNCHANGED <<clientVars, status, wire, in_buf, eof, close_sent, writer, writes, woken, read_waker>>

(* poll_read returns 0 bytes: read_frame and the reader loop end.          *)
ReadZero ==
    /\ FlushTurn
    /\ ready = <<>> /\ eof
    /\ at' = "closing"
    /\ UNCHANGED <<clientVars, status, wire, inVars, close_sent, writer, writes, woken, read_waker>>

(* parse_one agrees with parse_client_frame of the other crate.            *)
parse_one == parse_client_frame(in_buf)

Parses(kind) == at = "turn" /\ ready = <<>> /\ ~eof /\ parse_one.kind = kind

Consumed == in_buf' = From(in_buf, parse_one.used + 1)

TurnData ==
    /\ Parses("Data")
    /\ FlushTurn
    /\ Consumed
    /\ ready' = ready \o parse_one.payload
    /\ UNCHANGED <<clientVars, status, wire, at, eof, got, close_sent, writer, writes, woken, read_waker>>

TurnPing ==
    /\ Parses("Ping")
    /\ FlushTurnThenQueue(OP_PONG, parse_one.payload)
    /\ Consumed
    /\ UNCHANGED <<clientVars, status, wire, at, ready, eof, got, close_sent, writer, writes, woken, read_waker>>

TurnPong ==
    /\ Parses("Pong")
    /\ FlushTurn
    /\ Consumed
    /\ UNCHANGED <<clientVars, status, wire, at, ready, eof, got, close_sent, writer, writes, woken, read_waker>>

(* queue_close tests close_sent; nothing on this path has set it.          *)
TurnClose ==
    /\ Parses("Close") \/ Parses("Protocol")
    /\ Consumed
    /\ ~close_sent /\ close_sent' = TRUE
    /\ FlushTurnThenQueue(OP_CLOSE, BigEndian(parse_one.code, 2))
    /\ eof' = TRUE
    /\ UNCHANGED <<clientVars, status, wire, at, ready, got, writer, writes, woken, read_waker>>

(* Variant: the flush has to succeed first.                                *)
TurnReadBlocked ==
    /\ Parses("NeedMore")
    /\ FlushTurn
    /\ ~Flushed.pending
    /\ \E n \in 1..Len(wire) :
        /\ n <= CHUNK
        /\ in_buf' = in_buf \o SubSeq(wire, 1, n)
        /\ wire' = From(wire, n + 1)
    /\ UNCHANGED <<clientVars, status, at, ready, eof, got, close_sent, writer, writes, woken, read_waker>>

TurnRead ==
    /\ Parses("NeedMore")
    /\ FlushTurn
    /\ \E n \in 1..Len(wire) :
        /\ n <= CHUNK
        /\ in_buf' = in_buf \o SubSeq(wire, 1, n)
        /\ wire' = From(wire, n + 1)
    /\ UNCHANGED <<clientVars, status, at, ready, eof, got, close_sent, writer, writes, woken, read_waker>>

TurnPending ==
    /\ Parses("NeedMore")
    /\ FlushTurn
    /\ wire = <<>> /\ link
    /\ read_waker' = "R"
    /\ at' = "wait"
    /\ UNCHANGED <<clientVars, status, wire, inVars, close_sent, writer, writes, woken>>

TurnEof ==
    /\ Parses("NeedMore")
    /\ FlushTurn
    /\ wire = <<>> /\ ~link
    /\ eof' = TRUE
    /\ at' = "closing"
    /\ UNCHANGED <<clientVars, status, wire, in_buf, ready, got, close_sent, writer, writes, woken, read_waker>>

(* The signal, or HEARTBEAT_TIMEOUT without a complete frame.              *)
ReaderLeaves ==
    /\ at \in {"poll", "wait"}
    /\ at' = "closing"
    /\ UNCHANGED <<clientVars, status, wire, inVars, close_sent, outVars, writer, writes, woken, read_waker>>

(* writer.abort(); then both halves are dropped, and the stream with them. *)
Abort ==
    /\ at = "closing"
    /\ at' = "done"
    /\ writer' = "done"
    /\ UNCHANGED <<clientVars, status, wire, inVars, close_sent, outVars, writes, woken, read_waker>>

-----------------------------------------------------------------------------
(* W: write_frame, that is write_all and flush *)

Attached == at \in {"poll", "wait", "closing"}

(* The task is spawned when the HELLO has been read.  The broker has a     *)
(* frame for it, or a heartbeat is due.                                    *)
Recv ==
    /\ Attached /\ got # <<>>
    /\ writer = "idle"
    /\ writes < MaxWrites
    /\ writer' = "write"
    /\ writes' = writes + 1
    /\ woken' = woken \ {"W"}
    /\ UNCHANGED <<clientVars, status, wire, at, inVars, close_sent, outVars, read_waker>>

Polled(p, waiting) == Attached /\ (writer = p \/ (writer = waiting /\ "W" \in woken))

Repoll == woken' = IF writer \in {"wait_write", "wait_flush"} THEN woken \ {"W"} ELSE woken

PollWritePending ==
    /\ Polled("write", "wait_write")
    /\ link /\ Flushed.pending
    /\ writer' = "wait_write"
    /\ out_buf' = Flushed.buf /\ out_pos' = Flushed.pos /\ pipe' = pipe \o Flushed.written
    /\ Pending("W", Flushed)
    /\ Repoll
    /\ UNCHANGED <<clientVars, status, wire, at, inVars, close_sent, queued, writes, read_waker>>

(* Nothing is queued any more: accept the frame and write what fits, which *)
(* is nothing if the client is gone; poll_flush finds that out.            *)
PollWriteReady ==
    /\ Polled("write", "wait_write")
    /\ ~Flushed.pending
    /\ writer' = "flush"
    /\ LET f == flush_out(Units, 0, Room - Len(Flushed.written)) IN
        /\ out_buf' = f.buf /\ out_pos' = f.pos
        /\ pipe' = pipe \o Flushed.written \o f.written
        /\ Pending("W", f)
    /\ Queue(OP_BIN, <<>>)
    /\ Repoll
    /\ UNCHANGED <<clientVars, status, wire, at, inVars, close_sent, writes, read_waker>>

PollFlush ==
    /\ Polled("flush", "wait_flush")
    /\ link \/ ~Flushed.pending
    /\ writer' = IF Flushed.pending THEN "wait_flush" ELSE "idle"
    /\ out_buf' = Flushed.buf /\ out_pos' = Flushed.pos /\ pipe' = pipe \o Flushed.written
    /\ Pending("W", Flushed)
    /\ Repoll
    /\ UNCHANGED <<clientVars, status, wire, at, inVars, close_sent, queued, writes, read_waker>>

(* A flush fails, in poll_write that of what was queued before; the task   *)
(* ends, and the reader learns it from the link.                           *)
WriterFails ==
    /\ Polled("write", "wait_write") \/ Polled("flush", "wait_flush")
    /\ ~link /\ Flushed.pending
    /\ writer' = "done"
    /\ UNCHANGED <<clientVars, status, wire, at, inVars, close_sent, outVars, writes, woken, read_waker>>

-----------------------------------------------------------------------------
Init ==
    /\ request \in Requests
    /\ status = 0
    /\ sent = <<>>
    /\ wire = Tail(RequestBytes(request))
    /\ link = TRUE
    /\ at = "sniff"
    /\ in_buf = <<REQ>> /\ ready = <<>> /\ eof = FALSE /\ got = <<>>
    /\ close_sent = FALSE
    /\ queued = <<>> /\ out_buf = <<>> /\ out_pos = 0
    /\ pipe = <<>> /\ seen = <<>>
    /\ writer = "idle" /\ writes = 0
    /\ woken = {} /\ read_waker = Nobody /\ write_waker = Nobody

ReaderStep ==
    \/ UpgradeByte \/ UpgradeEof \/ Upgrade
    \/ PollRead \/ HandBack \/ ReadZero
    \/ TurnData \/ TurnPing \/ TurnPong \/ TurnClose \/ TurnRead \/ TurnPending \/ TurnEof
    \/ Abort

WriterStep == PollWritePending \/ PollWriteReady \/ PollFlush \/ WriterFails

Next ==
    \/ ReaderStep \/ ReaderLeaves
    \/ Recv \/ WriterStep
    \/ \E f \in Traffic : ClientSends(f)
    \/ ClientReads \/ ClientGone

Spec == Init /\ [][Next]_vars

(* A task that is ready to run is polled.  The client may stop reading.    *)
FairSpec == Spec /\ WF_vars(ReaderStep) /\ WF_vars(WriterStep)

-----------------------------------------------------------------------------
(* However the request and the frames are cut, poll_read returns the       *)
(* client's binary payloads in order, up to the frame that ends the        *)
(* connection: the upgrade does not read into the first frame, and no      *)
(* byte is lost between in_buf, ready and the caller's buffer.             *)
BytesIntact == IsPrefix(got \o ready, StreamOf(sent))

(* The frames of both tasks reach the client whole and in the order they   *)
(* were queued, although either task may be stopped in the middle of one   *)
(* and the other goes on writing (out_buf, out_pos).                       *)
WholeFrames ==
    seen \o pipe \o Unflushed =
        FlattenSeq([i \in DOMAIN queued |-> <<<<i, "head">>, <<i, "tail">>>>])

(* Nothing stays queued while there is room for it: whichever task queued  *)
(* a pong or a frame, one of them is woken to flush it.                    *)
FlushesOut == <>[](Unflushed = <<>> \/ Len(pipe) = CAPACITY \/ at = "done")

(* The reader goes on although the client does not take its answers.       *)
ReadsOn == <>[](got = StreamOf(sent) \/ at \in {"closing", "done"} \/ status \notin {0, 101})

(* split() works (comment on WsStream): a writer that is stopped by a full *)
(* connection goes on when there is room again.                            *)
WriterResumes ==
    <>[](writer \notin {"wait_write", "wait_flush"} \/ Len(pipe) = CAPACITY \/ at = "done")
=============================================================================
