----------------------------- MODULE WsSession ------------------------------
(***************************************************************************)
(* ws_session of conn.rs (rust-lib-sync): one thread that serves both      *)
(* directions of a WebSocket connection in turn, with the broker, the      *)
(* client and the clock around it.  Module WsStream shows what the bytes   *)
(* do and how pings are answered; here an arrival is a WebSocket message   *)
(* that ends an aiomsg frame ("frame"), one that carries only a part of a  *)
(* frame ("part"), or bytes that complete no message ("piece": a part of a *)
(* long one, a ping, a pong), after which read() goes on waiting.  Any     *)
(* number of each may arrive.  Time passes only while the thread waits, in *)
(* units of one tick: its own steps are quick against POLL_INTERVAL.       *)
(***************************************************************************)
EXTENDS Naturals, Sequences, Functions

CONSTANTS
    HEARTBEAT_INTERVAL, \* 5 s
    HEARTBEAT_TIMEOUT,  \* 15 s
    POLL_INTERVAL,      \* 50 ms, the read timeout of the socket
    CAP,        \* frames the two ends' socket buffers hold
    Prompt,     \* TRUE: the client makes room in a full buffer within a tick
    MaxQueued   \* bound: frames the broker routes to this connection

ASSUME WsSessionAssumption ==
    /\ {HEARTBEAT_INTERVAL, HEARTBEAT_TIMEOUT, POLL_INTERVAL, CAP} \subseteq Nat \ {0}
    /\ Prompt \in BOOLEAN
    /\ MaxQueued \in Nat

VARIABLES
    stage,      \* where the thread is
    last_send,  \* ticks since the last write; never counted beyond Limit
    last_recv,  \* ticks since read() last returned a message
    waited,     \* ticks in the current read of the socket
    reading,    \* ticks in the current call of WsStream::read
    fed,        \* TRUE when that call has read bytes that complete no message
    cmd,        \* this connection's commands in the command channel
    accept,     \* the reply channel of register()
    broker,     \* "running" or "done"
    tx,         \* TRUE while the broker's connection map holds the writer sender
    writer_ch,  \* frames routed and not yet taken
    queued,     \* history: how many frames were routed
    link,       \* FALSE when the connection is broken
    wire,       \* what has arrived and was not read
    pipe        \* frames written that the client has not read

clocks == <<last_send, last_recv, waited, reading, fed>>

brokerVars == <<cmd, accept, broker, tx, writer_ch, queued>>

clientVars == <<link, wire, pipe>>

vars == <<stage, clocks, brokerVars, clientVars>>

(* More ticks than any comparison of the code tells apart.                 *)
Limit == HEARTBEAT_INTERVAL + HEARTBEAT_TIMEOUT + POLL_INTERVAL

Item == {"frame", "part", "piece"}

Older(age) == IF age < Limit THEN age + 1 ELSE age

Loop == {"drain", "write", "beat", "beating", "check", "read"}

-----------------------------------------------------------------------------
(* The session thread *)

(* ws_read_hello: the HELLOs are exchanged; register().  A handshake that  *)
(* fails or passes its deadline, or a broker that is gone, ends it.        *)
Hello ==
    /\ stage = "hello"
    /\ link
    /\ broker = "running"
    /\ cmd' = Append(cmd, "ConnectionUp")
    /\ stage' = "register"
    /\ UNCHANGED <<clocks, accept, broker, tx, writer_ch, queued, clientVars>>

HelloFails ==
    /\ stage = "hello"
    /\ stage' = "done"
    /\ UNCHANGED <<clocks, brokerVars, clientVars>>

(* The frames pipelined behind the HELLO go to the broker; if there are    *)
(* any and it is gone by then, the session reports its end and returns.    *)
Registered ==
    /\ stage = "register"
    /\ accept = "true"
    /\ stage' = "drain" \/ (stage' = "ended" /\ broker = "done")
    /\ last_send' = 0 /\ last_recv' = 0
    /\ UNCHANGED <<waited, reading, fed, brokerVars, clientVars>>

Rejected ==
    /\ stage = "register"
    /\ accept = "false" \/ (accept = "empty" /\ broker = "done")
    /\ stage' = "done"
    /\ UNCHANGED <<clocks, brokerVars, clientVars>>

(* Variant: a queued frame waits until something has arrived.              *)
TryRecvInTurn ==
    /\ stage = "drain"
    /\ \/ /\ writer_ch # <<>> /\ wire # <<>>
          /\ stage' = "write"
          /\ writer_ch' = Tail(writer_ch)
       \/ /\ writer_ch = <<>> \/ wire = <<>>
          /\ stage' = IF tx THEN "beat" ELSE "done"
          /\ UNCHANGED writer_ch
    /\ UNCHANGED <<clocks, cmd, accept, broker, tx, queued, clientVars>>

(* try_recv: a frame, Empty, or Disconnected.                              *)
TryRecv ==
    /\ stage = "drain"
    /\ \/ /\ writer_ch # <<>>
          /\ stage' = "write"
          /\ writer_ch' = Tail(writer_ch)
       \/ /\ writer_ch = <<>> /\ tx
          /\ stage' = "beat"
          /\ UNCHANGED writer_ch
       \/ /\ writer_ch = <<>> /\ ~tx
          /\ stage' = "done"
          /\ UNCHANGED writer_ch
    /\ UNCHANGED <<clocks, cmd, accept, broker, tx, queued, clientVars>>

(* write_frame returns when the socket's buffer has taken the frame.       *)
Written(then) ==
    /\ link
    /\ pipe < CAP
    /\ pipe' = pipe + 1
    /\ last_send' = 0
    /\ stage' = then
    /\ UNCHANGED <<last_recv, waited, reading, fed, brokerVars, link, wire>>

WriteFails(then) ==
    /\ ~link
    /\ stage' = then
    /\ UNCHANGED <<clocks, brokerVars, clientVars>>

(* A failed write only leaves the inner loop: the frame is gone.           *)
WriteQueued == stage = "write" /\ (Written("drain") \/ WriteFails("beat"))

(* Variant: the heartbeat is left to the queued frames.                    *)
BeatNever ==
    /\ stage = "beat"
    /\ stage' = "check"
    /\ UNCHANGED <<clocks, brokerVars, clientVars>>

Beat ==
    /\ stage = "beat"
    /\ stage' = IF last_send >= HEARTBEAT_INTERVAL THEN "beating" ELSE "check"
    /\ UNCHANGED <<clocks, brokerVars, clientVars>>

WriteHeartbeat == stage = "beating" /\ (Written("check") \/ WriteFails("ended"))

(* Variant: the peer's silence is not looked at.                           *)
CheckNothing ==
    /\ stage = "check"
    /\ stage' = "read"
    /\ waited' = 0 /\ reading' = 0 /\ fed' = FALSE
    /\ UNCHANGED <<last_send, last_recv, brokerVars, clientVars>>

(* Give up on a silent peer, or call read().                               *)
Check ==
    /\ stage = "check"
    /\ stage' = IF last_recv >= HEARTBEAT_TIMEOUT THEN "ended" ELSE "read"
    /\ waited' = 0 /\ reading' = 0 /\ fed' = FALSE
    /\ UNCHANGED <<last_send, last_recv, brokerVars, clientVars>>

(* read() returns a message, and the frame that it ends is forwarded       *)
(* unless the broker is gone.                                              *)
ReadFrame ==
    /\ stage = "read"
    /\ wire # <<>> /\ Head(wire) = "frame"
    /\ wire' = Tail(wire)
    /\ last_recv' = 0
    /\ stage' = IF broker = "running" THEN "drain" ELSE "ended"
    /\ UNCHANGED <<last_send, waited, reading, fed, brokerVars, link, pipe>>

(* The decoder pops no frame: nothing is forwarded, but the peer was heard. *)
ReadPart ==
    /\ stage = "read"
    /\ wire # <<>> /\ Head(wire) = "part"
    /\ wire' = Tail(wire)
    /\ last_recv' = 0
    /\ stage' = "drain"
    /\ UNCHANGED <<last_send, waited, reading, fed, brokerVars, link, pipe>>

(* Bytes that complete no message: read() reads the socket again, as often *)
(* as they come.                                                           *)
ReadPiece ==
    /\ stage = "read"
    /\ wire # <<>> /\ Head(wire) = "piece"
    /\ wire' = Tail(wire)
    /\ waited' = 0
    /\ fed' = TRUE
    /\ UNCHANGED <<stage, last_send, last_recv, reading, brokerVars, link, pipe>>

WouldBlock ==
    /\ stage = "read"
    /\ wire = <<>> /\ link /\ waited = POLL_INTERVAL
    /\ stage' = "drain"
    /\ UNCHANGED <<clocks, brokerVars, clientVars>>

(* Variant: read() returning 0 or an error ends the session at once.       *)
ReadEndsSilently ==
    /\ stage = "read"
    /\ wire = <<>> /\ ~link
    /\ stage' = "done"
    /\ UNCHANGED <<clocks, brokerVars, clientVars>>

ReadEnds ==
    /\ stage = "read"
    /\ wire = <<>> /\ ~link
    /\ stage' = "ended"
    /\ UNCHANGED <<clocks, brokerVars, clientVars>>

Down ==
    /\ stage = "ended"
    /\ cmd' = IF broker = "running" THEN Append(cmd, "ConnectionDown") ELSE cmd
    /\ stage' = "done"
    /\ UNCHANGED <<clocks, accept, broker, tx, writer_ch, queued, clientVars>>

ThreadStep ==
    \/ Hello \/ Registered \/ Rejected
    \/ TryRecv \/ WriteQueued \/ Beat \/ WriteHeartbeat \/ Check
    \/ ReadFrame \/ ReadPart \/ ReadPiece \/ WouldBlock \/ ReadEnds \/ Down

-----------------------------------------------------------------------------
(* The broker, as far as this connection sees it *)

BrokerUp ==
    /\ broker = "running"
    /\ cmd # <<>> /\ Head(cmd) = "ConnectionUp"
    /\ cmd' = Tail(cmd)
    /\ \/ accept' = "true" /\ tx' = TRUE
       \/ accept' = "false" /\ UNCHANGED tx
    /\ UNCHANGED <<stage, clocks, broker, writer_ch, queued, clientVars>>

BrokerDown ==
    /\ broker = "running"
    /\ cmd # <<>> /\ Head(cmd) = "ConnectionDown"
    /\ cmd' = Tail(cmd)
    /\ tx' = FALSE
    /\ UNCHANGED <<stage, clocks, accept, broker, writer_ch, queued, clientVars>>

Route ==
    /\ broker = "running" /\ tx
    /\ queued < MaxQueued
    /\ queued' = queued + 1
    /\ writer_ch' = IF stage = "done" THEN writer_ch ELSE Append(writer_ch, queued + 1)
    /\ UNCHANGED <<stage, clocks, cmd, accept, broker, tx, clientVars>>

BrokerClose ==
    /\ broker = "running"
    /\ broker' = "done"
    /\ cmd' = <<>>
    /\ tx' = FALSE
    /\ UNCHANGED <<stage, clocks, accept, writer_ch, queued, clientVars>>

-----------------------------------------------------------------------------
(* The client and the clock *)

Arrives(item) ==
    /\ link
    /\ stage # "done"
    /\ Len(wire) < 2
    /\ wire' = Append(wire, item)
    /\ UNCHANGED <<stage, clocks, brokerVars, link, pipe>>

ClientReads ==
    /\ pipe > 0
    /\ pipe' = pipe - 1
    /\ UNCHANGED <<stage, clocks, brokerVars, link, wire>>

LinkBreaks ==
    /\ link
    /\ link' = FALSE
    /\ UNCHANGED <<stage, clocks, brokerVars, wire, pipe>>

Waiting == stage = "read" /\ wire = <<>> /\ link /\ waited < POLL_INTERVAL

Blocked == stage \in {"write", "beating"} /\ link /\ pipe = CAP

Tick ==
    /\ Waiting \/ (Blocked /\ ~Prompt)
    /\ last_send' = Older(last_send)
    /\ last_recv' = Older(last_recv)
    /\ waited' = IF Waiting THEN waited + 1 ELSE waited
    /\ reading' = IF Waiting THEN Older(reading) ELSE reading
    /\ UNCHANGED <<stage, fed, brokerVars, clientVars>>

-----------------------------------------------------------------------------
Init ==
    /\ stage = "hello"
    /\ last_send = 0 /\ last_recv = 0 /\ waited = 0 /\ reading = 0 /\ fed = FALSE
    /\ cmd = <<>> /\ accept = "empty" /\ broker = "running" /\ tx = FALSE
    /\ writer_ch = <<>> /\ queued = 0
    /\ link = TRUE /\ wire = <<>> /\ pipe = 0

Next ==
    \/ ThreadStep \/ HelloFails
    \/ BrokerUp \/ BrokerDown \/ Route \/ BrokerClose
    \/ (\E item \in Item : Arrives(item))
    \/ ClientReads \/ LinkBreaks \/ Tick

Spec == Init /\ [][Next]_vars

(* The thread and the broker run, time passes, and the client reads: TCP   *)
(* keeps its window open only if it does.  Nobody has to send anything.    *)
FairSpec ==
    /\ Spec
    /\ WF_vars(ThreadStep)
    /\ WF_vars(BrokerUp \/ BrokerDown)
    /\ WF_vars(Tick)
    /\ WF_vars(ClientReads)

-----------------------------------------------------------------------------
(* How long a call of read() keeps the thread from its clocks: one         *)
(* POLL_INTERVAL, or as long as bytes that complete no message keep coming *)
(* within POLL_INTERVAL of each other.                                     *)
Late == IF fed THEN reading ELSE POLL_INTERVAL

(* The client hears from the session every HEARTBEAT_INTERVAL, late by one *)
(* call of read() at most: the single thread looks at the clock between    *)
(* calls, and beats before the next one.                                   *)
BeatsOnTime == stage \in Loop => last_send < HEARTBEAT_INTERVAL + Late

(* A connection over which no message comes for HEARTBEAT_TIMEOUT is torn  *)
(* down (PROTOCOL.md section 5), late by one call of read() at most.       *)
SilentPeerDropped == stage \in Loop => last_recv < HEARTBEAT_TIMEOUT + Late

(* When the session has ended the broker does not keep its entry: the      *)
(* entry is gone, or a ConnectionDown is on its way.  An entry left behind *)
(* would swallow messages and reject the peer as a duplicate for ever.     *)
NoStaleEntry == stage = "done" /\ tx => "ConnectionDown" \in Range(cmd)

(* What the comment on POLL_INTERVAL says (conn.rs:52): a read blocks at   *)
(* most that long before the loop can service queued writes.               *)
ReadIsBounded == stage = "read" => reading <= POLL_INTERVAL

(* One call of read() goes on for ever: there is always another piece      *)
(* before POLL_INTERVAL is over, and never a message.                      *)
ReadNeverReturns == <>[](stage = "read") /\ []<><<ReadPiece>>_vars

(* A frame the broker routed is written or the session ends, whatever the  *)
(* client sends and whenever the link breaks, with one exception: a client *)
(* that feeds a single call of read() for ever (ws.rs:308-340).            *)
QueuedGoesOut ==
    \/ ReadNeverReturns
    \/ writer_ch # <<>> ~> (writer_ch = <<>> \/ stage = "done")

=============================================================================
