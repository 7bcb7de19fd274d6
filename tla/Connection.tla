----------------------------- MODULE Connection -----------------------------
(***************************************************************************)
(* The threads of one connection, plain_session and plain_writer of        *)
(* conn.rs, from the moment the peer's HELLO is known: register() and its  *)
(* reply, the reader loop, the writer loop and the tear-down.  The TCP     *)
(* link and the peer at its far end are the environment: the link can      *)
(* break at any time, and the peer acknowledges a DATA_REQ when it arrives *)
(* and sends messages of its own.  A frame on its way out is kept in the   *)
(* writer channel until it arrives, one on its way in is kept in inbound;  *)
(* heartbeats, which the readers discard, are left out.  Frames are whole: *)
(* the reader is taken to keep the promise of module FrameChannel, and     *)
(* module Framing shows when it does.                                      *)
(***************************************************************************)
EXTENDS Messages

VARIABLES
    phase,      \* phase[c]: "new", "registering", "open", "closing", "closed"
    peer,       \* peer[c]: the identity the peer's HELLO announced
    link,       \* link[c]: TRUE while the TCP connection works
    inbound,    \* inbound[c]: frames the peer sent and the reader has not read
    remote_n,   \* remote_n[c]: how many messages the peer sent on c
    arrived     \* history: payloads of this socket that reached a peer

connectionVars == <<phase, peer, link, inbound, remote_n, arrived>>

Phase == {"new", "registering", "open", "closing", "closed"}

ConnectionTypeOK ==
    /\ phase \in [Conn -> Phase]
    /\ peer \in [Conn -> OptIdentity]
    /\ \A c \in Conn : phase[c] # "new" => peer[c] \in Identity
    /\ link \in [Conn -> BOOLEAN]
    /\ inbound \in [Conn -> Seq(InFrame)]
    /\ remote_n \in [Conn -> Nat]
    /\ arrived \in SUBSET Nat

ConnectionInit ==
    /\ phase = [c \in Conn |-> "new"]
    /\ peer = [c \in Conn |-> NoIdentity]
    /\ link = [c \in Conn |-> TRUE]
    /\ inbound = [c \in Conn |-> <<>>]
    /\ remote_n = [c \in Conn |-> 0]
    /\ arrived = {}

-----------------------------------------------------------------------------
(* The session thread *)

(* read_hello returned p; register() sends ConnectionUp.  When the broker  *)
(* is gone the send fails and the session returns.                         *)
Register(c, p) ==
    /\ phase[c] = "new"
    /\ peer' = [peer EXCEPT ![c] = p]
    /\ SendCommand(ConnectionUp(p, c))
    /\ phase' = [phase EXCEPT ![c] = IF Connected THEN "registering" ELSE "closed"]
    /\ writer' = IF Connected THEN writer ELSE [writer EXCEPT ![c] = "done"]
    /\ UNCHANGED <<timer_ch, writer_ch, accept, broker, link, inbound, remote_n, arrived>>

Accepted(c) ==
    /\ phase[c] = "registering"
    /\ accept[c] = "true"
    /\ phase' = [phase EXCEPT ![c] = "open"]
    /\ writer' = [writer EXCEPT ![c] = "running"]
    /\ UNCHANGED <<cmd, timer_ch, writer_ch, accept, broker, peer, link, inbound, remote_n, arrived>>

(* A duplicate identity, or a broker that dropped the reply channel.  The  *)
(* session returns, dropping its socket and the writer receiver.           *)
Rejected(c) ==
    /\ phase[c] = "registering"
    /\ accept[c] = "false" \/ (accept[c] = "empty" /\ ~Connected)
    /\ phase' = [phase EXCEPT ![c] = "closed"]
    /\ writer' = [writer EXCEPT ![c] = "done"]
    /\ writer_ch' = [writer_ch EXCEPT ![c] = <<>>]
    /\ link' = [link EXCEPT ![c] = FALSE]
    /\ UNCHANGED <<cmd, timer_ch, accept, broker, peer, inbound, remote_n, arrived>>

(* Variant: the frame behind the one returned is taken out of the buffer.  *)
ReadSkips(c) ==
    /\ phase[c] = "open"
    /\ inbound[c] # <<>>
    /\ inbound' = [inbound EXCEPT ![c] = IF Len(@) > 1 THEN <<Head(@)>> \o Tail(Tail(@)) ELSE <<>>]

Read(c) ==
    /\ phase[c] = "open"
    /\ inbound[c] # <<>>
    /\ inbound' = [inbound EXCEPT ![c] = Tail(@)]

(* One frame forwarded to the broker.                                      *)
ReaderForward(c) ==
    /\ Read(c)
    /\ Connected
    /\ SendCommand(Received(peer[c], c, Head(inbound[c])))
    /\ UNCHANGED <<timer_ch, writer_ch, accept, broker, writer, phase, peer, link, remote_n, arrived>>

(* The reader loop ends on EOF, an I/O error, the read timeout that stands *)
(* for a silent peer, or a failed send; then ConnectionDown is sent and    *)
(* the socket shut down in both directions.                                *)
ReaderEnd(c) ==
    /\ phase[c] = "open"
    /\ SendCommand(ConnectionDown(peer[c], c))
    /\ phase' = [phase EXCEPT ![c] = "closing"]
    /\ link' = [link EXCEPT ![c] = FALSE]
    /\ UNCHANGED <<timer_ch, writer_ch, accept, broker, writer, peer, inbound, remote_n, arrived>>

JoinWriter(c) ==
    /\ phase[c] = "closing"
    /\ writer[c] = "done"
    /\ phase' = [phase EXCEPT ![c] = "closed"]
    /\ UNCHANGED <<cmd, timer_ch, writer_ch, accept, broker, writer, peer, link, inbound, remote_n, arrived>>

-----------------------------------------------------------------------------
(* The writer thread *)

(* Take a frame and write it.  Over a working link it reaches the peer,    *)
(* who acknowledges a DATA_REQ; on a broken one it may still vanish into   *)
(* the kernel's buffer.                                                    *)
WriterWrite(c) ==
    /\ writer[c] = "running"
    /\ writer_ch[c] # <<>>
    /\ writer_ch' = [writer_ch EXCEPT ![c] = Tail(@)]
    /\ LET f == Head(writer_ch[c]) IN
        /\ arrived' = IF link[c] /\ f.type # "ACK" THEN arrived \cup {f.payload} ELSE arrived
        /\ inbound' = IF link[c] /\ f.type = "DATA_REQ"
                        THEN [inbound EXCEPT ![c] = Append(@, ack(f.id))]
                        ELSE inbound
    /\ UNCHANGED <<cmd, timer_ch, accept, broker, writer, phase, peer, link, remote_n>>

(* A write (of a frame or of a heartbeat) on a broken link fails; or the   *)
(* broker dropped the sender and the channel has run dry.  Either way the  *)
(* thread ends and drops its receiver with what is queued in it.           *)
WriterEnd(c, dropped) ==
    /\ writer[c] = "running"
    /\ ~link[c] \/ (dropped /\ writer_ch[c] = <<>>)
    /\ writer' = [writer EXCEPT ![c] = "done"]
    /\ writer_ch' = [writer_ch EXCEPT ![c] = <<>>]
    /\ UNCHANGED <<cmd, timer_ch, accept, broker, phase, peer, link, inbound, remote_n, arrived>>

-----------------------------------------------------------------------------
(* The environment *)

LinkBreak(c) ==
    /\ link[c]
    /\ phase[c] \in {"registering", "open"}
    /\ link' = [link EXCEPT ![c] = FALSE]
    /\ UNCHANGED channels
    /\ UNCHANGED <<broker, writer, phase, peer, inbound, remote_n, arrived>>

(* The peer sends its next message, asking for an acknowledgement or not.  *)
RemoteSend(c) ==
    /\ link[c]
    /\ phase[c] \in {"registering", "open"}
    /\ remote_n' = [remote_n EXCEPT ![c] = @ + 1]
    /\ LET m == <<c, remote_n[c] + 1>> IN
        \E f \in {data(m), data_req(m, m)} :
            inbound' = [inbound EXCEPT ![c] = Append(@, f)]
    /\ UNCHANGED channels
    /\ UNCHANGED <<broker, writer, phase, peer, link, arrived>>
=============================================================================
