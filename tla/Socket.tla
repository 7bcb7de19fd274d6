------------------------------- MODULE Socket -------------------------------
(***************************************************************************)
(* One synchronous socket: the application's calls (lib.rs), the broker    *)
(* thread, the resend-timer thread and the threads of every connection,    *)
(* composed over the channels of module Messages.                          *)
(***************************************************************************)
EXTENDS Broker, ResendTimers, Connection

CONSTANTS
    MaxSends,       \* bound: calls of send() and send_to()
    MaxRemoteSends  \* bound: messages a peer sends on one connection

ASSUME BoundsAssumption == MaxSends \in Nat /\ MaxRemoteSends \in Nat

VARIABLES
    sent,       \* history: sent[k] is the identity given with the k-th send
    closed      \* Inner::closed

appVars == <<sent, closed>>

vars == <<cmd, timer_ch, writer_ch, accept, broker, writer,
          conns, order, rr_cursor, buffer, buffered, pending, next_id, received, exhausted,
          deadlines, armed, timer,
          phase, peer, link, inbound, remote_n, arrived,
          sent, closed>>

(* Every channel carries only what its receiver understands, every handler *)
(* finds its fields, and a retry count never passes below zero.            *)
TypeOK ==
    /\ ChannelsTypeOK
    /\ BrokerTypeOK
    /\ TimerTypeOK
    /\ ConnectionTypeOK
    /\ sent \in Seq(OptIdentity)
    /\ closed \in BOOLEAN

Init ==
    /\ ChannelsInit
    /\ BrokerInit
    /\ TimerInit
    /\ ConnectionInit
    /\ sent = <<>>
    /\ closed = FALSE

-----------------------------------------------------------------------------
(* The application *)

(* send (id = NoIdentity) and send_to.  On a broker that is gone they      *)
(* return Error::Closed and change nothing.                                *)
dispatch(id) ==
    /\ Len(sent) < MaxSends
    /\ Connected
    /\ sent' = Append(sent, id)
    /\ SendCommand(Send(id, Len(sent) + 1))
    /\ UNCHANGED <<timer_ch, writer_ch, accept, broker, writer, closed>>

(* close(): the flag, then Command::Close.  (The joins that follow wait    *)
(* for the threads to end and change nothing here; the shutdown of every   *)
(* registered socket is LinkBreak.)                                        *)
close ==
    /\ ~closed
    /\ closed' = TRUE
    /\ SendCommand(Close)
    /\ UNCHANGED <<timer_ch, writer_ch, accept, broker, writer, sent>>

-----------------------------------------------------------------------------
AppStep ==
    /\ close \/ \E id \in OptIdentity : dispatch(id)
    /\ UNCHANGED <<brokerVars, timerVars, connectionVars>>

BrokerNext ==
    /\ BrokerStep \/ BrokerExit(timer = "done")
    /\ UNCHANGED <<timerVars, connectionVars, appVars>>

TimerNext ==
    /\ TimerStep
    /\ UNCHANGED <<brokerVars, connectionVars, appVars>>

(* The broker dropped the writer sender of c, which it kept in conns.      *)
SenderDropped(c) == peer[c] \in Identity /\ conns[peer[c]] # c

(* What the session thread of c does of its own accord.                    *)
SessionAdvance(c) ==
    /\ \/ Accepted(c) \/ Rejected(c)
       \/ ReaderForward(c) \/ JoinWriter(c)
       \/ ~link[c] /\ ReaderEnd(c)
    /\ UNCHANGED <<brokerVars, timerVars, appVars>>

(* What reaches it from outside: a peer's HELLO, a peer that fell silent.  *)
SessionEvent(c) ==
    /\ ReaderEnd(c) \/ \E p \in Identity : Register(c, p)
    /\ UNCHANGED <<brokerVars, timerVars, appVars>>

WriterNext(c) ==
    /\ WriterWrite(c) \/ WriterEnd(c, SenderDropped(c))
    /\ UNCHANGED <<brokerVars, timerVars, appVars>>

EnvNext(c) ==
    /\ LinkBreak(c) \/ (remote_n[c] < MaxRemoteSends /\ RemoteSend(c))
    /\ UNCHANGED <<brokerVars, timerVars, appVars>>

(* Everything has ended: close() has returned and no thread is left.       *)
Terminated ==
    /\ closed
    /\ broker = "done"
    /\ \A c \in Conn : phase[c] = "closed"
    /\ UNCHANGED vars

Next ==
    \/ AppStep
    \/ BrokerNext
    \/ TimerNext
    \/ \E c \in Conn : SessionAdvance(c) \/ SessionEvent(c) \/ WriterNext(c) \/ EnvNext(c)
    \/ Terminated

Spec == Init /\ [][Next]_vars
-----------------------------------------------------------------------------
(* Safety: registration *)

(* A ConnectionDown names only an identity, and handle_down evicts         *)
(* whatever connection that identity has.  It is always the connection     *)
(* that ended: a reconnecting peer is turned away as a duplicate until the *)
(* Down of its old connection has been handled, so a Down can never tear   *)
(* down a newer connection of the same peer.                               *)
DownMatchesConn ==
    \A m \in Range(cmd) : m.type = "ConnectionDown" => conns[m.identity] = m.conn

(* handle_received answers a DATA_REQ by routing the ACK to an identity.   *)
(* The ACK is nevertheless queued on the very connection the DATA_REQ      *)
(* arrived on, as PROTOCOL.md section 6 demands, whatever reconnections    *)
(* the peer makes meanwhile.                                               *)
AckOnSameConnection ==
    \A c \in Conn : \A f \in Range(writer_ch[c]) : f.type = "ACK" => f.id[1] = c

(* The vector `order` that round-robin cycles through lists exactly the    *)
(* identities of the connection map, each once: handle_up and handle_down  *)
(* keep the two in step.                                                   *)
OrderMatchesConns ==
    /\ Range(order) = {p \in Identity : conns[p] # NoConn}
    /\ IsInjective(order)

-----------------------------------------------------------------------------
(* Safety: at-least-once delivery *)

InSendCommand(k) == \E m \in Range(cmd) : m.type = "Send" /\ m.payload = k

InBuffer(k) == \E m \in Range(buffer) : m.payload = k

InBuffered(k) == \E m \in Range(buffered) : m.payload = k

IsPending(k) == \E r \in pending : r.payload = k

(* A message accepted for at-least-once delivery is never silently lost.   *)
(* While the broker runs it is queued, buffered, being flushed or pending, *)
(* or it reached a peer, or its retries ran out (handle_resend), whatever  *)
(* connections break, reconnect or are rejected in between.                *)
NoSilentLoss ==
    broker = "running" =>
        \A k \in DOMAIN sent : at_least_once(sent[k]) =>
            \/ InSendCommand(k) \/ InBuffer(k) \/ InBuffered(k) \/ IsPending(k)
            \/ k \in arrived \/ k \in exhausted

(* The places in which the broker holds message k.                         *)
Copies(k) ==
    {<<"cmd", i>> : i \in {j \in DOMAIN cmd : cmd[j].type = "Send" /\ cmd[j].payload = k}}
        \cup {<<"buffer", i>> : i \in {j \in DOMAIN buffer : buffer[j].payload = k}}
        \cup {<<"buffered", i>> : i \in {j \in DOMAIN buffered : buffered[j].payload = k}}
        \cup {<<"pending", r>> : r \in {q \in pending : q.payload = k}}

(* The broker holds at most one copy of a message: a resend that moves a   *)
(* message back to the buffer, or gives it a new id, leaves no second copy *)
(* behind that would be retried on its own.                                *)
OneCustodian == \A k \in DOMAIN sent : \A x, y \in Copies(k) : x = y

(* No unacknowledged message is forgotten: while the broker runs the timer *)
(* thread runs too, and every entry of `pending` has its countdown on the  *)
(* way to the timer thread, running there, or reported in the command      *)
(* channel.  In particular a Cancel never stops the countdown of a message *)
(* that is still pending.                                                  *)
PendingIsTimed ==
    broker = "running" =>
        /\ timer = "running"
        /\ \A r \in pending :
            \/ Arm(r.id) \in Range(timer_ch)
            \/ r.id \in armed /\ r.id \in Range(deadlines)
            \/ ResendTimeout(r.id) \in Range(cmd)

(* Retries are bounded, as PROTOCOL.md section 6 says of a resend: no      *)
(* message is transmitted more than 1 + MAX_RETRIES times (each            *)
(* transmission takes one id from next_msg_id).                            *)
BoundedRetries == next_id <= Len(sent) * (1 + MAX_RETRIES)

-----------------------------------------------------------------------------
(* Why no message is lost, as an inductive invariant *)

(* A copy of message k anywhere in the broker carries the identity that    *)
(* message was sent with, so it is handled the same way each time.         *)
CopiesAreFaithful ==
    \A m \in {x \in Range(cmd) : x.type = "Send"} \cup Range(buffer) \cup Range(buffered)
               \cup pending :
        m.payload \in DOMAIN sent /\ m.identity = sent[m.payload]

(* Every id in use was handed out by next_msg_id.                          *)
IdsAreOld ==
    /\ \A r \in pending : r.id < next_id
    /\ \A m \in Range(cmd) :
         m.type = "Received" /\ m.envelope.type = "ACK" => m.envelope.id < next_id
    /\ \A c \in Conn :
         /\ \A f \in Range(writer_ch[c]) : f.type = "DATA_REQ" => f.id < next_id
         /\ \A f \in Range(inbound[c]) : f.type = "ACK" => f.id < next_id

(* A DATA_REQ on its way out carries the payload its id stands for.        *)
FramesMatch ==
    \A c \in Conn : \A f \in Range(writer_ch[c]) : \A r \in pending :
        f.type = "DATA_REQ" /\ f.id = r.id => f.payload = r.payload

(* An ACK on its way back means that its message reached the peer.         *)
AcksAreEarned ==
    \A r \in pending :
        /\ \A c \in Conn : \A f \in Range(inbound[c]) :
             f.type = "ACK" /\ f.id = r.id => r.payload \in arrived
        /\ \A m \in Range(cmd) :
             m.type = "Received" /\ m.envelope.type = "ACK" /\ m.envelope.id = r.id
                 => r.payload \in arrived

(* Together: every handler and every thread hands a message on only to     *)
(* another custodian, to a peer, or to the end of its retries.             *)
Custody ==
    /\ NoSilentLoss
    /\ CopiesAreFaithful
    /\ IdsAreOld
    /\ FramesMatch
    /\ AcksAreEarned

-----------------------------------------------------------------------------
(* Safety: order *)

(* Messages wait in the buffer only while nobody is connected: neither a   *)
(* resend that found no peer nor a send racing a disconnection is left in  *)
(* the buffer when a peer is there to take it.                             *)
BufferedMeansNoPeer == buffer # <<>> => NoConns

(* The messages among the frames of c's writer channel.                    *)
FramesOf(c) == {f \in Range(writer_ch[c]) : f.type # "ACK"}

Sends == {m \in Range(cmd) : m.type = "Send"}

InSendOrder(q, S) ==
    \A i, j \in DOMAIN q : i < j /\ q[i] \in S /\ q[j] \in S => q[i].payload < q[j].payload

AheadOf(S, T) == \A m \in S, n \in T : m.payload < n.payload

(* Under at-most-once delivery nothing overtakes: on every connection the  *)
(* frames waiting to be written, then the messages being flushed, then     *)
(* those buffered, then those still in the command channel are in the      *)
(* order the application sent them (PROTOCOL.md section 7: buffered        *)
(* messages are flushed in send order).                                    *)
NothingOvertakes ==
    Delivery = "AtMostOnce" =>
        \A c \in Conn :
            /\ InSendOrder(writer_ch[c], FramesOf(c))
            /\ AheadOf(FramesOf(c), Range(buffered) \cup Range(buffer) \cup Sends)
            /\ InSendOrder(buffered, Range(buffered))
            /\ AheadOf(Range(buffered), Range(buffer) \cup Sends)
            /\ InSendOrder(buffer, Range(buffer))
            /\ AheadOf(Range(buffer), Sends)
            /\ InSendOrder(cmd, Sends)

(* The merged receive stream keeps each connection's order, with no gap    *)
(* and no repetition, however the connections' readers interleave.         *)
ReceiveInOrder ==
    \A i \in DOMAIN received : LET m == received[i].payload IN
        /\ \A j \in 1..(i - 1) :
             received[j].payload[1] = m[1] => received[j].payload[2] < m[2]
        /\ m[2] = 1 \/ \E j \in 1..(i - 1) : received[j].payload = <<m[1], m[2] - 1>>

-----------------------------------------------------------------------------
(* Liveness *)

(* Every thread keeps running: the broker serves its channel; the timer    *)
(* serves its channel and time passes; a session thread acts on its reply, *)
(* forwards what it reads, notices a broken link (EOF, an error or the     *)
(* read timeout) and joins its writer; a writer writes or notices.  Nobody *)
(* is obliged to call send(), to connect, to answer or to break a link.    *)
Fairness ==
    /\ WF_vars(BrokerNext)
    /\ WF_vars(TimerNext)
    /\ \A c \in Conn : WF_vars(SessionAdvance(c)) /\ WF_vars(WriterNext(c))

FairSpec == Spec /\ Fairness

(* Every at-least-once message comes to rest: it reaches a peer, runs out  *)
(* of retries, or waits in the buffer for somebody to connect; or the      *)
(* socket is closed first.                                                 *)
MessagesSettle ==
    <>[](\A k \in DOMAIN sent : at_least_once(sent[k]) =>
            k \in arrived \cup exhausted \/ InBuffer(k) \/ broker # "running")

(* Retransmission stops: with finitely many sends and connections the      *)
(* table of unacknowledged messages is empty from some point on.           *)
PendingDrains == <>[](pending = {})

(* No thread waits for ever: register() has its answer, whether it is      *)
(* accepted, turned away as a duplicate or overtaken by close(), and       *)
(* close() ends the broker thread with the timer thread that it joins.     *)
NobodyWaits ==
    <>[](/\ \A c \in Conn : phase[c] # "registering"
         /\ closed => broker = "done" /\ timer = "done")
=============================================================================
