---------------------------- MODULE AsyncSocket -----------------------------
(***************************************************************************)
(* One socket of the tokio port: the application's calls (lib.rs), the     *)
(* broker task, and for every connection the task of handle_connection     *)
(* with the writer task it spawns (conn.rs), over unbounded channels.  A   *)
(* task runs from one await to the next, so that each action is what a     *)
(* task does between two of them.  As in module Connection the link and    *)
(* the peer are the environment, frames are whole and heartbeats are left  *)
(* out.                                                                    *)
(***************************************************************************)
EXTENDS AsyncBroker, FiniteSets

CONSTANTS
    MaxInputs       \* bound: connections, and messages sent or received, in all

ASSUME AsyncSocketAssumption == Conn \subseteq Nat /\ MaxInputs \in Nat

VARIABLES
    b,          \* the state of the broker task, a record of module AsyncBroker
    broker,     \* "running" or "done"
    cmd,        \* the command channel
    shutdown,   \* the watch channel
    sent,       \* history: sent[k] is the identity given with the k-th send
    accept,     \* accept[c]: the oneshot reply
    queue,      \* queue[c]: the broker sends, the writer task of c receives
    writer,     \* writer[c]: "idle", "running" or "done"
    phase,      \* phase[c]: where the connection task is
    peer,       \* peer[c]: the identity the peer's HELLO announced
    link,       \* link[c]: TRUE while the connection works
    inbound,    \* inbound[c]: frames the peer sent, not yet read
    remote_n,   \* remote_n[c]: how many messages the peer sent
    arrived     \* history: payloads of this socket that reached a peer

appVars == <<shutdown, sent>>

connVars == <<phase, peer, link, inbound, remote_n, arrived>>

vars == <<b, broker, cmd, accept, queue, writer, appVars, connVars>>

Running == broker = "running"

SendCommand(m) == cmd' = IF Running THEN Append(cmd, m) ELSE cmd

Inputs ==
    Len(sent) + FoldFunction(LAMBDA n, total : n + total, 0, remote_n)
      + Cardinality({c \in Conn : phase[c] # "new"})

-----------------------------------------------------------------------------
(* The application *)

dispatch(id) ==
    /\ Running
    /\ Inputs < MaxInputs
    /\ sent' = Append(sent, id)
    /\ SendCommand([type |-> "Send", identity |-> id, payload |-> Len(sent) + 1])
    /\ UNCHANGED <<b, broker, accept, queue, writer, shutdown, connVars>>

(* close(): the signal, then the command.                                  *)
Signal ==
    /\ ~shutdown
    /\ shutdown' = TRUE
    /\ UNCHANGED <<b, broker, cmd, accept, queue, writer, sent, connVars>>

SendClose ==
    /\ shutdown
    /\ Running
    /\ ~\E i \in DOMAIN cmd : cmd[i].type = "Close"
    /\ SendCommand([type |-> "Close"])
    /\ UNCHANGED <<b, broker, accept, queue, writer, appVars, connVars>>

-----------------------------------------------------------------------------
(* The broker task *)

(* The handler's frames go to the writers that still hold their receiver.  *)
Becomes(state) ==
    /\ b' = [state EXCEPT !.out = <<>>]
    /\ queue' = [c \in Conn |->
          LET mine == SelectSeq(state.out, LAMBDA x : x[1] = c) IN
          IF writer[c] = "done" THEN queue[c]
          ELSE queue[c] \o [i \in DOMAIN mine |-> mine[i][2]]]

BrokerRecv(type) ==
    /\ Running
    /\ cmd # <<>> /\ Head(cmd).type = type
    /\ cmd' = Tail(cmd)
    /\ UNCHANGED <<broker, writer, appVars, connVars>>

HandleSend ==
    /\ BrokerRecv("Send")
    /\ Becomes(handle_send(b, Message(Head(cmd).identity, Head(cmd).payload)))
    /\ UNCHANGED accept

HandleUp ==
    /\ BrokerRecv("ConnectionUp")
    /\ LET p == Head(cmd).identity
           c == Head(cmd).conn IN
        /\ Becomes(handle_up(b, p, c))
        /\ accept' = [accept EXCEPT ![c] = IF p \in Peers(b) THEN "false" ELSE "true"]

HandleDown ==
    /\ BrokerRecv("ConnectionDown")
    /\ Becomes(handle_down(b, Head(cmd).identity))
    /\ UNCHANGED accept

HandleReceived ==
    /\ BrokerRecv("Received")
    /\ Becomes(handle_received(b, Head(cmd).identity, Head(cmd).envelope))
    /\ UNCHANGED accept

(* Variant: the last deadline of the queue is never found due.             *)
FireAllButLast ==
    /\ Running
    /\ \E n \in 1..(Len(b.deadlines) - 1) : Becomes(fire_due_resends(b, n))
    /\ UNCHANGED <<broker, cmd, accept, writer, appVars, connVars>>

(* The other branch of the select: time has reached the first deadline and *)
(* perhaps more of them.  Commands may be waiting; select! takes either.   *)
FireDueResends ==
    /\ Running
    /\ \E n \in 1..Len(b.deadlines) : Becomes(fire_due_resends(b, n))
    /\ UNCHANGED <<broker, cmd, accept, writer, appVars, connVars>>

(* The task returns, and drops the channels it holds and all its state.    *)
HandleClose ==
    /\ Running
    /\ cmd # <<>> /\ Head(cmd).type = "Close"
    /\ broker' = "done"
    /\ cmd' = <<>>
    /\ b' = [new(b.send_mode) EXCEPT
            !.next_id = b.next_id, !.received = b.received, !.exhausted = b.exhausted]
    /\ UNCHANGED <<accept, queue, writer, appVars, connVars>>

BrokerNext ==
    HandleSend \/ HandleUp \/ HandleDown \/ HandleReceived \/ FireDueResends \/ HandleClose

-----------------------------------------------------------------------------
(* The task of a connection *)

(* Connections are numbered in the order in which they register.           *)
Register(c, p) ==
    /\ phase[c] = "new" /\ \A d \in Conn : phase[d] = "new" => c <= d
    /\ Inputs < MaxInputs
    /\ peer' = [peer EXCEPT ![c] = p]
    /\ SendCommand([type |-> "ConnectionUp", identity |-> p, conn |-> c])
    /\ phase' = [phase EXCEPT ![c] = IF Running THEN "registering" ELSE "closed"]
    /\ UNCHANGED <<b, broker, accept, queue, writer, appVars, link, inbound, remote_n, arrived>>

Accepted(c) ==
    /\ phase[c] = "registering"
    /\ accept[c] = "true"
    /\ phase' = [phase EXCEPT ![c] = "open"]
    /\ writer' = [writer EXCEPT ![c] = "running"]
    /\ UNCHANGED <<b, broker, cmd, accept, queue, appVars, peer, link, inbound, remote_n, arrived>>

(* A duplicate, or a broker that dropped the reply: the stream is dropped. *)
Rejected(c) ==
    /\ phase[c] = "registering"
    /\ accept[c] = "false" \/ (accept[c] = "empty" /\ ~Running)
    /\ phase' = [phase EXCEPT ![c] = "closed"]
    /\ link' = [link EXCEPT ![c] = FALSE]
    /\ UNCHANGED <<b, broker, cmd, accept, queue, writer, appVars, peer, inbound, remote_n, arrived>>

ReaderForward(c) ==
    /\ phase[c] = "open"
    /\ Running
    /\ inbound[c] # <<>>
    /\ inbound' = [inbound EXCEPT ![c] = Tail(@)]
    /\ SendCommand([type |-> "Received", identity |-> peer[c], conn |-> c,
                    envelope |-> Head(inbound[c])])
    /\ UNCHANGED <<b, broker, accept, queue, writer, appVars, phase, peer, link, remote_n, arrived>>

(* The signal, the timeout of a silent peer, end of file or an error.      *)
ReaderEnd(c) ==
    /\ phase[c] = "open"
    /\ SendCommand([type |-> "ConnectionDown", identity |-> peer[c], conn |-> c])
    /\ phase' = [phase EXCEPT ![c] = "closing"]
    /\ UNCHANGED <<b, broker, accept, queue, writer, appVars, peer, link, inbound, remote_n, arrived>>

(* writer.abort(), and both halves of the stream are dropped.              *)
AbortWriter(c) ==
    /\ phase[c] = "closing"
    /\ phase' = [phase EXCEPT ![c] = "closed"]
    /\ writer' = [writer EXCEPT ![c] = "done"]
    /\ queue' = [queue EXCEPT ![c] = <<>>]
    /\ link' = [link EXCEPT ![c] = FALSE]
    /\ UNCHANGED <<b, broker, cmd, accept, appVars, peer, inbound, remote_n, arrived>>

SessionAdvance(c) ==
    \/ Accepted(c) \/ Rejected(c) \/ ReaderForward(c) \/ AbortWriter(c)
    \/ (~link[c] \/ shutdown \/ ~Running) /\ ReaderEnd(c)

(* The writer task.  Over a working link a frame reaches the peer, who     *)
(* acknowledges a DATA_REQ; over a broken one it may vanish.               *)
WriterWrite(c) ==
    /\ writer[c] = "running"
    /\ queue[c] # <<>>
    /\ queue' = [queue EXCEPT ![c] = Tail(@)]
    /\ LET f == Head(queue[c]) IN
        /\ arrived' = IF link[c] /\ f.type # "ACK" THEN arrived \cup {f.payload} ELSE arrived
        /\ inbound' = IF link[c] /\ f.type = "DATA_REQ"
                        THEN [inbound EXCEPT ![c] = Append(@, ack(f.id))] ELSE inbound
    /\ UNCHANGED <<b, broker, cmd, accept, writer, appVars, phase, peer, link, remote_n>>

(* The broker dropped the sender it kept for c.                            *)
SenderDropped(c) == ~\E p \in Peers(b) : b.conns[p] = c

(* The signal, a failed write, or a channel without sender.                *)
WriterEnd(c) ==
    /\ writer[c] = "running"
    /\ shutdown \/ ~link[c] \/ (SenderDropped(c) /\ queue[c] = <<>>)
    /\ writer' = [writer EXCEPT ![c] = "done"]
    /\ queue' = [queue EXCEPT ![c] = <<>>]
    /\ UNCHANGED <<b, broker, cmd, accept, appVars, connVars>>

WriterNext(c) == WriterWrite(c) \/ WriterEnd(c)

-----------------------------------------------------------------------------
(* The environment *)

LinkBreak(c) ==
    /\ link[c]
    /\ phase[c] \in {"registering", "open"}
    /\ link' = [link EXCEPT ![c] = FALSE]
    /\ UNCHANGED <<b, broker, cmd, accept, queue, writer, appVars, phase, peer, inbound, remote_n, arrived>>

RemoteSend(c) ==
    /\ link[c]
    /\ phase[c] \in {"registering", "open"}
    /\ Inputs < MaxInputs
    /\ remote_n' = [remote_n EXCEPT ![c] = @ + 1]
    /\ LET m == <<c, remote_n[c] + 1>> IN
        \E f \in {data(m), data_req(m, m)} : inbound' = [inbound EXCEPT ![c] = Append(@, f)]
    /\ UNCHANGED <<b, broker, cmd, accept, queue, writer, appVars, phase, peer, link, arrived>>

-----------------------------------------------------------------------------
Init ==
    /\ \E mode \in SendModes : b = new(mode)
    /\ broker = "running"
    /\ cmd = <<>>
    /\ shutdown = FALSE
    /\ sent = <<>>
    /\ accept = [c \in Conn |-> "empty"]
    /\ queue = [c \in Conn |-> <<>>]
    /\ writer = [c \in Conn |-> "idle"]
    /\ phase = [c \in Conn |-> "new"]
    /\ peer = [c \in Conn |-> NoIdentity]
    /\ link = [c \in Conn |-> TRUE]
    /\ inbound = [c \in Conn |-> <<>>]
    /\ remote_n = [c \in Conn |-> 0]
    /\ arrived = {}

Next ==
    \/ \E id \in OptIdentity : dispatch(id)
    \/ Signal \/ SendClose
    \/ BrokerNext
    \/ \E c \in Conn :
        \/ SessionAdvance(c) \/ ReaderEnd(c) \/ \E p \in Identity : Register(c, p)
        \/ WriterNext(c) \/ LinkBreak(c) \/ RemoteSend(c)

Spec == Init /\ [][Next]_vars

(* Every spawned task is polled when it is ready, and time passes.  Nobody *)
(* has to send, to connect or to close.                                    *)
FairSpec ==
    /\ Spec
    /\ WF_vars(BrokerNext)
    /\ WF_vars(SendClose)
    /\ \A c \in Conn : WF_vars(SessionAdvance(c)) /\ WF_vars(WriterNext(c))

-----------------------------------------------------------------------------
InCommand(k) == \E m \in ToSet(cmd) : m.type = "Send" /\ m.payload = k

InBuffer(k) == \E m \in ToSet(b.buffer) : m.payload = k

IsPending(k) == \E r \in b.pending : r.payload = k

Promised == {k \in DOMAIN sent : at_least_once(b, sent[k])}

(* Every unacknowledged message has exactly one deadline in the broker's   *)
(* queue, among the entries of ids that were acknowledged meanwhile: those *)
(* stay until they are due and are skipped then, however many are due at   *)
(* once, and no entry of a live id is skipped or doubled.                  *)
PendingHasDeadline ==
    \A r \in b.pending : Cardinality({i \in DOMAIN b.deadlines : b.deadlines[i] = r.id}) = 1

(* The socket implements the promise of module AtLeastOnce.                *)
Guarantee == INSTANCE AtLeastOnce
    WITH accepted <- Promised,
         held <- {k \in Promised : InCommand(k) \/ InBuffer(k) \/ IsPending(k)},
         arrived <- arrived \cap Promised,
         exhausted <- b.exhausted,
         running <- Running

(* Every step of the tasks is a step that promise allows: nothing leaves   *)
(* the custody of the broker but what arrived, ran out of retries, or was  *)
(* there when the socket closed.                                           *)
KeepsCustody == Guarantee!Spec

(* Every at-least-once message comes to rest: it reaches a peer, runs out  *)
(* of retries or waits in the buffer for a peer, unless the socket closes. *)
SendsSettle ==
    <>[](\A k \in Promised : k \in arrived \cup b.exhausted \/ InBuffer(k) \/ ~Running)

=============================================================================
