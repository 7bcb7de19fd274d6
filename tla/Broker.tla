------------------------------- MODULE Broker -------------------------------
(***************************************************************************)
(* The broker thread of broker.rs: the owner of the connection map, the    *)
(* round-robin order, the send buffer and the table of unacknowledged      *)
(* messages.  It receives one command at a time; each Handle... action is  *)
(* one arm of the match in Broker::run with the whole handler it calls.    *)
(* The loop of handle_up over the drained buffer is taken one element per  *)
(* step (HandleBuffered): `buffered` is that handler's local vector, and   *)
(* while it is not empty the broker receives nothing else.                 *)
(***************************************************************************)
EXTENDS Messages, Functions

VARIABLES
    conns,      \* conns[p]: the connection of identity p, or NoConn
    order,      \* identities in the order they connected
    rr_cursor,  \* round-robin cursor, a wrapping usize
    buffer,     \* messages sent while nobody was connected
    buffered,   \* handle_up's local: what it drained and has still to send
    pending,    \* at-least-once messages awaiting an acknowledgement
    next_id,    \* the counter of next_msg_id
    received,   \* history: everything handed to recv_tx, in order
    exhausted   \* history: payloads given up because retries reached 0

brokerVars ==
    <<conns, order, rr_cursor, buffer, buffered, pending, next_id, received, exhausted>>

Message == [identity : OptIdentity, payload : Nat]

Pending == [id : Nat, identity : OptIdentity, payload : Nat, retries : 0..MAX_RETRIES]

Delivered == [identity : Identity, payload : RemoteMsg]

BrokerTypeOK ==
    /\ conns \in [Identity -> Conn \cup {NoConn}]
    /\ order \in Seq(Identity)
    /\ rr_cursor \in 0..(CursorMod - 1)
    /\ buffer \in Seq(Message)
    /\ buffered \in Seq(Message)
    /\ pending \in SUBSET Pending
    /\ next_id \in Nat
    /\ received \in Seq(Delivered)
    /\ exhausted \in SUBSET Nat

BrokerInit ==
    /\ conns = [p \in Identity |-> NoConn]
    /\ order = <<>>
    /\ rr_cursor = 0
    /\ buffer = <<>>
    /\ buffered = <<>>
    /\ pending = {}
    /\ next_id = 0
    /\ received = <<>>
    /\ exhausted = {}

-----------------------------------------------------------------------------
(* Routing *)

NoConns == \A p \in Identity : conns[p] = NoConn

at_least_once(identity) ==
    /\ Delivery = "AtLeastOnce"
    /\ identity # NoIdentity \/ SendMode = "RoundRobin"

next_round_robin == order[(rr_cursor % Len(order)) + 1]

(* The identities route() writes to; those without a connection get        *)
(* nothing.                                                                *)
Targets(target) ==
    IF target # NoIdentity THEN {target}
    ELSE IF SendMode = "Publish" THEN Identity
    ELSE IF order = <<>> THEN {}
    ELSE {next_round_robin}

(* tx.send fails silently when the writer thread has dropped its receiver. *)
Receives(c, target) ==
    /\ \E p \in Targets(target) : conns[p] = c
    /\ writer[c] # "done"

route(target, frame) ==
    /\ writer_ch' = [c \in Conn |-> IF Receives(c, target)
                                      THEN Append(writer_ch[c], frame)
                                      ELSE writer_ch[c]]
    /\ rr_cursor' = IF target = NoIdentity /\ SendMode = "RoundRobin" /\ order # <<>>
                      THEN (rr_cursor + 1) % CursorMod
                      ELSE rr_cursor

(* Variant: arms the countdown for a first transmission only.              *)
transmit_arms_once(identity, payload, retries, table) ==
    IF at_least_once(identity)
      THEN /\ next_id' = next_id + 1
           /\ timer_ch' = IF retries = MAX_RETRIES
                            THEN Append(timer_ch, Arm(next_id)) ELSE timer_ch
           /\ pending' = table \cup {[id |-> next_id, identity |-> identity,
                                      payload |-> payload, retries |-> retries]}
           /\ route(identity, data_req(next_id, payload))
      ELSE /\ route(identity, data(payload))
           /\ pending' = table
           /\ UNCHANGED <<next_id, timer_ch>>

(* table: the pending map as the caller leaves it.                         *)
transmit(identity, payload, retries, table) ==
    IF at_least_once(identity)
      THEN /\ next_id' = next_id + 1
           /\ timer_ch' = Append(timer_ch, Arm(next_id))
           /\ pending' = table \cup {[id |-> next_id, identity |-> identity,
                                      payload |-> payload, retries |-> retries]}
           /\ route(identity, data_req(next_id, payload))
      ELSE /\ route(identity, data(payload))
           /\ pending' = table
           /\ UNCHANGED <<next_id, timer_ch>>

(* Variants: a message for nobody is dropped; a message for an absent peer *)
(* is kept although others are connected; the buffer is a stack.           *)
handle_send_drops(identity, payload) ==
    IF NoConns
      THEN UNCHANGED <<next_id, timer_ch, pending, writer_ch, rr_cursor, buffer>>
      ELSE /\ transmit(identity, payload, MAX_RETRIES, pending)
           /\ UNCHANGED buffer

handle_send_keeps(identity, payload) ==
    IF NoConns \/ (identity # NoIdentity /\ conns[identity] = NoConn)
      THEN /\ buffer' = Append(buffer, [identity |-> identity, payload |-> payload])
           /\ UNCHANGED <<next_id, timer_ch, pending, writer_ch, rr_cursor>>
      ELSE /\ transmit(identity, payload, MAX_RETRIES, pending)
           /\ UNCHANGED buffer

handle_send_pushes_front(identity, payload) ==
    IF NoConns
      THEN /\ buffer' = <<[identity |-> identity, payload |-> payload]>> \o buffer
           /\ UNCHANGED <<next_id, timer_ch, pending, writer_ch, rr_cursor>>
      ELSE /\ transmit(identity, payload, MAX_RETRIES, pending)
           /\ UNCHANGED buffer

handle_send(identity, payload) ==
    IF NoConns
      THEN /\ buffer' = Append(buffer, [identity |-> identity, payload |-> payload])
           /\ UNCHANGED <<next_id, timer_ch, pending, writer_ch, rr_cursor>>
      ELSE /\ transmit(identity, payload, MAX_RETRIES, pending)
           /\ UNCHANGED buffer

-----------------------------------------------------------------------------
(* The command loop *)

BrokerRecv(type) ==
    /\ broker = "running"
    /\ buffered = <<>>
    /\ cmd # <<>>
    /\ Head(cmd).type = type
    /\ cmd' = Tail(cmd)

HandleSend ==
    /\ BrokerRecv("Send")
    /\ handle_send(Head(cmd).identity, Head(cmd).payload)
    /\ UNCHANGED <<accept, broker, writer, conns, order, buffered, received, exhausted>>

(* Variants: a second connection of an identity replaces the first; or it  *)
(* is made to wait for the end of the first.                               *)
HandleUpReplaces ==
    /\ BrokerRecv("ConnectionUp")
    /\ LET p == Head(cmd).identity
           c == Head(cmd).conn IN
        /\ conns' = [conns EXCEPT ![p] = c]
        /\ order' = IF conns[p] = NoConn THEN Append(order, p) ELSE order
        /\ accept' = [accept EXCEPT ![c] = "true"]
        /\ buffered' = buffer
        /\ buffer' = <<>>
    /\ UNCHANGED <<timer_ch, writer_ch, broker, writer, rr_cursor, pending, next_id,
                   received, exhausted>>

HandleUpWaits ==
    /\ broker = "running" /\ buffered = <<>> /\ cmd # <<>>
    /\ Head(cmd).type = "ConnectionUp"
    /\ LET p == Head(cmd).identity
           c == Head(cmd).conn IN
        IF conns[p] # NoConn
          THEN /\ cmd' = Append(Tail(cmd), Head(cmd))
               /\ UNCHANGED <<conns, order, accept, buffer, buffered>>
          ELSE /\ cmd' = Tail(cmd)
               /\ conns' = [conns EXCEPT ![p] = c]
               /\ order' = Append(order, p)
               /\ accept' = [accept EXCEPT ![c] = "true"]
               /\ buffered' = buffer
               /\ buffer' = <<>>
    /\ UNCHANGED <<timer_ch, writer_ch, broker, writer, rr_cursor, pending, next_id,
                   received, exhausted>>

HandleUp ==
    /\ BrokerRecv("ConnectionUp")
    /\ LET p == Head(cmd).identity
           c == Head(cmd).conn IN
        IF conns[p] # NoConn
          THEN /\ accept' = [accept EXCEPT ![c] = "false"]
               /\ UNCHANGED <<conns, order, buffer, buffered>>
          ELSE /\ conns' = [conns EXCEPT ![p] = c]
               /\ order' = Append(order, p)
               /\ accept' = [accept EXCEPT ![c] = "true"]
               /\ buffered' = buffer
               /\ buffer' = <<>>
    /\ UNCHANGED <<timer_ch, writer_ch, broker, writer, rr_cursor, pending, next_id,
                   received, exhausted>>

HandleBuffered ==
    /\ broker = "running"
    /\ buffered # <<>>
    /\ buffered' = Tail(buffered)
    /\ handle_send(Head(buffered).identity, Head(buffered).payload)
    /\ UNCHANGED <<cmd, accept, broker, writer, conns, order, received, exhausted>>

(* Variant: the identity stays in the round-robin order.                   *)
HandleDownKeepsOrder ==
    /\ BrokerRecv("ConnectionDown")
    /\ conns' = [conns EXCEPT ![Head(cmd).identity] = NoConn]
    /\ UNCHANGED <<timer_ch, writer_ch, accept, broker, writer, rr_cursor, buffer, buffered,
                   pending, next_id, received, exhausted, order>>

(* position(..) finds the first entry of identity p, and remove(pos) moves *)
(* every entry behind it up by one.                                        *)
RemoveFirst(s, p) ==
    IF p \in Range(s)
    THEN [i \in 1..(Len(s) - 1) |-> IF \E j \in 1..i : s[j] = p THEN s[i + 1] ELSE s[i]]
    ELSE s

HandleDown ==
    /\ BrokerRecv("ConnectionDown")
    /\ conns' = [conns EXCEPT ![Head(cmd).identity] = NoConn]
    /\ order' = RemoveFirst(order, Head(cmd).identity)
    /\ UNCHANGED <<timer_ch, writer_ch, accept, broker, writer, rr_cursor, buffer, buffered,
                   pending, next_id, received, exhausted>>

HandleReceived ==
    /\ BrokerRecv("Received")
    /\ LET p == Head(cmd).identity
           e == Head(cmd).envelope IN
        \/ /\ e.type = "DATA"
           /\ received' = Append(received, [identity |-> p, payload |-> e.payload])
           /\ UNCHANGED <<writer_ch, rr_cursor, pending, timer_ch>>
        \/ /\ e.type = "DATA_REQ"
           /\ received' = Append(received, [identity |-> p, payload |-> e.payload])
           /\ route(p, ack(e.id))
           /\ UNCHANGED <<pending, timer_ch>>
        \/ /\ e.type = "ACK"
           /\ pending' = {r \in pending : r.id # e.id}
           /\ timer_ch' = IF \E r \in pending : r.id = e.id
                            THEN Append(timer_ch, Cancel(e.id))
                            ELSE timer_ch
           /\ UNCHANGED <<received, writer_ch, rr_cursor>>
    /\ UNCHANGED <<accept, broker, writer, conns, order, buffer, buffered, next_id, exhausted>>

(* Variants: retries is not compared with 0; a resend copies the entry     *)
(* (`get`) where it should take it out (`remove`).                         *)
HandleResendUnbounded ==
    /\ BrokerRecv("ResendTimeout")
    /\ \/ /\ \A r \in pending : r.id # Head(cmd).id
          /\ UNCHANGED <<pending, exhausted, buffer, next_id, timer_ch, writer_ch, rr_cursor>>
       \/ \E r \in pending :
            /\ r.id = Head(cmd).id
            /\ IF NoConns
                 THEN /\ pending' = pending \ {r}
                      /\ buffer' = Append(buffer, [identity |-> r.identity, payload |-> r.payload])
                      /\ UNCHANGED <<next_id, timer_ch, writer_ch, rr_cursor>>
                 ELSE /\ transmit(r.identity, r.payload, r.retries - 1, pending \ {r})
                      /\ UNCHANGED buffer
            /\ UNCHANGED exhausted
    /\ UNCHANGED <<accept, broker, writer, conns, order, buffered, received>>

HandleResendCopies ==
    /\ BrokerRecv("ResendTimeout")
    /\ \/ /\ \A r \in pending : r.id # Head(cmd).id
          /\ UNCHANGED <<pending, exhausted, buffer, next_id, timer_ch, writer_ch, rr_cursor>>
       \/ \E r \in pending :
            /\ r.id = Head(cmd).id
            /\ IF NoConns
                 THEN /\ UNCHANGED pending
                      /\ buffer' = Append(buffer, [identity |-> r.identity, payload |-> r.payload])
                      /\ UNCHANGED <<next_id, timer_ch, writer_ch, rr_cursor>>
                 ELSE /\ transmit(r.identity, r.payload, r.retries, pending)
                      /\ UNCHANGED buffer
            /\ UNCHANGED exhausted
    /\ UNCHANGED <<accept, broker, writer, conns, order, buffered, received>>

(* handle_resend.  A timeout that lost the race against its ACK finds no   *)
(* entry.  An entry without retries left is dropped; one that fires while  *)
(* nobody is connected goes to the back of the buffer; any other is sent   *)
(* again under a new id.                                                   *)
HandleResend ==
    /\ BrokerRecv("ResendTimeout")
    /\ \/ /\ \A r \in pending : r.id # Head(cmd).id
          /\ UNCHANGED <<pending, exhausted, buffer, next_id, timer_ch, writer_ch, rr_cursor>>
       \/ \E r \in pending :
            /\ r.id = Head(cmd).id
            /\ \/ /\ r.retries = 0
                  /\ pending' = pending \ {r}
                  /\ exhausted' = exhausted \cup {r.payload}
                  /\ UNCHANGED <<buffer, next_id, timer_ch, writer_ch, rr_cursor>>
               \/ /\ r.retries > 0
                  /\ NoConns
                  /\ pending' = pending \ {r}
                  /\ buffer' = Append(buffer, [identity |-> r.identity, payload |-> r.payload])
                  /\ UNCHANGED <<exhausted, next_id, timer_ch, writer_ch, rr_cursor>>
               \/ /\ r.retries > 0
                  /\ ~NoConns
                  /\ transmit(r.identity, r.payload, r.retries - 1, pending \ {r})
                  /\ UNCHANGED <<exhausted, buffer>>
    /\ UNCHANGED <<accept, broker, writer, conns, order, buffered, received>>

(* Close breaks the loop and drops the broker: the command receiver with   *)
(* everything queued in it, the writer senders, and last the timer handle, *)
(* whose Drop sends Shutdown and joins the thread (BrokerExit).            *)
HandleClose ==
    /\ broker = "running"
    /\ buffered = <<>>
    /\ cmd # <<>>
    /\ Head(cmd) = Close
    /\ broker' = "dropping"
    /\ cmd' = <<>>
    /\ conns' = [p \in Identity |-> NoConn]
    /\ order' = <<>>
    /\ buffer' = <<>>
    /\ pending' = {}
    /\ timer_ch' = Append(timer_ch, Shutdown)
    /\ UNCHANGED <<writer_ch, accept, writer, rr_cursor, buffered, next_id, received, exhausted>>

BrokerExit(joined) ==
    /\ broker = "dropping"
    /\ joined
    /\ broker' = "done"
    /\ UNCHANGED <<cmd, timer_ch, writer_ch, accept, writer>>
    /\ UNCHANGED brokerVars

BrokerStep ==
    \/ HandleSend \/ HandleUp \/ HandleBuffered \/ HandleDown
    \/ HandleReceived \/ HandleResend \/ HandleClose
=============================================================================
