---------------------------- MODULE AsyncBroker -----------------------------
(***************************************************************************)
(* The broker task of the tokio port (broker.rs of rust-lib-async).  Its   *)
(* state is one record, and each handler, which runs without awaiting, is  *)
(* a function from the state before it to the state after it.  What a      *)
(* handler sends to the writer tasks is collected in the field out, as     *)
(* pairs of a connection and a frame.  The deadlines of the unacknowledged *)
(* messages are part of this state: there is no timer to talk to.          *)
(*                                                                         *)
(* Payloads and message ids are numbers, as in module Messages.            *)
(***************************************************************************)
EXTENDS Naturals, SequencesExt

CONSTANTS
    Identity,       \* identities of remote sockets
    Conn,           \* connections, one per accept() or connect(); never reused
    NoIdentity,     \* the None of Option<Identity>
    SendModes,      \* of "RoundRobin" and "Publish", what a socket may be built with
    Delivery,       \* "AtMostOnce" or "AtLeastOnce"
    MAX_RETRIES,    \* 5
    CursorMod       \* 2^w, w the width of usize

ASSUME AsyncBrokerAssumption ==
    /\ NoIdentity \notin Identity
    /\ SendModes \subseteq {"RoundRobin", "Publish"}
    /\ Delivery \in {"AtMostOnce", "AtLeastOnce"}
    /\ MAX_RETRIES \in Nat
    /\ CursorMod \in Nat \ {0}

OptIdentity == Identity \cup {NoIdentity}

data(payload) == [type |-> "DATA", payload |-> payload]

data_req(id, payload) == [type |-> "DATA_REQ", id |-> id, payload |-> payload]

ack(id) == [type |-> "ACK", id |-> id]

Message(identity, payload) == [identity |-> identity, payload |-> payload]

new(send_mode) ==
    [send_mode |-> send_mode, conns |-> <<>>, order |-> <<>>, rr_cursor |-> 0, buffer |-> <<>>,
     pending |-> {}, deadlines |-> <<>>, next_id |-> 0, received |-> <<>>, exhausted |-> {}, out |-> <<>>]

-----------------------------------------------------------------------------
(* Routing *)

Peers(b) == DOMAIN b.conns

at_least_once(b, identity) ==
    /\ Delivery = "AtLeastOnce"
    /\ identity # NoIdentity \/ b.send_mode = "RoundRobin"

next_round_robin(b) == b.order[(b.rr_cursor % Len(b.order)) + 1]

Targets(b, target) ==
    IF target # NoIdentity THEN {target}
    ELSE IF b.send_mode = "Publish" THEN Peers(b)
    ELSE IF b.order = <<>> THEN {}
    ELSE {next_round_robin(b)}

route(b, target, frame) ==
    [b EXCEPT
        !.out = @ \o SetToSeq({<<b.conns[p], frame>> : p \in Targets(b, target) \cap Peers(b)}),
        !.rr_cursor = IF target = NoIdentity /\ b.send_mode = "RoundRobin" /\ b.order # <<>>
                        THEN (@ + 1) % CursorMod ELSE @]

transmit(b, identity, payload, retries) ==
    IF at_least_once(b, identity)
      THEN route([b EXCEPT
                    !.next_id = @ + 1,
                    !.deadlines = Append(@, b.next_id),
                    !.pending = @ \cup {[id |-> b.next_id, identity |-> identity,
                                         payload |-> payload, retries |-> retries]}],
                 identity, data_req(b.next_id, payload))
      ELSE route(b, identity, data(payload))

handle_send(b, m) ==
    IF Peers(b) = {}
      THEN [b EXCEPT !.buffer = Append(@, m)]
      ELSE transmit(b, m.identity, m.payload, MAX_RETRIES)

-----------------------------------------------------------------------------
(* Connections *)

(* Variant: the buffer is cleared before it is flushed.                    *)
handle_up_clears(b, p, c) ==
    IF p \in Peers(b) THEN b
    ELSE [b EXCEPT !.conns = [q \in DOMAIN @ \cup {p} |-> IF q = p THEN c ELSE @[q]],
                   !.order = Append(@, p),
                   !.buffer = <<>>]

(* A duplicate identity changes nothing; the first peer gets the buffer.   *)
handle_up(b, p, c) ==
    IF p \in Peers(b) THEN b
    ELSE FoldLeft(handle_send,
                  [b EXCEPT !.conns = [q \in DOMAIN @ \cup {p} |-> IF q = p THEN c ELSE @[q]],
                            !.order = Append(@, p),
                            !.buffer = <<>>],
                  b.buffer)

handle_down(b, p) ==
    [b EXCEPT !.conns = [q \in DOMAIN @ \ {p} |-> @[q]],
              !.order = RemoveFirst(@, p)]

-----------------------------------------------------------------------------
(* Received envelopes and resends *)

(* Variant: an ACK takes the first deadline for that of its message.       *)
handle_received_pops(b, p, e) ==
    LET delivered == [b EXCEPT !.received = Append(@, Message(p, e.payload))] IN
    CASE e.type = "DATA" -> delivered
      [] e.type = "DATA_REQ" -> route(delivered, p, ack(e.id))
      [] e.type = "ACK" -> [b EXCEPT !.pending = {r \in @ : r.id # e.id},
                                     !.deadlines = IF @ = <<>> THEN @ ELSE Tail(@)]

handle_received(b, p, e) ==
    LET delivered == [b EXCEPT !.received = Append(@, Message(p, e.payload))] IN
    CASE e.type = "DATA" -> delivered
      [] e.type = "DATA_REQ" -> route(delivered, p, ack(e.id))
      [] e.type = "ACK" -> [b EXCEPT !.pending = {r \in @ : r.id # e.id}]

fire_resend(b, id) ==
    LET found == {r \in b.pending : r.id = id} IN
    IF found = {} THEN b ELSE
    LET r == CHOOSE x \in found : TRUE
        taken == [b EXCEPT !.pending = @ \ {r}]
    IN  IF r.retries = 0 THEN [taken EXCEPT !.exhausted = @ \cup {r.payload}]
        ELSE IF Peers(b) = {}
          THEN [taken EXCEPT !.buffer = Append(@, Message(r.identity, r.payload))]
        ELSE transmit(taken, r.identity, r.payload, r.retries - 1)

(* The first n deadlines are due.  What a resend pushes is due later.      *)
fire_due_resends(b, n) ==
    FoldLeft(fire_resend, [b EXCEPT !.deadlines = SubSeq(@, n + 1, Len(@))],
             SubSeq(b.deadlines, 1, n))
=============================================================================
