---------------------------- MODULE SocketProofs ----------------------------
(***************************************************************************)
(* Theorems about module Socket, for all identities, connections, retry    *)
(* limits and bounds: its types, what its operations do to channels, and   *)
(* that the broker, which knows connections by identity alone, never       *)
(* mistakes one for another.                                               *)
(***************************************************************************)
EXTENDS Socket, Integers, TLAPS

(* Sequences *)

(* RemoveFirst on a sequence without repetitions: a sequence without       *)
(* repetitions again, whose elements are the others.                       *)
LEMMA RemoveFirstFacts ==
    ASSUME NEW S, NEW s \in Seq(S), NEW e
    PROVE  /\ RemoveFirst(s, e) \in Seq(S)
           /\ IsInjective(s) => /\ IsInjective(RemoveFirst(s, e))
                                /\ Range(RemoveFirst(s, e)) = Range(s) \ {e}
<1>1. CASE e \notin Range(s)
  BY <1>1, Zenon DEF RemoveFirst
<1>2. CASE e \in Range(s)
  <2> DEFINE t == RemoveFirst(s, e)
             n == Len(s) - 1
  <2>1. PICK k \in 1..Len(s) : s[k] = e
    BY <1>2 DEF Range
  <2>2. /\ n \in Nat
        /\ t = [i \in 1..n |-> IF \E j \in 1..i : s[j] = e THEN s[i + 1] ELSE s[i]]
    BY <1>2, <2>1 DEF RemoveFirst
  <2>3. \A i \in 1..n : i \in 1..Len(s) /\ i + 1 \in 1..Len(s)
    BY <2>1
  <2> HIDE DEF t
  <2>4. t \in [1..n -> S]
    BY <2>2, <2>3
  <2>5. t \in Seq(S) /\ DOMAIN t = 1..n /\ DOMAIN s = 1..Len(s)
    BY <2>2, <2>4
  <2>6. ASSUME IsInjective(s)
        PROVE  IsInjective(t) /\ Range(t) = Range(s) \ {e}
    <3>1. \A i, j \in 1..Len(s) : s[i] = s[j] => i = j
      BY <2>5, <2>6, Zenon DEF IsInjective
    <3>2. ASSUME NEW i \in 1..n
          PROVE  t[i] = IF k <= i THEN s[i + 1] ELSE s[i]
      <4>1. \A j \in 1..i : j \in 1..Len(s)
        BY <2>3
      <4>2. (\E j \in 1..i : s[j] = e) <=> k <= i
        BY <2>1, <3>1, <4>1
      <4> QED
        BY <2>2, <4>2, Zenon
    <3>3. ASSUME NEW i \in 1..n, NEW j \in 1..n, t[i] = t[j]
          PROVE  i = j
      <4> DEFINE u == IF k <= i THEN i + 1 ELSE i
                 w == IF k <= j THEN j + 1 ELSE j
      <4>1. u \in 1..Len(s) /\ t[i] = s[u]
        BY <2>3, <3>2, Zenon
      <4>2. w \in 1..Len(s) /\ t[j] = s[w]
        BY <2>3, <3>2, Zenon
      <4>3. u = w
        BY <3>1, <3>3, <4>1, <4>2, Zenon
      <4> QED
        BY <2>1, <4>3
    <3>4. ASSUME NEW i \in 1..n
          PROVE  t[i] \in Range(s) \ {e}
      <4> DEFINE u == IF k <= i THEN i + 1 ELSE i
      <4>1. u \in 1..Len(s) /\ t[i] = s[u] /\ u # k
        BY <2>1, <2>3, <3>2
      <4> HIDE DEF u
      <4> QED
        BY <2>1, <2>5, <3>1, <4>1, Zenon DEF Range
    <3>5. ASSUME NEW i \in 1..Len(s), s[i] # e
          PROVE  \E j \in 1..n : t[j] = s[i]
      <4>1. CASE i < k
        <5>1. i \in 1..n
          BY <2>1, <4>1
        <5> QED
          BY <2>1, <3>2, <4>1, <5>1
      <4>2. CASE i > k
        <5>1. i - 1 \in 1..n /\ k <= i - 1
          BY <2>1, <4>2
        <5>2. t[i - 1] = s[i]
          BY <2>1, <3>2, <5>1
        <5> QED
          BY <5>1, <5>2, Zenon
      <4> QED
        BY <2>1, <3>5, <4>1, <4>2
    <3>6. IsInjective(t)
      BY <2>5, <3>3, Zenon DEF IsInjective
    <3>7. Range(t) \subseteq Range(s) \ {e}
      BY <2>5, <3>4, Zenon DEF Range
    <3>8. Range(s) \ {e} \subseteq Range(t)
      BY <2>5, <3>5, Zenon DEF Range
    <3> QED
      BY <3>6, <3>7, <3>8, Zenon
  <2> QED
    BY <2>5, <2>6, Zenon DEF t
<1> QED
  BY <1>1, <1>2, Zenon

(* The elements of a channel: after a send, before a receive, when it is   *)
(* new.                                                                    *)
LEMMA RangeFacts ==
    /\ \A S : \A s \in Seq(S) : Range(s) \subseteq S
    /\ \A S : \A s \in Seq(S), e \in S : Range(Append(s, e)) = Range(s) \cup {e}
    /\ \A S : \A s \in Seq(S) : s # <<>> => Range(s) = {Head(s)} \cup Range(Tail(s))
    /\ Range(<<>>) = {}
<1>1. ASSUME NEW S, NEW s \in Seq(S)
      PROVE  Range(s) \subseteq S
  BY DEF Range
<1>2. ASSUME NEW S, NEW s \in Seq(S), NEW e \in S
      PROVE  Range(Append(s, e)) = Range(s) \cup {e}
  <2> DEFINE t == Append(s, e)
  <2>1. /\ DOMAIN t = 1..(Len(s) + 1) /\ DOMAIN s = 1..Len(s) /\ Len(s) \in Nat
        /\ \A i \in 1..Len(s) : t[i] = s[i]
        /\ t[Len(s) + 1] = e
    OBVIOUS
  <2> HIDE DEF t
  <2>2. Range(t) \subseteq Range(s) \cup {e}
    BY <2>1 DEF Range
  <2>3. Range(s) \subseteq Range(t)
    BY <2>1 DEF Range
  <2>4. e \in Range(t)
    BY <2>1 DEF Range
  <2> QED
    BY <2>2, <2>3, <2>4, Zenon DEF t
<1>3. ASSUME NEW S, NEW s \in Seq(S), s # <<>>
      PROVE  Range(s) = {Head(s)} \cup Range(Tail(s))
  <2> DEFINE t == Tail(s)
  <2>1. /\ DOMAIN t = 1..(Len(s) - 1) /\ DOMAIN s = 1..Len(s) /\ Len(s) \in Nat \ {0}
        /\ \A i \in 1..(Len(s) - 1) : t[i] = s[i + 1]
        /\ Head(s) = s[1]
    BY <1>3
  <2> HIDE DEF t
  <2>2. Range(t) \subseteq Range(s)
    <3>1. ASSUME NEW i \in DOMAIN t
          PROVE  t[i] \in Range(s)
      <4>1. i + 1 \in DOMAIN s /\ s[i + 1] = t[i]
        BY <2>1
      <4> QED
        BY <4>1, Zenon DEF Range
    <3> QED
      BY <3>1, Zenon DEF Range
  <2>3. Head(s) \in Range(s)
    BY <2>1 DEF Range
  <2>4. ASSUME NEW i \in 1..Len(s)
        PROVE  s[i] \in {Head(s)} \cup Range(t)
    <3>1. CASE i = 1
      BY <2>1, <3>1, Zenon
    <3>2. CASE i # 1
      <4>1. i - 1 \in DOMAIN t /\ t[i - 1] = s[i]
        BY <2>1, <3>2
      <4> QED
        BY <4>1, Zenon DEF Range
    <3> QED
      BY <3>1, <3>2, Zenon
  <2>5. Range(s) \subseteq {Head(s)} \cup Range(t)
    BY <2>1, <2>4 DEF Range
  <2> QED
    BY <2>2, <2>3, <2>5, Zenon DEF t
<1>4. Range(<<>>) = {}
  BY DEF Range
<1> QED
  BY <1>1, <1>2, <1>3, <1>4, Zenon

-----------------------------------------------------------------------------
(* Messages and the operators that send them *)

USE MessagesAssumption, BoundsAssumption

(* Every frame, command and timer message that the handlers build is of    *)
(* the type its channel carries.                                           *)
LEMMA MessageTypes ==
    /\ \A k \in Nat : data(k) \in OutFrame
    /\ \A i, k \in Nat : data_req(i, k) \in OutFrame
    /\ \A m \in RemoteMsg : ack(m) \in OutFrame
    /\ \A m \in RemoteMsg : data(m) \in InFrame /\ data_req(m, m) \in InFrame
    /\ \A i \in Nat : ack(i) \in InFrame
    /\ \A i \in Nat : ResendTimeout(i) \in Command
    /\ \A p \in Identity, c \in Conn :
         ConnectionUp(p, c) \in Command /\ ConnectionDown(p, c) \in Command
    /\ \A p \in Identity, c \in Conn, e \in InFrame : Received(p, c, e) \in Command
    /\ \A id \in OptIdentity, k \in Nat : Send(id, k) \in Command
    /\ Close \in Command
    /\ \A i \in Nat : Arm(i) \in TimerMsg /\ Cancel(i) \in TimerMsg
    /\ Shutdown \in TimerMsg
BY Zenon DEF data, data_req, ack, OutFrame, InFrame, RemoteMsg, ResendTimeout, Command,
       ConnectionUp, ConnectionDown, Received, Send, Close, Arm, Cancel, Shutdown, TimerMsg,
       OptIdentity

(* What the broker reads from a command, by the command's type.            *)
LEMMA CommandFields ==
    ASSUME NEW m \in Command
    PROVE  /\ m.type = "Send" => m.identity \in OptIdentity /\ m.payload \in Nat
           /\ m.type \in {"ConnectionUp", "ConnectionDown"} =>
                m.identity \in Identity /\ m.conn \in Conn
           /\ m.type = "Received" =>
                m.identity \in Identity /\ m.conn \in Conn /\ m.envelope \in InFrame
           /\ m.type = "ResendTimeout" => m.id \in Nat
BY DEF Command, Close

(* What the handlers read from an inbound frame.                           *)
LEMMA InFrameFields ==
    ASSUME NEW f \in InFrame
    PROVE  /\ f.type \in {"DATA", "DATA_REQ", "ACK"}
           /\ f.type \in {"DATA", "DATA_REQ"} => f.payload \in RemoteMsg
           /\ f.type = "DATA_REQ" => f.id \in RemoteMsg
           /\ f.type = "ACK" => f.id \in Nat
BY Zenon DEF InFrame

(* What a writer thread reads from an outbound frame.                      *)
LEMMA OutFrameFields ==
    ASSUME NEW f \in OutFrame
    PROVE  /\ f.type \in {"DATA", "DATA_REQ", "ACK"}
           /\ f.type \in {"DATA", "DATA_REQ"} => f.payload \in Nat
           /\ f.type = "DATA_REQ" => f.id \in Nat
           /\ f.type = "ACK" => f.id \in RemoteMsg
BY Zenon DEF OutFrame

(* route() keeps the writer channels and the cursor well typed.            *)
LEMMA RouteType ==
    ASSUME TypeOK, NEW target, NEW frame \in OutFrame, route(target, frame)
    PROVE  /\ writer_ch' \in [Conn -> Seq(OutFrame)]
           /\ rr_cursor' \in 0..(CursorMod - 1)
<1>1. writer_ch' \in [Conn -> Seq(OutFrame)]
  BY DEF route, TypeOK, ChannelsTypeOK
<1>2. rr_cursor' \in 0..(CursorMod - 1)
  <2>1. (rr_cursor + 1) % CursorMod \in 0..(CursorMod - 1)
    BY DEF TypeOK, BrokerTypeOK, MessagesAssumption
  <2> QED
    BY <2>1, Zenon DEF route, TypeOK, BrokerTypeOK
<1> QED
  BY <1>1, <1>2, Zenon

(* handle_send and transmit keep everything they write well typed.         *)
LEMMA TransmitType ==
    ASSUME TypeOK, NEW id \in OptIdentity, NEW k \in Nat, NEW n \in 0..MAX_RETRIES,
           NEW table \in SUBSET Pending, transmit(id, k, n, table)
    PROVE  /\ timer_ch' \in Seq(TimerMsg)
           /\ writer_ch' \in [Conn -> Seq(OutFrame)]
           /\ rr_cursor' \in 0..(CursorMod - 1)
           /\ pending' \in SUBSET Pending
           /\ next_id' \in Nat
<1> USE DEF TypeOK, ChannelsTypeOK, BrokerTypeOK
<1>1. CASE at_least_once(id)
  <2>1. /\ next_id' = next_id + 1
        /\ timer_ch' = Append(timer_ch, Arm(next_id))
        /\ pending' = table \cup {[id |-> next_id, identity |-> id, payload |-> k, retries |-> n]}
        /\ route(id, data_req(next_id, k))
    BY <1>1, Zenon DEF transmit
  <2>2. [id |-> next_id, identity |-> id, payload |-> k, retries |-> n] \in Pending
    BY Zenon DEF Pending
  <2>3. data_req(next_id, k) \in OutFrame /\ Arm(next_id) \in TimerMsg
    BY MessageTypes, Zenon
  <2> QED
    BY <2>1, <2>2, <2>3, RouteType
<1>2. CASE ~at_least_once(id)
  <2>1. route(id, data(k)) /\ pending' = table /\ UNCHANGED <<next_id, timer_ch>>
    BY <1>2, Zenon DEF transmit
  <2>2. data(k) \in OutFrame
    BY MessageTypes, Zenon
  <2> QED
    BY <2>1, <2>2, RouteType, Zenon
<1> QED
  BY <1>1, <1>2, Zenon

LEMMA HandleSendType ==
    ASSUME TypeOK, NEW id \in OptIdentity, NEW k \in Nat, handle_send(id, k)
    PROVE  /\ timer_ch' \in Seq(TimerMsg)
           /\ writer_ch' \in [Conn -> Seq(OutFrame)]
           /\ rr_cursor' \in 0..(CursorMod - 1)
           /\ buffer' \in Seq(Message)
           /\ pending' \in SUBSET Pending
           /\ next_id' \in Nat
<1>1. CASE NoConns
  <2>1. /\ buffer' = Append(buffer, [identity |-> id, payload |-> k])
        /\ UNCHANGED <<next_id, timer_ch, pending, writer_ch, rr_cursor>>
    BY <1>1, Zenon DEF handle_send
  <2>2. [identity |-> id, payload |-> k] \in Message
    BY Zenon DEF Message
  <2>3. buffer' \in Seq(Message)
    BY <2>1, <2>2 DEF TypeOK, BrokerTypeOK
  <2> QED
    BY <2>1, <2>3, Zenon DEF TypeOK, ChannelsTypeOK, BrokerTypeOK
<1>2. CASE ~NoConns
  <2>1. transmit(id, k, MAX_RETRIES, pending) /\ UNCHANGED buffer
    BY <1>2, Zenon DEF handle_send
  <2>2. MAX_RETRIES \in 0..MAX_RETRIES /\ pending \in SUBSET Pending
    BY DEF TypeOK, BrokerTypeOK
  <2> QED
    BY <2>1, <2>2, TransmitType, Zenon DEF TypeOK, BrokerTypeOK
<1> QED
  BY <1>1, <1>2, Zenon

-----------------------------------------------------------------------------
(* Type correctness *)

(* A channel that is left alone or gets one more element keeps its type.   *)
LEMMA AppendType ==
    ASSUME NEW S, NEW s \in Seq(S), NEW e \in S, NEW t, t = s \/ t = Append(s, e)
    PROVE  t \in Seq(S)
OBVIOUS

LEMMA OneRetryLess == \A n \in 0..MAX_RETRIES : n > 0 => n - 1 \in 0..MAX_RETRIES
BY MessagesAssumption

LEMMA BrokerStepType ==
    ASSUME TypeOK, BrokerNext
    PROVE  TypeOK'
<1> USE DEF TypeOK, ChannelsTypeOK, BrokerTypeOK
<1>1. UNCHANGED <<timerVars, connectionVars, appVars>>
  BY Zenon DEF BrokerNext
<1>2. TimerTypeOK' /\ ConnectionTypeOK' /\ sent' \in Seq(OptIdentity) /\ closed' \in BOOLEAN
  BY <1>1, Zenon DEF timerVars, connectionVars, appVars, TimerTypeOK, ConnectionTypeOK
<1>3. ASSUME NEW type, BrokerRecv(type)
      PROVE  Head(cmd) \in Command /\ Head(cmd).type = type /\ cmd' \in Seq(Command)
  BY <1>3 DEF BrokerRecv
<1>4. CASE HandleSend
  <2>1. /\ Head(cmd).identity \in OptIdentity
        /\ Head(cmd).payload \in Nat
        /\ cmd' \in Seq(Command)
    BY <1>3, <1>4, CommandFields, Zenon DEF HandleSend
  <2>2. handle_send(Head(cmd).identity, Head(cmd).payload)
    BY <1>4, Zenon DEF HandleSend
  <2> QED
    BY <1>2, <1>4, <2>1, <2>2, HandleSendType, Zenon DEF HandleSend
<1>5. CASE HandleUp
  <2>1. /\ Head(cmd).identity \in Identity
        /\ Head(cmd).conn \in Conn
        /\ cmd' \in Seq(Command)
    BY <1>3, <1>5, CommandFields, Zenon DEF HandleUp
  <2>2. /\ accept' \in [Conn -> {"empty", "true", "false"}]
        /\ conns' \in [Identity -> Conn \cup {NoConn}]
    BY <1>5, <2>1, Zenon DEF HandleUp
  <2>3. /\ order' = order \/ order' = Append(order, Head(cmd).identity)
        /\ buffer' = buffer \/ buffer' = <<>>
        /\ buffered' = buffer \/ buffered' = buffered
    BY <1>5, Zenon DEF HandleUp
  <2>4. order' \in Seq(Identity)
    <3>1. order \in Seq(Identity)
      BY Zenon
    <3> HIDE DEF TypeOK
    <3> QED
      BY <2>1, <2>3, <3>1, AppendType, Zenon
  <2>5. UNCHANGED <<timer_ch, writer_ch, broker, writer, rr_cursor, pending, next_id, received,
                    exhausted>>
    BY <1>5, Zenon DEF HandleUp
  <2>6. buffer' \in Seq(Message) /\ buffered' \in Seq(Message)
    <3>1. buffer \in Seq(Message) /\ buffered \in Seq(Message) /\ <<>> \in Seq(Message)
      OBVIOUS
    <3> HIDE DEF TypeOK
    <3> QED
      BY <2>3, <3>1, Zenon
  <2>7. ChannelsTypeOK'
    BY <2>1, <2>2, <2>5, Zenon
  <2>8. BrokerTypeOK'
    BY <2>2, <2>4, <2>5, <2>6, Zenon
  <2> QED
    BY <1>2, <2>6, <2>7, <2>8, Zenon
<1>6. CASE HandleBuffered
  <2>1. Head(buffered) \in Message /\ Tail(buffered) \in Seq(Message)
    BY <1>6 DEF HandleBuffered
  <2>2. /\ Head(buffered).identity \in OptIdentity
        /\ Head(buffered).payload \in Nat
        /\ handle_send(Head(buffered).identity, Head(buffered).payload)
    BY <1>6, <2>1, Zenon DEF HandleBuffered, Message
  <2> QED
    BY <1>2, <1>6, <2>1, <2>2, HandleSendType, Zenon DEF HandleBuffered
<1>7. CASE HandleDown
  <2>1. Head(cmd).identity \in Identity /\ cmd' \in Seq(Command)
    BY <1>3, <1>7, CommandFields, Zenon DEF HandleDown
  <2>2. order' \in Seq(Identity)
    BY <1>7, RemoveFirstFacts, Zenon DEF HandleDown
  <2> QED
    BY <1>2, <1>7, <2>1, <2>2, Zenon DEF HandleDown
<1>8. CASE HandleReceived
  <2> DEFINE p == Head(cmd).identity
             e == Head(cmd).envelope
  <2>1. p \in Identity /\ e \in InFrame /\ cmd' \in Seq(Command)
    BY <1>3, <1>8, CommandFields, Zenon DEF HandleReceived
  <2>2. UNCHANGED <<accept, broker, writer, conns, order, buffer, buffered, next_id, exhausted>>
    BY <1>8, Zenon DEF HandleReceived
  <2>3. ASSUME e.type \in {"DATA", "DATA_REQ"},
               received' = Append(received, [identity |-> p, payload |-> e.payload])
        PROVE  received' \in Seq(Delivered)
    BY <2>1, <2>3, InFrameFields DEF Delivered
  <2>4. CASE e.type = "DATA"
    BY <1>2, <1>8, <2>1, <2>2, <2>3, <2>4, Zenon DEF HandleReceived
  <2>5. CASE e.type = "DATA_REQ"
    <3>1. ack(e.id) \in OutFrame
      BY <2>1, <2>5, InFrameFields, MessageTypes, Zenon
    <3>2. /\ route(p, ack(e.id))
          /\ received' = Append(received, [identity |-> p, payload |-> e.payload])
          /\ UNCHANGED <<pending, timer_ch>>
      BY <1>8, <2>5, Zenon DEF HandleReceived
    <3> QED
      BY <1>2, <2>1, <2>2, <2>3, <2>5, <3>1, <3>2, RouteType, Zenon
  <2>6. CASE e.type = "ACK"
    <3>1. Cancel(e.id) \in TimerMsg
      BY <2>1, <2>6, InFrameFields, MessageTypes, Zenon
    <3>2. /\ pending' = {r \in pending : r.id # e.id}
          /\ timer_ch' = timer_ch \/ timer_ch' = Append(timer_ch, Cancel(e.id))
          /\ UNCHANGED <<received, writer_ch, rr_cursor>>
      BY <1>8, <2>6, Zenon DEF HandleReceived
    <3>3. timer_ch' \in Seq(TimerMsg)
      <4>1. timer_ch \in Seq(TimerMsg)
        BY Zenon
      <4> HIDE DEF TypeOK
      <4> QED
        BY <3>1, <3>2, <4>1, AppendType, Zenon
    <3> QED
      BY <1>2, <2>1, <2>2, <3>2, <3>3, Zenon
  <2> QED
    BY <2>1, <2>4, <2>5, <2>6, InFrameFields, Zenon
<1>9. CASE HandleResend
  <2>1. cmd' \in Seq(Command)
    BY <1>3, <1>9, Zenon DEF HandleResend
  <2>2. UNCHANGED <<accept, broker, writer, conns, order, buffered, received>>
    BY <1>9, Zenon DEF HandleResend
  <2>3. CASE UNCHANGED <<pending, exhausted, buffer, next_id, timer_ch, writer_ch, rr_cursor>>
    BY <1>2, <2>1, <2>2, <2>3, Zenon
  <2>4. ASSUME NEW r \in pending, r.retries = 0,
               pending' = pending \ {r}, exhausted' = exhausted \cup {r.payload},
               UNCHANGED <<buffer, next_id, timer_ch, writer_ch, rr_cursor>>
        PROVE  TypeOK'
    BY <1>2, <2>1, <2>2, <2>4, Zenon DEF Pending
  <2>5. ASSUME NEW r \in pending, pending' = pending \ {r},
               buffer' = Append(buffer, [identity |-> r.identity, payload |-> r.payload]),
               UNCHANGED <<exhausted, next_id, timer_ch, writer_ch, rr_cursor>>
        PROVE  TypeOK'
    <3>1. [identity |-> r.identity, payload |-> r.payload] \in Message
      BY <2>5, Zenon DEF Pending, Message
    <3>2. buffer' \in Seq(Message)
      BY <2>5, <3>1
    <3> QED
      BY <1>2, <2>1, <2>2, <2>5, <3>2, Zenon
  <2>6. ASSUME NEW r \in pending, r.retries > 0,
               transmit(r.identity, r.payload, r.retries - 1, pending \ {r}),
               UNCHANGED <<exhausted, buffer>>
        PROVE  TypeOK'
    <3>1. /\ r.identity \in OptIdentity /\ r.payload \in Nat
          /\ r.retries - 1 \in 0..MAX_RETRIES
          /\ pending \ {r} \in SUBSET Pending
      <4>1. r \in Pending /\ pending \in SUBSET Pending
        BY Zenon
      <4> HIDE DEF TypeOK, ChannelsTypeOK, BrokerTypeOK
      <4>2. r.identity \in OptIdentity /\ r.payload \in Nat /\ r.retries \in 0..MAX_RETRIES
        BY <4>1, Zenon DEF Pending
      <4> QED
        BY <2>6, <4>1, <4>2, OneRetryLess, Zenon
    <3> QED
      BY <1>2, <2>1, <2>2, <2>6, <3>1, TransmitType, Zenon
  <2> QED
    BY <1>9, <2>3, <2>4, <2>5, <2>6, Zenon DEF HandleResend
<1>10. CASE HandleClose
  BY <1>2, <1>10, MessageTypes DEF HandleClose
<1>11. CASE BrokerExit(timer = "done")
  BY <1>2, <1>11, Zenon DEF BrokerExit, brokerVars
<1> QED
  BY <1>4, <1>5, <1>6, <1>7, <1>8, <1>9, <1>10, <1>11, Zenon DEF BrokerNext, BrokerStep

LEMMA TimerStepType ==
    ASSUME TypeOK, TimerNext
    PROVE  TypeOK'
<1> USE DEF TypeOK, ChannelsTypeOK, TimerTypeOK
<1>1. UNCHANGED <<brokerVars, connectionVars, appVars>>
  BY Zenon DEF TimerNext
<1>2. BrokerTypeOK' /\ ConnectionTypeOK' /\ sent' \in Seq(OptIdentity) /\ closed' \in BOOLEAN
  BY <1>1, Zenon DEF brokerVars, connectionVars, appVars, BrokerTypeOK, ConnectionTypeOK
<1>3. ASSUME NEW type, TimerRecv(type)
      PROVE  /\ Head(timer_ch) \in TimerMsg /\ Head(timer_ch).type = type
             /\ ChannelsTypeOK'
  BY <1>3 DEF TimerRecv
<1>4. CASE TimerArm
  <2>1. Head(timer_ch).id \in Nat /\ ChannelsTypeOK'
    BY <1>3, <1>4 DEF TimerArm, TimerMsg, Shutdown
  <2>2. deadlines' \in Seq(Nat)
    BY <1>4, <2>1 DEF TimerArm
  <2> QED
    BY <1>2, <1>4, <2>1, <2>2, Zenon DEF TimerArm
<1>5. CASE TimerCancel
  <2>1. ChannelsTypeOK'
    BY <1>3, <1>5, Zenon DEF TimerCancel
  <2> QED
    BY <1>2, <1>5, <2>1, Zenon DEF TimerCancel
<1>6. CASE TimerShutdown
  BY <1>2, <1>6 DEF TimerShutdown, TimerRecv
<1>7. CASE TimerFire
  <2>1. Head(deadlines) \in Nat /\ ResendTimeout(Head(deadlines)) \in Command
    BY <1>7, MessageTypes DEF TimerFire
  <2>2. cmd' = cmd \/ cmd' = Append(cmd, ResendTimeout(Head(deadlines)))
    BY <1>7, Zenon DEF TimerFire, SendCommand
  <2>3. cmd' \in Seq(Command)
    <3>1. cmd \in Seq(Command)
      BY Zenon
    <3> HIDE DEF TypeOK
    <3> QED
      BY <2>1, <2>2, <3>1, AppendType, Zenon
  <2>4. /\ timer' \in {"running", "done"}
        /\ deadlines' = Tail(deadlines) /\ deadlines # <<>>
        /\ armed' = armed \ {Head(deadlines)}
    BY <1>7, Zenon DEF TimerFire
  <2>5. deadlines' \in Seq(Nat) /\ armed' \in SUBSET Nat
    <3>1. deadlines \in Seq(Nat) /\ armed \in SUBSET Nat
      BY Zenon
    <3>2. deadlines' \in Seq(Nat)
      <4> HIDE DEF TypeOK
      <4> QED
        BY <2>4, <3>1
    <3> QED
      BY <2>4, <3>1, <3>2, Zenon
  <2> QED
    BY <1>2, <1>7, <2>3, <2>4, <2>5, Zenon DEF TimerFire
<1> QED
  BY <1>4, <1>5, <1>6, <1>7, Zenon DEF TimerNext, TimerStep

LEMMA ConnectionStepType ==
    ASSUME TypeOK, NEW c \in Conn,
           SessionAdvance(c) \/ SessionEvent(c) \/ WriterNext(c) \/ EnvNext(c)
    PROVE  TypeOK'
<1> USE DEF TypeOK, ChannelsTypeOK, ConnectionTypeOK, Phase
<1>1. UNCHANGED <<brokerVars, timerVars, appVars>>
  BY Zenon DEF SessionAdvance, SessionEvent, WriterNext, EnvNext
<1>2. BrokerTypeOK' /\ TimerTypeOK' /\ sent' \in Seq(OptIdentity) /\ closed' \in BOOLEAN
  BY <1>1, Zenon DEF brokerVars, timerVars, appVars, BrokerTypeOK, TimerTypeOK
<1>3. ASSUME NEW p \in Identity, Register(c, p)
      PROVE  TypeOK'
  BY <1>2, <1>3, MessageTypes DEF Register, SendCommand, OptIdentity
<1>4. CASE Accepted(c)
  BY <1>2, <1>4, Zenon DEF Accepted
<1>5. CASE Rejected(c)
  BY <1>2, <1>5 DEF Rejected
<1>6. CASE ReaderForward(c)
  <2>1. Head(inbound[c]) \in InFrame /\ inbound' \in [Conn -> Seq(InFrame)]
    BY <1>6 DEF ReaderForward, Read
  <2>2. cmd' \in Seq(Command)
    <3>1. cmd' = Append(cmd, Received(peer[c], c, Head(inbound[c])))
      BY <1>6, Zenon DEF ReaderForward, SendCommand
    <3>2. peer[c] \in Identity
      BY <1>6, Zenon DEF ReaderForward, Read
    <3> QED
      BY <2>1, <3>1, <3>2, MessageTypes
  <2> QED
    BY <1>2, <1>6, <2>1, <2>2, Zenon DEF ReaderForward
<1>7. CASE ReaderEnd(c)
  <2>1. cmd' = cmd \/ cmd' = Append(cmd, ConnectionDown(peer[c], c))
    BY <1>7, Zenon DEF ReaderEnd, SendCommand
  <2>2. ConnectionDown(peer[c], c) \in Command
    BY <1>7, MessageTypes, Zenon DEF ReaderEnd
  <2>3. cmd' \in Seq(Command)
    <3>1. cmd \in Seq(Command)
      BY Zenon
    <3> HIDE DEF TypeOK
    <3> QED
      BY <2>1, <2>2, <3>1, AppendType, Zenon
  <2> QED
    BY <1>2, <1>7, <2>3, Zenon DEF ReaderEnd
<1>8. CASE JoinWriter(c)
  BY <1>2, <1>8, Zenon DEF JoinWriter
<1>9. CASE WriterWrite(c)
  <2> DEFINE f == Head(writer_ch[c])
  <2>1. f \in OutFrame /\ writer_ch' \in [Conn -> Seq(OutFrame)]
    BY <1>9 DEF WriterWrite
  <2>2. arrived' \in SUBSET Nat
    BY <1>9, <2>1, OutFrameFields, Zenon DEF WriterWrite
  <2>3. f.type = "DATA_REQ" => ack(f.id) \in InFrame
    BY <2>1, OutFrameFields, MessageTypes, Zenon
  <2>4. \/ inbound' = inbound
        \/ /\ f.type = "DATA_REQ"
           /\ inbound' = [inbound EXCEPT ![c] = Append(inbound[c], ack(f.id))]
    BY <1>9, Zenon DEF WriterWrite
  <2>5. inbound' \in [Conn -> Seq(InFrame)]
    <3>1. inbound \in [Conn -> Seq(InFrame)]
      BY Zenon
    <3>2. f.type = "DATA_REQ" => Append(inbound[c], ack(f.id)) \in Seq(InFrame)
      BY <2>3, <3>1
    <3> HIDE DEF TypeOK, f
    <3> QED
      BY <2>4, <3>1, <3>2, Zenon
  <2> QED
    BY <1>2, <1>9, <2>1, <2>2, <2>5, Zenon DEF WriterWrite
<1>10. CASE WriterEnd(c, SenderDropped(c))
  BY <1>2, <1>10 DEF WriterEnd
<1>11. CASE LinkBreak(c)
  BY <1>2, <1>11, Zenon DEF LinkBreak, channels
<1>12. CASE RemoteSend(c)
  <2>1. <<c, remote_n[c] + 1>> \in RemoteMsg
    BY DEF RemoteMsg
  <2>2. PICK f \in InFrame : inbound' = [inbound EXCEPT ![c] = Append(inbound[c], f)]
    BY <1>12, <2>1, MessageTypes, Zenon DEF RemoteSend
  <2>3. inbound' \in [Conn -> Seq(InFrame)]
    BY <2>2
  <2>4. remote_n' \in [Conn -> Nat]
    BY <1>12 DEF RemoteSend
  <2>5. UNCHANGED <<cmd, timer_ch, writer_ch, accept, broker, writer, phase, peer, link, arrived>>
    BY <1>12, Zenon DEF RemoteSend, channels
  <2>6. ChannelsTypeOK'
    BY <2>5, Zenon
  <2>7. ConnectionTypeOK'
    BY <2>3, <2>4, <2>5, Zenon
  <2> HIDE DEF ChannelsTypeOK, ConnectionTypeOK
  <2> QED
    BY <1>2, <2>6, <2>7, Zenon
<1> QED
  BY <1>3, <1>4, <1>5, <1>6, <1>7, <1>8, <1>9, <1>10, <1>11, <1>12, Zenon
     DEF SessionAdvance, SessionEvent, WriterNext, EnvNext

(* Every variable keeps its type: no handler, thread or event of the       *)
(* socket puts anything but a frame in a writer channel, a command in the  *)
(* command channel or a retry count below zero in the table.               *)
THEOREM TypeCorrect == Spec => []TypeOK
<1>1. Init => TypeOK
  <2> SUFFICES ASSUME Init PROVE TypeOK
    BY Zenon
  <2>1. ChannelsTypeOK
    BY DEF Init, ChannelsInit, ChannelsTypeOK
  <2>2. BrokerTypeOK
    BY DEF Init, BrokerInit, BrokerTypeOK
  <2>3. TimerTypeOK
    BY DEF Init, TimerInit, TimerTypeOK
  <2>4. ConnectionTypeOK
    BY DEF Init, ConnectionInit, ConnectionTypeOK, Phase, OptIdentity
  <2>5. sent \in Seq(OptIdentity)
    BY DEF Init
  <2>6. closed \in BOOLEAN
    BY Zenon DEF Init
  <2> QED
    BY <2>1, <2>2, <2>3, <2>4, <2>5, <2>6, Zenon DEF TypeOK
<1>2. TypeOK /\ [Next]_vars => TypeOK'
  <2> SUFFICES ASSUME TypeOK, [Next]_vars PROVE TypeOK'
    BY Zenon
  <2>1. CASE AppStep
    <3>1. UNCHANGED <<brokerVars, timerVars, connectionVars>>
      BY <2>1, Zenon DEF AppStep
    <3>2. BrokerTypeOK' /\ TimerTypeOK' /\ ConnectionTypeOK'
      BY <3>1, Zenon DEF brokerVars, timerVars, connectionVars, TypeOK, BrokerTypeOK, TimerTypeOK,
                  ConnectionTypeOK
    <3>3. CASE close
      BY <3>2, <3>3, MessageTypes DEF close, SendCommand, TypeOK, ChannelsTypeOK
    <3>4. ASSUME NEW id \in OptIdentity, dispatch(id)
          PROVE  TypeOK'
      BY <3>2, <3>4, MessageTypes DEF dispatch, SendCommand, TypeOK, ChannelsTypeOK
    <3> QED
      BY <2>1, <3>3, <3>4, Zenon DEF AppStep
  <2>2. CASE UNCHANGED vars
    BY <2>2, Zenon DEF vars, TypeOK, ChannelsTypeOK, BrokerTypeOK, TimerTypeOK, ConnectionTypeOK
  <2> QED
    BY <2>1, <2>2, BrokerStepType, TimerStepType, ConnectionStepType, Zenon DEF Next, Terminated
<1> QED
  BY <1>1, <1>2, PTL DEF Spec

-----------------------------------------------------------------------------
(* Effects *)

(* The channels as sets: what a send adds and a receive takes away.        *)
LEMMA ChannelSets ==
    ASSUME TypeOK
    PROVE  /\ Range(cmd) \subseteq Command
           /\ \A m \in Command : Range(Append(cmd, m)) = Range(cmd) \cup {m}
           /\ cmd # <<>> => Range(cmd) = {Head(cmd)} \cup Range(Tail(cmd))
           /\ Range(buffer) \subseteq Message
           /\ \A m \in Message : Range(Append(buffer, m)) = Range(buffer) \cup {m}
           /\ Range(buffered) \subseteq Message
           /\ buffered # <<>> => Range(buffered) = {Head(buffered)} \cup Range(Tail(buffered))
           /\ \A c \in Conn :
                /\ Range(writer_ch[c]) \subseteq OutFrame
                /\ \A f \in OutFrame :
                     Range(Append(writer_ch[c], f)) = Range(writer_ch[c]) \cup {f}
                /\ writer_ch[c] # <<>> =>
                     Range(writer_ch[c]) = {Head(writer_ch[c])} \cup Range(Tail(writer_ch[c]))
                /\ Range(inbound[c]) \subseteq InFrame
                /\ \A f \in InFrame :
                     Range(Append(inbound[c], f)) = Range(inbound[c]) \cup {f}
                /\ inbound[c] # <<>> =>
                     Range(inbound[c]) = {Head(inbound[c])} \cup Range(Tail(inbound[c]))
<1>1. /\ cmd \in Seq(Command) /\ buffer \in Seq(Message) /\ buffered \in Seq(Message)
      /\ \A c \in Conn : writer_ch[c] \in Seq(OutFrame) /\ inbound[c] \in Seq(InFrame)
  BY Zenon DEF TypeOK, ChannelsTypeOK, BrokerTypeOK, ConnectionTypeOK
<1> QED
  BY <1>1, RangeFacts

(* SendCommand adds at most its command to the channel and removes nothing. *)
LEMMA SendEffect ==
    ASSUME TypeOK, NEW m \in Command, SendCommand(m)
    PROVE  Range(cmd) \subseteq Range(cmd') /\ Range(cmd') \subseteq Range(cmd) \cup {m}
<1>1. cmd' = cmd \/ cmd' = Append(cmd, m)
  BY Zenon DEF SendCommand
<1>2. Range(Append(cmd, m)) = Range(cmd) \cup {m}
  BY ChannelSets, Zenon
<1> QED
  BY <1>1, <1>2, Zenon

(* What route() puts in the writer channels.                               *)
LEMMA RouteEffect ==
    ASSUME TypeOK, NEW target, NEW frame \in OutFrame, route(target, frame)
    PROVE  \A c \in Conn : Range(writer_ch'[c]) \subseteq Range(writer_ch[c]) \cup {frame}
<1> SUFFICES ASSUME NEW c \in Conn
             PROVE  Range(writer_ch'[c]) \subseteq Range(writer_ch[c]) \cup {frame}
  BY Zenon
<1>1. writer_ch'[c] = writer_ch[c] \/ writer_ch'[c] = Append(writer_ch[c], frame)
  BY Zenon DEF route
<1>2. Range(Append(writer_ch[c], frame)) = Range(writer_ch[c]) \cup {frame}
  BY ChannelSets
<1> QED
  BY <1>1, <1>2, Zenon

(* transmit() either tracks the message under a fresh id, and every frame  *)
(* with that id carries it, or sends it untracked.                         *)
LEMMA TransmitEffect ==
    ASSUME TypeOK, NEW id \in OptIdentity, NEW k \in Nat, NEW n \in 0..MAX_RETRIES,
           NEW table, transmit(id, k, n, table)
    PROVE  LET r == [id |-> next_id, identity |-> id, payload |-> k, retries |-> n] IN
           \/ /\ at_least_once(id)
              /\ next_id' = next_id + 1
              /\ pending' = table \cup {r}
              /\ \A c \in Conn : Range(writer_ch'[c])
                                   \subseteq Range(writer_ch[c]) \cup {data_req(next_id, k)}
           \/ /\ ~at_least_once(id)
              /\ next_id' = next_id
              /\ pending' = table
              /\ \A c \in Conn : Range(writer_ch'[c]) \subseteq Range(writer_ch[c]) \cup {data(k)}
<1>1. CASE at_least_once(id)
  <2>1. route(id, data_req(next_id, k)) /\ data_req(next_id, k) \in OutFrame
    BY <1>1, MessageTypes, Zenon DEF transmit, TypeOK, BrokerTypeOK
  <2>2. \A c \in Conn : Range(writer_ch'[c]) \subseteq Range(writer_ch[c]) \cup {data_req(next_id, k)}
    BY <2>1, RouteEffect, Zenon
  <2> QED
    BY <1>1, <2>2, Zenon DEF transmit
<1>2. CASE ~at_least_once(id)
  <2>1. route(id, data(k)) /\ data(k) \in OutFrame
    BY <1>2, MessageTypes, Zenon DEF transmit
  <2>2. \A c \in Conn : Range(writer_ch'[c]) \subseteq Range(writer_ch[c]) \cup {data(k)}
    BY <2>1, RouteEffect, Zenon
  <2> QED
    BY <1>2, <2>2, Zenon DEF transmit
<1> QED
  BY <1>1, <1>2, Zenon

(* A command is sent: a Send by dispatch(), a Received by a reader.        *)
NewCommand ==
    \E m \in Command : /\ SendCommand(m)
                       /\ m.type = "Send" => \E id \in OptIdentity : dispatch(id)
                       /\ m.type = "Received" => \E c \in Conn : ReaderForward(c)

(* Outside the broker, commands are only added.                            *)
LEMMA CommandsSent ==
    ASSUME TypeOK,
           \/ AppStep \/ TimerNext
           \/ \E c \in Conn : SessionAdvance(c) \/ SessionEvent(c) \/ WriterNext(c) \/ EnvNext(c)
    PROVE  UNCHANGED cmd \/ NewCommand
<1>1. CASE AppStep
  <2>1. CASE close
    BY <2>1, MessageTypes, Zenon DEF close, Close, NewCommand
  <2>2. ASSUME NEW id \in OptIdentity, dispatch(id)
        PROVE  NewCommand
    <3>1. Len(sent) + 1 \in Nat
      BY DEF TypeOK
    <3>2. Send(id, Len(sent) + 1) \in Command /\ Send(id, Len(sent) + 1).type = "Send"
      BY <3>1, MessageTypes, Zenon DEF Send
    <3>3. SendCommand(Send(id, Len(sent) + 1))
      BY <2>2, Zenon DEF dispatch
    <3> QED
      BY <2>2, <3>2, <3>3, Zenon DEF NewCommand
  <2> QED
    BY <1>1, <2>1, <2>2, Zenon DEF AppStep
<1>2. CASE TimerNext
  <2>1. CASE TimerFire /\ SendCommand(ResendTimeout(Head(deadlines)))
    <3>1. Head(deadlines) \in Nat
      BY <2>1 DEF TimerFire, TypeOK, TimerTypeOK
    <3>2. /\ ResendTimeout(Head(deadlines)) \in Command
          /\ ResendTimeout(Head(deadlines)).type = "ResendTimeout"
      BY <3>1, MessageTypes, Zenon DEF ResendTimeout
    <3> QED
      BY <2>1, <3>2, Zenon DEF NewCommand
  <2> QED
    BY <1>2, <2>1, Zenon
       DEF TimerNext, TimerStep, TimerArm, TimerCancel, TimerShutdown, TimerRecv, TimerFire
<1>3. ASSUME NEW c \in Conn, SessionAdvance(c) \/ SessionEvent(c) \/ WriterNext(c) \/ EnvNext(c)
      PROVE  UNCHANGED cmd \/ NewCommand
  <2>1. ASSUME NEW p \in Identity, Register(c, p)
        PROVE  NewCommand
    <3>1. ConnectionUp(p, c) \in Command /\ ConnectionUp(p, c).type = "ConnectionUp"
      BY MessageTypes, Zenon DEF ConnectionUp
    <3> QED
      BY <2>1, <3>1, Zenon DEF Register, NewCommand
  <2>2. CASE ReaderForward(c)
    <3>1. Head(inbound[c]) \in InFrame /\ peer[c] \in Identity
      BY <2>2 DEF ReaderForward, Read, TypeOK, ConnectionTypeOK
    <3>2. /\ Received(peer[c], c, Head(inbound[c])) \in Command
          /\ Received(peer[c], c, Head(inbound[c])).type = "Received"
      BY <3>1, MessageTypes, Zenon DEF Received
    <3>3. SendCommand(Received(peer[c], c, Head(inbound[c])))
      BY <2>2, Zenon DEF ReaderForward
    <3> QED
      BY <2>2, <3>2, <3>3, Zenon DEF NewCommand
  <2>3. CASE ReaderEnd(c)
    <3>1. peer[c] \in Identity
      BY <2>3, Zenon DEF ReaderEnd, TypeOK, ConnectionTypeOK
    <3>2. ConnectionDown(peer[c], c) \in Command /\ ConnectionDown(peer[c], c).type = "ConnectionDown"
      BY <3>1, MessageTypes, Zenon DEF ConnectionDown
    <3> QED
      BY <2>3, <3>2, Zenon DEF ReaderEnd, NewCommand
  <2>4. CASE \/ Accepted(c) \/ Rejected(c) \/ JoinWriter(c) \/ WriterWrite(c)
             \/ WriterEnd(c, SenderDropped(c)) \/ LinkBreak(c) \/ RemoteSend(c)
    BY <2>4, Zenon DEF Accepted, Rejected, JoinWriter, WriterWrite, WriterEnd, LinkBreak, RemoteSend, channels
  <2> QED
    BY <1>3, <2>1, <2>2, <2>3, <2>4, Zenon DEF SessionAdvance, SessionEvent, WriterNext, EnvNext
<1> QED
  BY <1>1, <1>2, <1>3, Zenon

-----------------------------------------------------------------------------
(* Registration *)

(* The commands by which a connection speaks to the broker.                *)
Speech == {"ConnectionUp", "ConnectionDown", "Received"}

(* A connection says ConnectionUp and then waits for the answer, and after *)
(* ConnectionDown it says nothing more: neither is followed in the command *)
(* channel by a command of the same connection.                            *)
SpeaksInTurn ==
    \A i, j \in DOMAIN cmd :
        (/\ i < j
         /\ cmd[i].type \in {"ConnectionUp", "ConnectionDown"}
         /\ cmd[j].type \in Speech)
        => cmd[i].conn # cmd[j].conn

(* The inductive invariant: while the broker runs, a connection that was   *)
(* accepted has the entry of its identity until its ConnectionDown has     *)
(* been handled, which is the last the broker hears of it.                 *)
Registration ==
    /\ broker # "running" => cmd = <<>>
    /\ \A c \in Conn : accept[c] # "empty" => phase[c] # "new"
    /\ broker = "running" =>
         \A c \in Conn : phase[c] = "open" \/ (phase[c] = "registering" /\ accept[c] = "true")
             => conns[peer[c]] = c
    /\ \A m \in Range(cmd) :
         /\ m.type = "ConnectionUp" =>
              /\ phase[m.conn] = "registering"
              /\ accept[m.conn] = "empty"
              /\ peer[m.conn] = m.identity
         /\ m.type \in {"ConnectionDown", "Received"} => conns[m.identity] = m.conn
         /\ m.type = "ConnectionDown" => phase[m.conn] \in {"closing", "closed"}
    /\ SpeaksInTurn

(* Receiving a command: the others keep their turn, and a ConnectionUp or  *)
(* ConnectionDown was the only command of its connection.                  *)
LEMMA TurnTail ==
    ASSUME TypeOK, SpeaksInTurn, cmd # <<>>, cmd' = Tail(cmd)
    PROVE  /\ SpeaksInTurn'
           /\ Head(cmd).type \in {"ConnectionUp", "ConnectionDown"} =>
                \A m \in Range(cmd') : m.type \in Speech => m.conn # Head(cmd).conn
<1>1. /\ DOMAIN cmd' = 1..(Len(cmd) - 1) /\ DOMAIN cmd = 1..Len(cmd) /\ Len(cmd) \in Nat \ {0}
      /\ \A i \in 1..(Len(cmd) - 1) : cmd'[i] = cmd[i + 1] /\ i + 1 \in 1..Len(cmd)
      /\ Head(cmd) = cmd[1]
  BY DEF TypeOK, ChannelsTypeOK
<1>2. SpeaksInTurn'
  BY <1>1 DEF SpeaksInTurn
<1>3. ASSUME cmd[1].type \in {"ConnectionUp", "ConnectionDown"},
             NEW i \in DOMAIN cmd', cmd'[i].type \in Speech
      PROVE  cmd'[i].conn # cmd[1].conn
  <2>1. i + 1 \in DOMAIN cmd /\ 1 \in DOMAIN cmd /\ 1 < i + 1 /\ cmd'[i] = cmd[i + 1]
    BY <1>1, <1>3
  <2> QED
    BY <1>3, <2>1, Zenon DEF SpeaksInTurn
<1> QED
  BY <1>1, <1>2, <1>3, Zenon DEF Range

(* Sending a command, for a connection that has not spoken its last.       *)
LEMMA TurnSend ==
    ASSUME TypeOK, SpeaksInTurn, NEW m \in Command, SendCommand(m),
           m.type \in Speech => \A x \in Range(cmd) :
               x.type \in {"ConnectionUp", "ConnectionDown"} => x.conn # m.conn
    PROVE  SpeaksInTurn'
<1>1. CASE cmd' = cmd
  BY <1>1, Zenon DEF SpeaksInTurn
<1>2. CASE cmd' = Append(cmd, m)
  <2>1. /\ DOMAIN cmd' = 1..(Len(cmd) + 1) /\ DOMAIN cmd = 1..Len(cmd) /\ Len(cmd) \in Nat
        /\ \A i \in 1..Len(cmd) : cmd'[i] = cmd[i] /\ cmd[i] \in Range(cmd)
        /\ cmd'[Len(cmd) + 1] = m
    BY <1>2 DEF TypeOK, ChannelsTypeOK, Range
  <2> SUFFICES ASSUME NEW i \in DOMAIN cmd', NEW j \in DOMAIN cmd', i < j,
                      cmd'[i].type \in {"ConnectionUp", "ConnectionDown"},
                      cmd'[j].type \in Speech
               PROVE  cmd'[i].conn # cmd'[j].conn
    BY Zenon DEF SpeaksInTurn
  <2>2. i \in DOMAIN cmd /\ cmd'[i] = cmd[i] /\ cmd[i] \in Range(cmd)
    BY <2>1
  <2>3. CASE j \in DOMAIN cmd
    BY <2>1, <2>2, <2>3, Zenon DEF SpeaksInTurn
  <2>4. CASE j = Len(cmd) + 1
    BY <2>1, <2>2, <2>4, Zenon
  <2> QED
    BY <2>1, <2>3, <2>4
<1> QED
  BY <1>1, <1>2, Zenon DEF SendCommand

(* The connection has been accepted and has not ended.                     *)
Has(c) == phase[c] = "open" \/ (phase[c] = "registering" /\ accept[c] = "true")

(* What Registration says after a step, part by part.                      *)
LEMMA RegistrationParts ==
    ASSUME broker' # "running" => cmd' = <<>>,
           \A c \in Conn : accept'[c] # "empty" => phase'[c] # "new",
           broker' = "running" => \A c \in Conn : Has(c)' => conns'[peer'[c]] = c,
           \A m \in Range(cmd') : m.type = "ConnectionUp" =>
               /\ phase'[m.conn] = "registering"
               /\ accept'[m.conn] = "empty"
               /\ peer'[m.conn] = m.identity,
           \A m \in Range(cmd') : m.type \in {"ConnectionDown", "Received"} =>
               conns'[m.identity] = m.conn,
           \A m \in Range(cmd') : m.type = "ConnectionDown" => phase'[m.conn] \in {"closing", "closed"},
           SpeaksInTurn'
    PROVE  Registration'
BY Zenon DEF Registration, Has

(* A step that touches no registration and lets no connection speak, or    *)
(* forwards a frame of one that has its entry.                             *)
LEMMA RegistrationKept ==
    ASSUME Registration, UNCHANGED <<broker, accept, phase, peer, conns>>,
           broker = "running" \/ cmd' = cmd,
           \A m \in Range(cmd') : m.type \in Speech =>
               m \in Range(cmd) \/ (m.type = "Received" /\ conns[m.identity] = m.conn),
           SpeaksInTurn'
    PROVE  Registration'
<1>1. \A m \in Range(cmd') : m.type \in {"ConnectionUp", "ConnectionDown"} => m \in Range(cmd)
  BY Zenon DEF Speech
<1>2. \A m \in Range(cmd') : m.type \in {"ConnectionDown", "Received"} => conns[m.identity] = m.conn
  BY Zenon DEF Registration, Speech
<1> QED
  BY <1>1, <1>2, Zenon DEF Registration

LEMMA RegistrationBroker ==
    ASSUME TypeOK, Registration, BrokerNext
    PROVE  Registration'
<1>1. UNCHANGED <<phase, peer>>
  BY Zenon DEF BrokerNext, connectionVars
<1>2. ASSUME NEW type, BrokerRecv(type)
      PROVE  /\ broker = "running" /\ SpeaksInTurn'
             /\ Head(cmd) \in Command /\ Head(cmd).type = type
             /\ Range(cmd) = {Head(cmd)} \cup Range(cmd')
             /\ type \in {"ConnectionUp", "ConnectionDown"} =>
                  \A m \in Range(cmd') : m.type \in Speech => m.conn # Head(cmd).conn
  BY <1>2, ChannelSets, TurnTail, Zenon DEF BrokerRecv, Registration, TypeOK, ChannelsTypeOK
<1>3. CASE HandleSend \/ HandleReceived \/ HandleResend
  <2>1. PICK type : BrokerRecv(type)
    BY <1>3, Zenon DEF HandleSend, HandleReceived, HandleResend
  <2>2. UNCHANGED <<broker, accept, conns>>
    BY <1>3, Zenon DEF HandleSend, HandleReceived, HandleResend
  <2> QED
    BY <1>1, <1>2, <2>1, <2>2, RegistrationKept, Zenon
<1>4. CASE HandleBuffered
  BY <1>1, <1>4, RegistrationKept, Zenon DEF HandleBuffered, Registration, SpeaksInTurn
<1>5. CASE HandleUp
  <2> DEFINE p == Head(cmd).identity
             c == Head(cmd).conn
  <2>1. /\ broker = "running" /\ SpeaksInTurn' /\ UNCHANGED broker
        /\ Range(cmd) = {Head(cmd)} \cup Range(cmd')
        /\ Head(cmd).type = "ConnectionUp"
        /\ \A m \in Range(cmd') : m.type \in Speech => m.conn # c
    BY <1>2, <1>5, Zenon DEF HandleUp
  <2>2. /\ p \in Identity /\ c \in Conn
        /\ phase[c] = "registering" /\ accept[c] = "empty" /\ peer[c] = p
    BY <1>2, <1>5, <2>1, CommandFields, Zenon DEF HandleUp, Registration
  <2>3. \A m \in Range(cmd) : m.type \in Speech => m.identity \in Identity /\ m.conn \in Conn
    BY ChannelSets, CommandFields, Zenon DEF Speech
  <2>4. CASE conns[p] # NoConn
    <3>1. accept' = [accept EXCEPT ![c] = "false"] /\ UNCHANGED conns
      BY <1>5, <2>4, Zenon DEF HandleUp
    <3>2. \A d \in Conn : accept'[d] = IF d = c THEN "false" ELSE accept[d]
      BY <2>2, <3>1, Zenon DEF TypeOK, ChannelsTypeOK
    <3> HIDE DEF p, c
    <3>3. \A d \in Conn : Has(d)' => Has(d)
      BY <1>1, <2>2, <3>2, Zenon DEF Has
    <3>4. \A d \in Conn : accept'[d] # "empty" => phase'[d] # "new"
      BY <1>1, <2>2, <3>2, Zenon DEF Registration
    <3>5. \A m \in Range(cmd') : m.type = "ConnectionUp" =>
              phase[m.conn] = "registering" /\ accept'[m.conn] = "empty" /\ peer[m.conn] = m.identity
      BY <2>1, <2>3, <3>2, Zenon DEF Registration, Speech
    <3>6. \A d \in Conn : Has(d)' => conns'[peer'[d]] = d
      BY <1>1, <2>1, <3>1, <3>3, Zenon DEF Registration, Has
    <3>7. \A m \in Range(cmd') :
              /\ m.type \in {"ConnectionDown", "Received"} => conns'[m.identity] = m.conn
              /\ m.type = "ConnectionDown" => phase'[m.conn] \in {"closing", "closed"}
      BY <1>1, <2>1, <3>1, Zenon DEF Registration
    <3> QED
      BY <1>1, <2>1, <3>4, <3>5, <3>6, <3>7, RegistrationParts, Zenon
  <2>5. CASE conns[p] = NoConn
    <3>1. accept' = [accept EXCEPT ![c] = "true"] /\ conns' = [conns EXCEPT ![p] = c]
      BY <1>5, <2>5, Zenon DEF HandleUp
    <3>2. /\ \A d \in Conn : accept'[d] = IF d = c THEN "true" ELSE accept[d]
          /\ \A q \in Identity : conns'[q] = IF q = p THEN c ELSE conns[q]
      BY <2>2, <3>1, Zenon DEF TypeOK, ChannelsTypeOK, BrokerTypeOK
    <3>3. \A d \in Conn : phase[d] # "new" => peer[d] \in Identity
      BY Zenon DEF TypeOK, ConnectionTypeOK
    <3> HIDE DEF p, c
    <3>4. ASSUME NEW d \in Conn, Has(d)'
          PROVE  conns'[peer'[d]] = d
      <4>1. CASE d = c
        BY <1>1, <2>2, <3>2, <4>1, Zenon
      <4>2. CASE d # c
        <5>1. Has(d) /\ peer[d] \in Identity
          BY <1>1, <3>2, <3>3, <3>4, <4>2, Zenon DEF Has
        <5>2. conns[peer[d]] = d
          BY <2>1, <5>1, Zenon DEF Registration, Has
        <5>3. peer[d] # p
          BY <2>5, <5>2, MessagesAssumption, Zenon
        <5> QED
          BY <1>1, <3>2, <5>1, <5>2, <5>3, Zenon
      <4> QED
        BY <4>1, <4>2, Zenon
    <3>5. ASSUME NEW m \in Range(cmd'), m.type \in {"ConnectionDown", "Received"}
          PROVE  conns'[m.identity] = m.conn
      <4>1. m \in Range(cmd) /\ m.identity \in Identity /\ m.conn \in Conn
        BY <2>1, <2>3, <3>5, Zenon DEF Speech
      <4>2. conns[m.identity] = m.conn
        BY <3>5, <4>1, Zenon DEF Registration
      <4> QED
        BY <2>5, <3>2, <4>1, <4>2, MessagesAssumption, Zenon
    <3>6. \A m \in Range(cmd') : m.type = "ConnectionUp" =>
              phase[m.conn] = "registering" /\ accept'[m.conn] = "empty" /\ peer[m.conn] = m.identity
      <4> SUFFICES ASSUME NEW m \in Range(cmd'), m.type = "ConnectionUp"
                   PROVE  /\ phase[m.conn] = "registering" /\ accept'[m.conn] = "empty"
                          /\ peer[m.conn] = m.identity
        BY Zenon
      <4>1. m \in Range(cmd) /\ m.conn \in Conn /\ m.conn # c
        BY <2>1, <2>3, Zenon DEF Speech
      <4>2. phase[m.conn] = "registering" /\ accept[m.conn] = "empty" /\ peer[m.conn] = m.identity
        BY <4>1, Zenon DEF Registration
      <4> QED
        BY <3>2, <4>1, <4>2, Zenon
    <3>7. \A d \in Conn : accept'[d] # "empty" => phase'[d] # "new"
      BY <1>1, <2>2, <3>2, Zenon DEF Registration
    <3>8. \A m \in Range(cmd') : m.type = "ConnectionDown" => phase'[m.conn] \in {"closing", "closed"}
      BY <1>1, <2>1, Zenon DEF Registration
    <3> QED
      BY <1>1, <2>1, <3>4, <3>5, <3>6, <3>7, <3>8, RegistrationParts, Zenon
  <2> QED
    BY <2>4, <2>5, Zenon
<1>6. CASE HandleDown
  <2> DEFINE p == Head(cmd).identity
             c == Head(cmd).conn
  <2>1. /\ broker = "running" /\ SpeaksInTurn' /\ UNCHANGED <<broker, accept>>
        /\ Range(cmd) = {Head(cmd)} \cup Range(cmd')
        /\ Head(cmd).type = "ConnectionDown"
        /\ \A m \in Range(cmd') : m.type \in Speech => m.conn # c
    BY <1>2, <1>6, Zenon DEF HandleDown
  <2>2. /\ p \in Identity /\ c \in Conn
        /\ phase[c] \in {"closing", "closed"} /\ conns[p] = c
    BY <1>2, <1>6, <2>1, CommandFields, Zenon DEF HandleDown, Registration
  <2>3. \A m \in Range(cmd) : m.type \in Speech => m.identity \in Identity /\ m.conn \in Conn
    BY ChannelSets, CommandFields, Zenon DEF Speech
  <2>4. \A q \in Identity : conns'[q] = IF q = p THEN NoConn ELSE conns[q]
    BY <1>6, <2>2, Zenon DEF HandleDown, TypeOK, BrokerTypeOK
  <2>5. \A d \in Conn : phase[d] # "new" => peer[d] \in Identity
    BY Zenon DEF TypeOK, ConnectionTypeOK
  <2> HIDE DEF p, c
  <2>6. \A d \in Conn : phase[d] = "open" \/ (phase[d] = "registering" /\ accept[d] = "true")
                            => conns'[peer[d]] = d
    BY <2>1, <2>2, <2>4, <2>5, Zenon DEF Registration
  <2>7. \A m \in Range(cmd') : m.type \in {"ConnectionDown", "Received"} =>
            conns'[m.identity] = m.conn
    <3> SUFFICES ASSUME NEW m \in Range(cmd'), m.type \in {"ConnectionDown", "Received"}
                 PROVE  conns'[m.identity] = m.conn
      BY Zenon
    <3>1. m \in Range(cmd) /\ m.identity \in Identity /\ m.conn # c
      BY <2>1, <2>3, Zenon DEF Speech
    <3>2. conns[m.identity] = m.conn
      BY <3>1, Zenon DEF Registration
    <3> QED
      BY <2>2, <2>4, <3>1, <3>2, Zenon
  <2> QED
    BY <1>1, <2>1, <2>6, <2>7, Zenon DEF Registration
<1>7. CASE HandleClose
  <2>1. broker' # "running" /\ cmd' = <<>> /\ UNCHANGED accept
    BY <1>7, Zenon DEF HandleClose
  <2>2. Range(cmd') = {} /\ DOMAIN cmd' = {}
    BY <2>1, RangeFacts
  <2> QED
    BY <1>1, <2>1, <2>2, Zenon DEF Registration, SpeaksInTurn
<1>8. CASE BrokerExit(timer = "done")
  <2>1. broker # "running" /\ broker' # "running" /\ UNCHANGED <<cmd, accept, conns>>
    BY <1>8, Zenon DEF BrokerExit, brokerVars
  <2>2. SpeaksInTurn
    BY Zenon DEF Registration
  <2>3. SpeaksInTurn'
    BY <2>1, <2>2, Zenon DEF SpeaksInTurn
  <2> QED
    BY <1>1, <2>1, <2>3, Zenon DEF Registration
<1> QED
  BY <1>3, <1>4, <1>5, <1>6, <1>7, <1>8, Zenon DEF BrokerNext, BrokerStep

(* The timer thread and the application speak for no connection.           *)
LEMMA RegistrationOthers ==
    ASSUME TypeOK, Registration, TimerNext \/ AppStep
    PROVE  Registration'
<1>1. UNCHANGED <<broker, accept, phase, peer, conns>>
  BY Zenon DEF TimerNext, TimerStep, TimerArm, TimerCancel, TimerShutdown, TimerRecv, TimerFire,
         AppStep, close, dispatch, brokerVars, connectionVars
<1>2. CASE UNCHANGED cmd
  BY <1>1, <1>2, RegistrationKept, Zenon DEF Registration, SpeaksInTurn
<1>3. ASSUME NEW m \in Command, SendCommand(m), m.type \notin Speech
      PROVE  Registration'
  <2>1. SpeaksInTurn'
    BY <1>3, TurnSend, Zenon DEF Registration
  <2>2. Range(cmd') \subseteq Range(cmd) \cup {m}
    BY <1>3, SendEffect, Zenon
  <2>3. broker = "running" \/ cmd' = cmd
    BY <1>3, Zenon DEF SendCommand, Connected
  <2> QED
    BY <1>1, <1>3, <2>1, <2>2, <2>3, RegistrationKept, Zenon
<1>4. CASE TimerFire /\ SendCommand(ResendTimeout(Head(deadlines)))
  <2>1. Head(deadlines) \in Nat
    BY <1>4 DEF TimerFire, TypeOK, TimerTypeOK
  <2>2. /\ ResendTimeout(Head(deadlines)) \in Command
        /\ ResendTimeout(Head(deadlines)).type \notin Speech
    BY <2>1, MessageTypes, Zenon DEF ResendTimeout, Speech
  <2> QED
    BY <1>3, <1>4, <2>2, Zenon
<1>5. CASE close
  BY <1>3, <1>5, MessageTypes, Zenon DEF close, Close, Speech
<1>6. ASSUME NEW id \in OptIdentity, dispatch(id)
      PROVE  Registration'
  <2>1. Len(sent) + 1 \in Nat
    BY DEF TypeOK
  <2>2. Send(id, Len(sent) + 1) \in Command /\ Send(id, Len(sent) + 1).type \notin Speech
    BY <2>1, MessageTypes, Zenon DEF Send, Speech
  <2> QED
    BY <1>3, <1>6, <2>2, Zenon DEF dispatch
<1> QED
  BY <1>2, <1>4, <1>5, <1>6, Zenon
     DEF TimerNext, TimerStep, TimerArm, TimerCancel, TimerShutdown, TimerRecv, TimerFire, AppStep

(* The session thread speaks when it may: ConnectionUp before anything     *)
(* else, frames while it is open, ConnectionDown at the end.               *)
LEMMA RegistrationConnection ==
    ASSUME TypeOK, Registration, NEW c \in Conn,
           SessionAdvance(c) \/ SessionEvent(c) \/ WriterNext(c) \/ EnvNext(c)
    PROVE  Registration'
<1>1. UNCHANGED conns
  BY Zenon DEF SessionAdvance, SessionEvent, WriterNext, EnvNext, brokerVars
<1>2. /\ phase \in [Conn -> Phase] /\ peer \in [Conn -> OptIdentity]
      /\ accept \in [Conn -> {"empty", "true", "false"}]
      /\ \A m \in Range(cmd) : m.type \in Speech => m.identity \in Identity /\ m.conn \in Conn
  BY ChannelSets, CommandFields, Zenon DEF TypeOK, ChannelsTypeOK, ConnectionTypeOK, Speech
<1> DEFINE Asks(x) == phase[x.conn] = "registering" /\ accept[x.conn] = "empty" /\ peer[x.conn] = x.identity
<1>a. \A d \in Conn : accept[d] # "empty" => phase[d] # "new"
  BY Zenon DEF Registration
<1>b. broker = "running" => \A d \in Conn : Has(d) => conns[peer[d]] = d
  BY Zenon DEF Registration, Has
<1>c. \A x \in Range(cmd) : x.type = "ConnectionUp" => Asks(x) /\ x.conn \in Conn
  BY <1>2, Zenon DEF Registration, Speech
<1>d. \A x \in Range(cmd) : x.type \in {"ConnectionDown", "Received"} => conns[x.identity] = x.conn
  BY Zenon DEF Registration
<1>e. \A x \in Range(cmd) : x.type = "ConnectionDown" =>
          phase[x.conn] \in {"closing", "closed"} /\ x.conn \in Conn
  BY <1>2, Zenon DEF Registration, Speech
<1>f. SpeaksInTurn /\ (cmd' = cmd => SpeaksInTurn')
  <2>1. SpeaksInTurn
    BY Zenon DEF Registration
  <2> QED
    BY <2>1, Zenon DEF SpeaksInTurn
<1>3. ASSUME NEW p \in Identity, Register(c, p)
      PROVE  Registration'
  <2> DEFINE m == ConnectionUp(p, c)
  <2>1. m \in Command /\ m.type = "ConnectionUp" /\ m.identity = p /\ m.conn = c
    BY MessageTypes, Zenon DEF ConnectionUp
  <2>2. /\ phase[c] = "new" /\ SendCommand(m)
        /\ phase' = [phase EXCEPT ![c] = IF Connected THEN "registering" ELSE "closed"]
        /\ peer' = [peer EXCEPT ![c] = p]
        /\ UNCHANGED <<broker, accept>>
    BY <1>3, Zenon DEF Register
  <2> HIDE DEF m
  <2>3. /\ phase'[c] = IF Connected THEN "registering" ELSE "closed"
        /\ peer'[c] = p
        /\ \A d \in Conn : d # c => phase'[d] = phase[d] /\ peer'[d] = peer[d]
    BY <1>2, <2>2, Zenon
  <2>4. accept[c] = "empty"
    BY <2>2, Zenon DEF Registration
  <2>5. \A x \in Range(cmd) : x.type \in {"ConnectionUp", "ConnectionDown"} => x.conn # c
    BY <1>2, <2>2, Zenon DEF Registration, Speech
  <2>6. SpeaksInTurn'
    BY <2>1, <2>2, <2>5, TurnSend, Zenon DEF Registration
  <2>7. Range(cmd') \subseteq Range(cmd) \cup {m} /\ (Connected \/ cmd' = cmd)
    BY <2>1, <2>2, SendEffect, Zenon DEF SendCommand
  <2>8. broker = "running" => Connected
    BY Zenon DEF Connected
  <2>9. CASE Connected
    <3>1. broker' = "running" /\ accept' = accept /\ conns' = conns /\ phase'[c] = "registering"
      BY <1>1, <2>2, <2>3, <2>9, Zenon DEF Connected
    <3>2. \A d \in Conn : accept'[d] # "empty" => phase'[d] # "new"
      BY <1>a, <2>3, <3>1, Zenon
    <3>3. \A d \in Conn : Has(d)' => conns'[peer'[d]] = d
      <4> SUFFICES ASSUME NEW d \in Conn, Has(d)' PROVE conns'[peer'[d]] = d
        BY Zenon
      <4>1. d # c
        BY <2>4, <3>1, Zenon DEF Has
      <4> QED
        BY <1>b, <2>3, <2>9, <3>1, <4>1, Zenon DEF Connected, Has
    <3>4. ASSUME NEW x \in Range(cmd'), x.type = "ConnectionUp"
          PROVE  phase'[x.conn] = "registering" /\ accept'[x.conn] = "empty" /\ peer'[x.conn] = x.identity
      <4>1. CASE x = m
        BY <2>1, <2>3, <2>4, <3>1, <4>1, Zenon
      <4>2. CASE x \in Range(cmd)
        BY <1>c, <2>3, <2>5, <3>1, <3>4, <4>2, Zenon
      <4> QED
        BY <2>7, <4>1, <4>2, Zenon
    <3>5. \A x \in Range(cmd') : x.type \in {"ConnectionDown", "Received"} => x \in Range(cmd)
      BY <2>1, <2>7, Zenon
    <3>6. \A x \in Range(cmd') : x.type = "ConnectionDown" => phase'[x.conn] \in {"closing", "closed"}
      BY <1>e, <2>3, <2>5, <3>5, Zenon
    <3> QED
      BY <1>d, <2>6, <3>1, <3>2, <3>3, <3>4, <3>5, <3>6, RegistrationParts, Zenon
  <2>10. CASE ~Connected
    <3>1. cmd' = <<>> /\ Range(cmd') = {} /\ broker' # "running"
      BY <2>2, <2>7, <2>10, RangeFacts, Zenon DEF Registration, Connected
    <3> QED
      BY <2>2, <2>3, <2>4, <2>6, <2>10, <3>1, Zenon DEF Registration
  <2> QED
    BY <2>9, <2>10, Zenon
<1>4. CASE Accepted(c) \/ JoinWriter(c)
  <2>1. /\ UNCHANGED <<cmd, accept, broker, peer>>
        /\ \/ phase[c] = "registering" /\ accept[c] = "true" /\ phase'[c] = "open"
           \/ phase[c] = "closing" /\ phase'[c] = "closed"
        /\ \A d \in Conn : d # c => phase'[d] = phase[d]
    BY <1>2, <1>4, Zenon DEF Accepted, JoinWriter
  <2>2. SpeaksInTurn'
    BY <1>f, <2>1, Zenon
  <2>3. \A d \in Conn : Has(d)' => Has(d)
    BY <2>1, Zenon DEF Has
  <2>4. \A d \in Conn : accept'[d] # "empty" => phase'[d] # "new"
    BY <1>a, <2>1, Zenon
  <2>5. \A x \in Range(cmd') : x.type = "ConnectionUp" => x.conn # c
    BY <1>c, <2>1, Zenon
  <2>6. \A x \in Range(cmd') : x.type = "ConnectionDown" => phase'[x.conn] \in {"closing", "closed"}
    BY <1>e, <2>1, Zenon
  <2>7. broker' # "running" => cmd' = <<>>
    BY <2>1, Zenon DEF Registration
  <2>8. broker' = "running" => \A d \in Conn : Has(d)' => conns'[peer'[d]] = d
    BY <1>1, <1>b, <2>1, <2>3, Zenon
  <2>9. ASSUME NEW x \in Range(cmd'), x.type = "ConnectionUp"
        PROVE  phase'[x.conn] = "registering" /\ accept'[x.conn] = "empty" /\ peer'[x.conn] = x.identity
    BY <1>c, <2>1, <2>5, <2>9, Zenon
  <2>10. \A x \in Range(cmd') : x.type \in {"ConnectionDown", "Received"} => conns'[x.identity] = x.conn
    BY <1>1, <1>d, <2>1, Zenon
  <2> QED
    BY <2>2, <2>4, <2>6, <2>7, <2>8, <2>9, <2>10, RegistrationParts, Zenon
<1>5. CASE Rejected(c)
  <2>1. /\ UNCHANGED <<cmd, accept, broker, peer>>
        /\ phase[c] = "registering" /\ phase'[c] = "closed"
        /\ accept[c] = "false" \/ broker # "running"
        /\ \A d \in Conn : d # c => phase'[d] = phase[d]
    BY <1>2, <1>5, Zenon DEF Rejected, Connected
  <2>2. broker' # "running" => cmd' = <<>> /\ Range(cmd') = {}
    BY <2>1, RangeFacts, Zenon DEF Registration
  <2>3. SpeaksInTurn'
    BY <1>f, <2>1, Zenon
  <2>4. \A d \in Conn : Has(d)' => Has(d)
    BY <2>1, Zenon DEF Has
  <2>5. \A d \in Conn : accept'[d] # "empty" => phase'[d] # "new"
    BY <1>a, <2>1, Zenon
  <2>6. \A x \in Range(cmd') : x.type = "ConnectionUp" => x.conn # c
    BY <1>c, <2>1, <2>2, Zenon
  <2>7. \A x \in Range(cmd') : x.type = "ConnectionDown" => phase'[x.conn] \in {"closing", "closed"}
    BY <1>e, <2>1, Zenon
  <2>8. broker' = "running" => \A d \in Conn : Has(d)' => conns'[peer'[d]] = d
    BY <1>1, <1>b, <2>1, <2>4, Zenon
  <2>9. ASSUME NEW x \in Range(cmd'), x.type = "ConnectionUp"
        PROVE  phase'[x.conn] = "registering" /\ accept'[x.conn] = "empty" /\ peer'[x.conn] = x.identity
    BY <1>c, <2>1, <2>6, <2>9, Zenon
  <2>10. \A x \in Range(cmd') : x.type \in {"ConnectionDown", "Received"} => conns'[x.identity] = x.conn
    BY <1>1, <1>d, <2>1, Zenon
  <2> QED
    BY <2>2, <2>3, <2>5, <2>7, <2>8, <2>9, <2>10, RegistrationParts, Zenon
<1>6. CASE ReaderForward(c)
  <2> DEFINE m == Received(peer[c], c, Head(inbound[c]))
  <2>1. /\ phase[c] = "open" /\ SendCommand(m) /\ broker = "running"
        /\ UNCHANGED <<broker, accept, phase, peer>>
    BY <1>6, Zenon DEF ReaderForward, Read, Connected
  <2>2. Head(inbound[c]) \in InFrame /\ peer[c] \in Identity
    BY <1>6 DEF ReaderForward, Read, TypeOK, ConnectionTypeOK
  <2>3. m \in Command /\ m.type = "Received" /\ m.identity = peer[c] /\ m.conn = c
    BY <2>2, MessageTypes, Zenon DEF Received
  <2> HIDE DEF m
  <2>4. \A x \in Range(cmd) : x.type \in {"ConnectionUp", "ConnectionDown"} => x.conn # c
    BY <2>1, Zenon DEF Registration
  <2>5. SpeaksInTurn'
    BY <2>1, <2>3, <2>4, TurnSend, Zenon DEF Registration
  <2>6. Range(cmd') \subseteq Range(cmd) \cup {m}
    BY <2>1, <2>3, SendEffect, Zenon
  <2>7. conns[m.identity] = m.conn
    BY <2>1, <2>3, Zenon DEF Registration
  <2> QED
    BY <1>1, <2>1, <2>3, <2>5, <2>6, <2>7, RegistrationKept, Zenon
<1>7. CASE ReaderEnd(c)
  <2> DEFINE m == ConnectionDown(peer[c], c)
  <2>1. /\ phase[c] = "open" /\ SendCommand(m)
        /\ phase' = [phase EXCEPT ![c] = "closing"]
        /\ UNCHANGED <<broker, accept, peer>>
    BY <1>7, Zenon DEF ReaderEnd
  <2>2. peer[c] \in Identity
    BY <2>1, Zenon DEF TypeOK, ConnectionTypeOK
  <2>3. m \in Command /\ m.type = "ConnectionDown" /\ m.identity = peer[c] /\ m.conn = c
    BY <2>2, MessageTypes, Zenon DEF ConnectionDown
  <2> HIDE DEF m
  <2>4. phase'[c] = "closing" /\ \A d \in Conn : d # c => phase'[d] = phase[d]
    BY <1>2, <2>1, Zenon
  <2>5. \A x \in Range(cmd) : x.type \in {"ConnectionUp", "ConnectionDown"} => x.conn # c
    BY <2>1, Zenon DEF Registration
  <2>6. SpeaksInTurn'
    BY <2>1, <2>3, <2>5, TurnSend, Zenon DEF Registration
  <2>7. Range(cmd') \subseteq Range(cmd) \cup {m} /\ (Connected \/ cmd' = cmd)
    BY <2>1, <2>3, SendEffect, Zenon DEF SendCommand
  <2>8. CASE Connected
    <3>1. broker' = "running" /\ accept' = accept /\ conns' = conns /\ peer' = peer
      BY <1>1, <2>1, <2>8, Zenon DEF Connected
    <3>2. \A d \in Conn : accept'[d] # "empty" => phase'[d] # "new"
      BY <1>a, <2>4, <3>1, Zenon
    <3>3. \A d \in Conn : Has(d)' => conns'[peer'[d]] = d
      BY <1>b, <2>4, <2>8, <3>1, Zenon DEF Connected, Has
    <3>4. ASSUME NEW x \in Range(cmd'), x.type = "ConnectionUp"
          PROVE  phase'[x.conn] = "registering" /\ accept'[x.conn] = "empty" /\ peer'[x.conn] = x.identity
      BY <1>c, <2>3, <2>4, <2>5, <2>7, <3>1, <3>4, Zenon
    <3>5. conns[m.identity] = m.conn
      BY <1>b, <2>1, <2>3, <2>8, Zenon DEF Connected, Has
    <3>6. \A x \in Range(cmd') : x.type \in {"ConnectionDown", "Received"} => conns'[x.identity] = x.conn
      BY <1>d, <2>7, <3>1, <3>5, Zenon
    <3>7. \A x \in Range(cmd') : x.type = "ConnectionDown" => phase'[x.conn] \in {"closing", "closed"}
      BY <1>e, <2>3, <2>4, <2>5, <2>7, Zenon
    <3> QED
      BY <2>6, <3>1, <3>2, <3>3, <3>4, <3>6, <3>7, RegistrationParts, Zenon
  <2>9. CASE ~Connected
    <3>1. cmd' = <<>> /\ Range(cmd') = {} /\ broker' # "running"
      BY <2>1, <2>7, <2>9, RangeFacts, Zenon DEF Registration, Connected
    <3> QED
      BY <2>1, <2>4, <2>6, <3>1, Zenon DEF Registration
  <2> QED
    BY <2>8, <2>9, Zenon
<1>8. CASE WriterWrite(c) \/ WriterEnd(c, SenderDropped(c)) \/ LinkBreak(c) \/ RemoteSend(c)
  <2>1. UNCHANGED <<cmd, broker, accept, phase, peer>>
    BY <1>8, Zenon DEF WriterWrite, WriterEnd, LinkBreak, RemoteSend, channels
  <2>2. SpeaksInTurn'
    BY <1>f, <2>1, Zenon
  <2> QED
    BY <1>1, <2>1, <2>2, RegistrationKept, Zenon
<1> QED
  BY <1>3, <1>4, <1>5, <1>6, <1>7, <1>8, Zenon DEF SessionAdvance, SessionEvent, WriterNext, EnvNext

(* Registration is an invariant of the socket.                             *)
THEOREM RegistrationHolds == Spec => []Registration
<1>1. Init => Registration
  <2> SUFFICES ASSUME Init PROVE Registration
    BY Zenon
  <2>1. /\ broker = "running" /\ cmd = <<>>
        /\ \A c \in Conn : accept[c] = "empty" /\ phase[c] = "new"
    BY Zenon DEF Init, ChannelsInit, ConnectionInit
  <2>2. Range(cmd) = {} /\ DOMAIN cmd = {}
    BY <2>1, RangeFacts
  <2> QED
    BY <2>1, <2>2, Zenon DEF Registration, SpeaksInTurn
<1>2. TypeOK /\ Registration /\ [Next]_vars => Registration'
  <2> SUFFICES ASSUME TypeOK, Registration, [Next]_vars PROVE Registration'
    BY Zenon
  <2>1. CASE UNCHANGED vars
    <3>1. UNCHANGED <<cmd, broker, accept, phase, peer, conns>>
      BY <2>1, Zenon DEF vars
    <3>2. SpeaksInTurn
      BY Zenon DEF Registration
    <3>3. SpeaksInTurn'
      BY <3>1, <3>2, Zenon DEF SpeaksInTurn
    <3> QED
      BY <3>1, <3>3, RegistrationKept, Zenon
  <2> QED
    BY <2>1, RegistrationBroker, RegistrationOthers, RegistrationConnection, Zenon DEF Next, Terminated
<1> QED
  BY <1>1, <1>2, TypeCorrect, PTL DEF Spec

(* handle_down evicts the connection that ended, for any number of peers   *)
(* and connections: a reconnecting peer is turned away as a duplicate      *)
(* until the ConnectionDown of its old connection has been handled.        *)
THEOREM DownHitsItsOwn == Spec => []DownMatchesConn
<1>1. Registration => DownMatchesConn
  BY Zenon DEF Registration, DownMatchesConn
<1> QED
  BY <1>1, RegistrationHolds, PTL

-----------------------------------------------------------------------------
(* The connection map, the round-robin order and the buffer *)

(* Only the broker touches its state.                                      *)
LEMMA BrokerOwns ==
    ASSUME [Next]_vars
    PROVE  BrokerNext \/ UNCHANGED brokerVars
BY Zenon DEF Next, AppStep, TimerNext, SessionAdvance, SessionEvent, WriterNext, EnvNext, Terminated,
       vars, brokerVars

LEMMA FreshAppend ==
    ASSUME NEW S, NEW s \in Seq(S), IsInjective(s), NEW e \in S, e \notin Range(s)
    PROVE  IsInjective(Append(s, e))
<1> DEFINE t == Append(s, e)
<1>1. /\ DOMAIN t = 1..(Len(s) + 1) /\ DOMAIN s = 1..Len(s) /\ Len(s) \in Nat
      /\ \A i \in 1..Len(s) : t[i] = s[i]
      /\ t[Len(s) + 1] = e
  OBVIOUS
<1>0. \A i \in 1..Len(s) : s[i] # e
  BY <1>1, Zenon DEF Range
<1>2. \A i, j \in 1..Len(s) : s[i] = s[j] => i = j
  BY <1>1, Zenon DEF IsInjective
<1> HIDE DEF t
<1>3. \A i, j \in 1..(Len(s) + 1) : t[i] = t[j] => i = j
  BY <1>0, <1>1, <1>2
<1>4. IsInjective(t)
  BY <1>1, <1>3, Zenon DEF IsInjective
<1> QED
  BY <1>4, Zenon DEF t

(* Round-robin cycles through exactly the connected identities, each once, *)
(* whatever the order in which peers connect, reconnect and leave.         *)
THEOREM OrderInStep == Spec => []OrderMatchesConns
<1>1. Init => OrderMatchesConns
  <2> SUFFICES ASSUME Init PROVE OrderMatchesConns
    BY Zenon
  <2>1. order = <<>> /\ \A p \in Identity : conns[p] = NoConn
    BY Zenon DEF Init, BrokerInit
  <2>2. Range(order) = {} /\ IsInjective(order)
    BY <2>1, RangeFacts DEF IsInjective
  <2> QED
    BY <2>1, <2>2, Zenon DEF OrderMatchesConns
<1>2. TypeOK /\ OrderMatchesConns /\ [Next]_vars => OrderMatchesConns'
  <2> SUFFICES ASSUME TypeOK, OrderMatchesConns, [Next]_vars PROVE OrderMatchesConns'
    BY Zenon
  <2>1. CASE UNCHANGED <<conns, order>>
    BY <2>1, Zenon DEF OrderMatchesConns
  <2>2. ASSUME NEW type, BrokerRecv(type)
        PROVE  Head(cmd) \in Command /\ Head(cmd).type = type
    BY <2>2 DEF BrokerRecv, TypeOK, ChannelsTypeOK
  <2>3. /\ conns \in [Identity -> Conn \cup {NoConn}] /\ order \in Seq(Identity)
        /\ Range(order) = {p \in Identity : conns[p] # NoConn} /\ IsInjective(order)
    BY Zenon DEF TypeOK, BrokerTypeOK, OrderMatchesConns
  <2>4. CASE HandleUp
    <3> DEFINE p == Head(cmd).identity
               c == Head(cmd).conn
    <3>1. p \in Identity /\ c \in Conn
      BY <2>2, <2>4, CommandFields, Zenon DEF HandleUp
    <3>2. CASE conns[p] # NoConn
      BY <2>1, <2>4, <3>2, Zenon DEF HandleUp
    <3>3. CASE conns[p] = NoConn
      <4>1. conns' = [conns EXCEPT ![p] = c] /\ order' = Append(order, p)
        BY <2>4, <3>3, Zenon DEF HandleUp
      <4>2. \A q \in Identity : conns'[q] = IF q = p THEN c ELSE conns[q]
        BY <2>3, <3>1, <4>1, Zenon
      <4> HIDE DEF p, c
      <4>3. Range(order') = Range(order) \cup {p}
        BY <2>3, <3>1, <4>1, RangeFacts
      <4>4. Range(order') = {q \in Identity : conns'[q] # NoConn}
        BY <2>3, <3>1, <4>2, <4>3, MessagesAssumption, Zenon
      <4>5. IsInjective(order')
        <5>1. p \notin Range(order)
          BY <2>3, <3>3, Zenon
        <5> QED
          BY <2>3, <3>1, <4>1, <5>1, FreshAppend, Zenon
      <4> QED
        BY <4>4, <4>5, Zenon DEF OrderMatchesConns
    <3> QED
      BY <3>2, <3>3, Zenon
  <2>5. CASE HandleDown
    <3> DEFINE p == Head(cmd).identity
    <3>1. p \in Identity
      BY <2>2, <2>5, CommandFields, Zenon DEF HandleDown
    <3>2. conns' = [conns EXCEPT ![p] = NoConn] /\ order' = RemoveFirst(order, p)
      BY <2>5, Zenon DEF HandleDown
    <3>3. \A q \in Identity : conns'[q] = IF q = p THEN NoConn ELSE conns[q]
      BY <2>3, <3>1, <3>2, Zenon
    <3> HIDE DEF p
    <3>4. IsInjective(order') /\ Range(order') = Range(order) \ {p}
      BY <2>3, <3>2, RemoveFirstFacts, Zenon
    <3> QED
      BY <2>3, <3>3, <3>4, Zenon DEF OrderMatchesConns
  <2>6. CASE HandleClose
    <3>1. order' = <<>> /\ \A p \in Identity : conns'[p] = NoConn
      BY <2>6, Zenon DEF HandleClose
    <3>2. Range(order') = {} /\ IsInjective(order')
      BY <3>1, RangeFacts DEF IsInjective
    <3> QED
      BY <3>1, <3>2, Zenon DEF OrderMatchesConns
  <2>7. CASE HandleSend \/ HandleBuffered \/ HandleReceived \/ HandleResend \/ BrokerExit(timer = "done")
    BY <2>1, <2>7, Zenon DEF HandleSend, HandleBuffered, HandleReceived, HandleResend, BrokerExit, brokerVars
  <2> QED
    BY <2>1, <2>4, <2>5, <2>6, <2>7, BrokerOwns, Zenon DEF BrokerNext, BrokerStep, brokerVars
<1> QED
  BY <1>1, <1>2, TypeCorrect, PTL DEF Spec

(* handle_up flushes to somebody: while it works through the messages it   *)
(* took from the buffer, a peer is connected.                              *)
FlushHasPeer == buffered # <<>> => ~NoConns

(* A message waits in the buffer only while nobody is connected, however   *)
(* sends, resends, connections and disconnections interleave; and none     *)
(* that handle_up flushes goes back there.                                 *)
THEOREM BufferWaitsForPeer == Spec => [](BufferedMeansNoPeer /\ FlushHasPeer)
<1> DEFINE I == BufferedMeansNoPeer /\ FlushHasPeer
<1>1. Init => I
  BY Zenon DEF Init, BrokerInit, BufferedMeansNoPeer, FlushHasPeer
<1>2. TypeOK /\ I /\ [Next]_vars => I'
  <2> SUFFICES ASSUME TypeOK, I, [Next]_vars PROVE I'
    BY Zenon
  <2>1. CASE UNCHANGED <<conns, buffer, buffered>>
    BY <2>1, Zenon DEF BufferedMeansNoPeer, FlushHasPeer, NoConns
  <2>2. ASSUME NEW type, BrokerRecv(type)
        PROVE  Head(cmd) \in Command /\ Head(cmd).type = type /\ buffered = <<>>
    <3>1. cmd # <<>> /\ Head(cmd).type = type /\ buffered = <<>>
      BY <2>2, Zenon DEF BrokerRecv
    <3> QED
      BY <3>1, ChannelSets, Zenon
  <2>3. CASE HandleUp
    <3> DEFINE p == Head(cmd).identity
               c == Head(cmd).conn
    <3>1. p \in Identity /\ c \in Conn
      BY <2>2, <2>3, CommandFields, Zenon DEF HandleUp
    <3>2. CASE conns[p] # NoConn
      BY <2>1, <2>3, <3>2, Zenon DEF HandleUp
    <3>3. CASE conns[p] = NoConn
      <4>1. conns'[p] = c /\ buffer' = <<>>
        BY <2>3, <3>1, <3>3, Zenon DEF HandleUp, TypeOK, BrokerTypeOK
      <4>2. ~NoConns'
        BY <3>1, <4>1, MessagesAssumption, Zenon DEF NoConns
      <4> QED
        BY <4>1, <4>2, Zenon DEF BufferedMeansNoPeer, FlushHasPeer
    <3> QED
      BY <3>2, <3>3, Zenon
  <2>4. CASE HandleDown
    <3>1. buffered' = <<>> /\ buffer' = buffer /\ Head(cmd).identity \in Identity
      BY <2>2, <2>4, CommandFields, Zenon DEF HandleDown
    <3>2. \A q \in Identity : conns'[q] = IF q = Head(cmd).identity THEN NoConn ELSE conns[q]
      BY <2>4, <3>1, Zenon DEF HandleDown, TypeOK, BrokerTypeOK
    <3> QED
      BY <3>1, <3>2, Zenon DEF BufferedMeansNoPeer, FlushHasPeer, NoConns
  <2>5. CASE HandleClose
    BY <2>5, Zenon DEF HandleClose, BufferedMeansNoPeer, FlushHasPeer
  <2>6. CASE HandleSend \/ HandleBuffered
    <3>1. /\ UNCHANGED conns /\ (NoConns \/ UNCHANGED buffer)
          /\ buffered # <<>> \/ buffered' = <<>>
      BY <2>2, <2>6, Zenon DEF HandleSend, HandleBuffered, handle_send
    <3> QED
      BY <3>1, Zenon DEF BufferedMeansNoPeer, FlushHasPeer, NoConns
  <2>7. CASE HandleReceived \/ HandleResend \/ BrokerExit(timer = "done")
    <3>1. UNCHANGED <<conns, buffered>> /\ (NoConns \/ UNCHANGED buffer)
      BY <2>7, Zenon DEF HandleReceived, HandleResend, BrokerExit, brokerVars
    <3> QED
      BY <3>1, Zenon DEF BufferedMeansNoPeer, FlushHasPeer, NoConns
  <2> QED
    BY <2>1, <2>3, <2>4, <2>5, <2>6, <2>7, BrokerOwns, Zenon DEF BrokerNext, BrokerStep, brokerVars
<1> QED
  BY <1>1, <1>2, TypeCorrect, PTL DEF Spec
=============================================================================
