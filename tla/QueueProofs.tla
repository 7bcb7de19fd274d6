----------------------------- MODULE QueueProofs -----------------------------
(***************************************************************************)
(* What the socket's queues and tables guarantee together: an ACK goes     *)
(* back the way its message came, a message has one place at a time, and a *)
(* countdown while it is unacknowledged.                                   *)
(***************************************************************************)
EXTENDS CustodyProofs

-----------------------------------------------------------------------------
(* Acknowledgements *)

(* A frame that asks for an ACK names the connection it came by, until it  *)
(* is handled, and the ACK is queued on that connection.                   *)
AcksReturn ==
    /\ AckOnSameConnection
    /\ \A c \in Conn : \A f \in Range(inbound[c]) : f.type = "DATA_REQ" => f.id[1] = c
    /\ \A m \in Range(cmd) :
         m.type = "Received" /\ m.envelope.type = "DATA_REQ" => m.envelope.id[1] = m.conn

(* A step that queues no ACK and moves no DATA_REQ.                        *)
LEMMA AcksKept ==
    ASSUME AcksReturn,
           \A c \in Conn : \A f \in Range(writer_ch'[c]) : f \in Range(writer_ch[c]) \/ f.type # "ACK",
           \A c \in Conn : \A f \in Range(inbound'[c]) :
               f \in Range(inbound[c]) \/ f.type # "DATA_REQ",
           \A m \in Range(cmd') : m \in Range(cmd) \/ m.type # "Received"
    PROVE  AcksReturn'
BY Zenon DEF AcksReturn, AckOnSameConnection

(* transmit and handle_send queue messages, not ACKs.                      *)
LEMMA TransmitFrames ==
    ASSUME TypeOK, NEW id \in OptIdentity, NEW k \in Nat, NEW n \in 0..MAX_RETRIES,
           NEW table, transmit(id, k, n, table)
    PROVE  \A c \in Conn : \A f \in Range(writer_ch'[c]) : f \in Range(writer_ch[c]) \/ f.type # "ACK"
<1>1. data_req(next_id, k).type # "ACK" /\ data(k).type # "ACK"
  BY Zenon DEF data_req, data
<1>2. \A c \in Conn :
        \/ Range(writer_ch'[c]) \subseteq Range(writer_ch[c]) \cup {data_req(next_id, k)}
        \/ Range(writer_ch'[c]) \subseteq Range(writer_ch[c]) \cup {data(k)}
  BY TransmitEffect, Zenon
<1> QED
  BY <1>1, <1>2, Zenon

LEMMA HandleSendFrames ==
    ASSUME TypeOK, NEW id \in OptIdentity, NEW k \in Nat, handle_send(id, k)
    PROVE  \A c \in Conn : \A f \in Range(writer_ch'[c]) : f \in Range(writer_ch[c]) \/ f.type # "ACK"
<1>1. CASE UNCHANGED writer_ch
  BY <1>1, Zenon
<1>2. CASE transmit(id, k, MAX_RETRIES, pending)
  BY <1>2, TransmitFrames, MessagesAssumption
<1> QED
  BY <1>1, <1>2, Zenon DEF handle_send

LEMMA AcksBroker ==
    ASSUME TypeOK, Registration, AcksReturn, BrokerNext
    PROVE  AcksReturn'
<1>1. UNCHANGED inbound
  BY Zenon DEF BrokerNext, connectionVars
<1>2. ASSUME NEW type, BrokerRecv(type)
      PROVE  /\ Head(cmd) \in Command /\ Head(cmd).type = type
             /\ Range(cmd) = {Head(cmd)} \cup Range(cmd')
  BY <1>2, ChannelSets, Zenon DEF BrokerRecv, TypeOK, ChannelsTypeOK
<1>3. CASE HandleSend
  <2>1. /\ Head(cmd).identity \in OptIdentity /\ Head(cmd).payload \in Nat
        /\ Range(cmd') \subseteq Range(cmd)
    BY <1>2, <1>3, CommandFields, Zenon DEF HandleSend
  <2> QED
    BY <1>1, <1>3, <2>1, HandleSendFrames, AcksKept, Zenon DEF HandleSend
<1>4. CASE HandleBuffered
  <2>1. Head(buffered) \in Message /\ UNCHANGED cmd
    BY <1>4 DEF HandleBuffered, TypeOK, BrokerTypeOK
  <2>2. Head(buffered).identity \in OptIdentity /\ Head(buffered).payload \in Nat
    BY <2>1, Zenon DEF Message
  <2> QED
    BY <1>1, <1>4, <2>1, <2>2, HandleSendFrames, AcksKept, Zenon DEF HandleBuffered
<1>5. CASE HandleUp \/ HandleDown
  <2>1. UNCHANGED writer_ch /\ Range(cmd') \subseteq Range(cmd)
    BY <1>2, <1>5, Zenon DEF HandleUp, HandleDown
  <2> QED
    BY <1>1, <2>1, AcksKept, Zenon
<1>6. CASE HandleReceived
  <2> DEFINE p == Head(cmd).identity
             e == Head(cmd).envelope
  <2>1. /\ Head(cmd) \in Command /\ Head(cmd).type = "Received" /\ Head(cmd) \in Range(cmd)
        /\ Range(cmd') \subseteq Range(cmd)
    BY <1>2, <1>6, Zenon DEF HandleReceived
  <2>2. CASE UNCHANGED writer_ch
    BY <1>1, <2>1, <2>2, AcksKept, Zenon
  <2>3. CASE e.type = "DATA_REQ" /\ route(p, ack(e.id))
    <3>1. p \in Identity /\ e \in InFrame /\ p # NoIdentity
      BY <2>1, CommandFields, MessagesAssumption, Zenon
    <3>2. ack(e.id) \in OutFrame /\ ack(e.id).id = e.id
      BY <2>3, <3>1, InFrameFields, MessageTypes, Zenon DEF ack
    <3>3. conns[p] = Head(cmd).conn /\ e.id[1] = Head(cmd).conn
      BY <2>1, <2>3, Zenon DEF Registration, AcksReturn
    <3>4. ASSUME NEW c \in Conn, NEW f \in Range(writer_ch'[c]), f.type = "ACK"
          PROVE  f.id[1] = c
      <4>1. CASE Receives(c, p)
        <5>1. conns[p] = c
          BY <3>1, <4>1, Zenon DEF Receives, Targets
        <5>2. f \in Range(writer_ch[c]) \/ f = ack(e.id)
          BY <2>3, <3>2, <3>4, RouteEffect, Zenon
        <5> QED
          BY <3>2, <3>3, <3>4, <5>1, <5>2, Zenon DEF AcksReturn, AckOnSameConnection
      <4>2. CASE ~Receives(c, p)
        <5>1. writer_ch'[c] = writer_ch[c]
          BY <2>3, <4>2, Zenon DEF route
        <5> QED
          BY <3>4, <5>1, Zenon DEF AcksReturn, AckOnSameConnection
      <4> QED
        BY <4>1, <4>2, Zenon
    <3> QED
      BY <1>1, <2>1, <3>4, Zenon DEF AcksReturn, AckOnSameConnection
  <2> QED
    BY <1>6, <2>2, <2>3, Zenon DEF HandleReceived
<1>7. CASE HandleResend
  <2>1. Range(cmd') \subseteq Range(cmd)
    BY <1>2, <1>7, Zenon DEF HandleResend
  <2>2. CASE UNCHANGED writer_ch
    BY <1>1, <2>1, <2>2, AcksKept, Zenon
  <2>3. ASSUME NEW r \in pending, r.retries > 0,
               transmit(r.identity, r.payload, r.retries - 1, pending \ {r})
        PROVE  AcksReturn'
    <3>1. r.identity \in OptIdentity /\ r.payload \in Nat /\ r.retries \in 0..MAX_RETRIES
      BY Zenon DEF TypeOK, BrokerTypeOK, Pending
    <3>2. r.retries - 1 \in 0..MAX_RETRIES
      BY <2>3, <3>1, MessagesAssumption
    <3>3. \A c \in Conn : \A f \in Range(writer_ch'[c]) :
            f \in Range(writer_ch[c]) \/ f.type # "ACK"
      BY <2>3, <3>1, <3>2, TransmitFrames, Zenon
    <3> QED
      BY <1>1, <2>1, <3>3, AcksKept, Zenon
  <2> QED
    BY <1>7, <2>2, <2>3, Zenon DEF HandleResend
<1>8. CASE HandleClose
  <2>1. UNCHANGED writer_ch /\ Range(cmd') = {}
    BY <1>8, RangeFacts, Zenon DEF HandleClose
  <2> QED
    BY <1>1, <2>1, AcksKept, Zenon
<1>9. CASE BrokerExit(timer = "done")
  BY <1>1, <1>9, AcksKept, Zenon DEF BrokerExit
<1> QED
  BY <1>3, <1>4, <1>5, <1>6, <1>7, <1>8, <1>9, Zenon DEF BrokerNext, BrokerStep

LEMMA AcksConnection ==
    ASSUME TypeOK, AcksReturn, NEW c \in Conn,
           SessionAdvance(c) \/ SessionEvent(c) \/ WriterNext(c) \/ EnvNext(c)
    PROVE  AcksReturn'
<1>1. ASSUME NEW p \in Identity, Register(c, p)
      PROVE  AcksReturn'
  <2>1. ConnectionUp(p, c) \in Command /\ ConnectionUp(p, c).type # "Received"
    BY MessageTypes, Zenon DEF ConnectionUp
  <2>2. Range(cmd') \subseteq Range(cmd) \cup {ConnectionUp(p, c)}
    BY <1>1, <2>1, SendEffect, Zenon DEF Register
  <2> QED
    BY <1>1, <2>1, <2>2, AcksKept, Zenon DEF Register
<1>2. CASE Accepted(c) \/ JoinWriter(c) \/ LinkBreak(c)
  BY <1>2, AcksKept, Zenon DEF Accepted, JoinWriter, LinkBreak, channels
<1>3. CASE Rejected(c) \/ WriterEnd(c, SenderDropped(c))
  <2>1. UNCHANGED <<cmd, inbound>>
    BY <1>3, Zenon DEF Rejected, WriterEnd
  <2>2. \A d \in Conn : writer_ch'[d] = writer_ch[d] \/ writer_ch'[d] = <<>>
    BY <1>3, Zenon DEF Rejected, WriterEnd, TypeOK, ChannelsTypeOK
  <2>3. \A d \in Conn : Range(writer_ch'[d]) \subseteq Range(writer_ch[d])
    BY <2>2, RangeFacts, Zenon
  <2> QED
    BY <2>1, <2>3, AcksKept, Zenon
<1>4. CASE ReaderForward(c)
  <2> DEFINE e == Head(inbound[c])
             m == Received(peer[c], c, e)
  <2>1. /\ inbound[c] # <<>> /\ phase[c] = "open" /\ SendCommand(m)
        /\ inbound' = [inbound EXCEPT ![c] = Tail(@)]
        /\ UNCHANGED writer_ch
    BY <1>4, Zenon DEF ReaderForward, Read
  <2>2. e \in Range(inbound[c]) /\ e \in InFrame /\ peer[c] \in Identity
    BY <2>1, ChannelSets, Zenon DEF TypeOK, ConnectionTypeOK
  <2>3. m \in Command /\ m.envelope = e /\ m.conn = c
    BY <2>2, MessageTypes, Zenon DEF Received
  <2>4. \A d \in Conn : Range(inbound'[d]) \subseteq Range(inbound[d])
    <3>1. \A d \in Conn : inbound'[d] = IF d = c THEN Tail(inbound[c]) ELSE inbound[d]
      BY <2>1, Zenon DEF TypeOK, ConnectionTypeOK
    <3>2. Range(Tail(inbound[c])) \subseteq Range(inbound[c])
      BY <2>1, ChannelSets, Zenon
    <3> QED
      BY <3>1, <3>2, Zenon
  <2>5. Range(cmd') \subseteq Range(cmd) \cup {m}
    BY <2>1, <2>3, SendEffect, Zenon
  <2> HIDE DEF e, m
  <2> QED
    BY <2>1, <2>2, <2>3, <2>4, <2>5 DEF AcksReturn, AckOnSameConnection
<1>5. CASE ReaderEnd(c)
  <2>1. peer[c] \in Identity
    BY <1>5, Zenon DEF ReaderEnd, TypeOK, ConnectionTypeOK
  <2>2. ConnectionDown(peer[c], c) \in Command /\ ConnectionDown(peer[c], c).type # "Received"
    BY <2>1, MessageTypes, Zenon DEF ConnectionDown
  <2>3. Range(cmd') \subseteq Range(cmd) \cup {ConnectionDown(peer[c], c)}
    BY <1>5, <2>2, SendEffect, Zenon DEF ReaderEnd
  <2> QED
    BY <1>5, <2>2, <2>3, AcksKept, Zenon DEF ReaderEnd
<1>6. CASE WriterWrite(c)
  <2> DEFINE g == Head(writer_ch[c])
  <2>1. UNCHANGED cmd /\ writer_ch[c] # <<>>
    BY <1>6, Zenon DEF WriterWrite
  <2>2. \A d \in Conn : Range(writer_ch'[d]) \subseteq Range(writer_ch[d])
    <3>1. \A d \in Conn : writer_ch'[d] = IF d = c THEN Tail(writer_ch[c]) ELSE writer_ch[d]
      BY <1>6, Zenon DEF WriterWrite, TypeOK, ChannelsTypeOK
    <3>2. Range(Tail(writer_ch[c])) \subseteq Range(writer_ch[c])
      BY <2>1, ChannelSets, Zenon
    <3> QED
      BY <3>1, <3>2, Zenon
  <2>3. CASE UNCHANGED inbound
    BY <2>1, <2>2, <2>3, AcksKept, Zenon
  <2>4. CASE g.type = "DATA_REQ" /\ inbound' = [inbound EXCEPT ![c] = Append(@, ack(g.id))]
    <3>1. ack(g.id) \in InFrame /\ ack(g.id).type # "DATA_REQ"
      <4>1. g \in OutFrame
        BY <2>1, ChannelSets, Zenon
      <4>2. g.id \in Nat
        BY <2>4, <4>1, OutFrameFields, Zenon
      <4> QED
        BY <4>2, MessageTypes, Zenon DEF ack
    <3>2. \A d \in Conn : Range(inbound'[d]) \subseteq Range(inbound[d]) \cup {ack(g.id)}
      <4>1. \A d \in Conn : inbound'[d] = IF d = c THEN Append(inbound[c], ack(g.id)) ELSE inbound[d]
        BY <2>4, Zenon DEF TypeOK, ConnectionTypeOK
      <4>2. Range(Append(inbound[c], ack(g.id))) = Range(inbound[c]) \cup {ack(g.id)}
        BY <3>1, ChannelSets, Zenon
      <4> HIDE DEF g
      <4> QED
        BY <4>1, <4>2, Zenon
    <3> QED
      BY <2>1, <2>2, <3>1, <3>2, AcksKept, Zenon
  <2> QED
    BY <1>6, <2>3, <2>4, Zenon DEF WriterWrite
<1>7. CASE RemoteSend(c)
  <2> DEFINE n == <<c, remote_n[c] + 1>>
  <2>1. n \in RemoteMsg /\ n[1] = c
    BY DEF RemoteMsg, TypeOK, ConnectionTypeOK
  <2>2. PICK f : /\ f = data(n) \/ f = data_req(n, n)
                 /\ inbound' = [inbound EXCEPT ![c] = Append(@, f)]
    BY <1>7, Zenon DEF RemoteSend
  <2>3. f \in InFrame /\ (f.type = "DATA_REQ" => f.id = n)
    <3>1. data(n) \in InFrame /\ data_req(n, n) \in InFrame
      BY <2>1, MessageTypes, Zenon
    <3>2. data(n).type # "DATA_REQ" /\ data_req(n, n).id = n
      BY Zenon DEF data, data_req
    <3> HIDE DEF n
    <3> QED
      BY <2>2, <3>1, <3>2, Zenon
  <2>4. \A d \in Conn : inbound'[d] = IF d = c THEN Append(inbound[c], f) ELSE inbound[d]
    BY <2>2, Zenon DEF TypeOK, ConnectionTypeOK
  <2>5. Range(Append(inbound[c], f)) = Range(inbound[c]) \cup {f}
    BY <2>3, ChannelSets, Zenon
  <2>6. UNCHANGED <<cmd, writer_ch>>
    BY <1>7, Zenon DEF RemoteSend, channels
  <2> HIDE DEF n
  <2>7. \A d \in Conn : \A h \in Range(inbound'[d]) : h.type = "DATA_REQ" => h.id[1] = d
    <3>1. \A h \in Range(inbound'[c]) : h \in Range(inbound[c]) \/ h = f
      BY <2>4, <2>5, Zenon
    <3>2. \A h \in Range(inbound'[c]) : h.type = "DATA_REQ" => h.id[1] = c
      BY <2>1, <2>3, <3>1, Zenon DEF AcksReturn
    <3>3. \A d \in Conn : d # c => inbound'[d] = inbound[d]
      BY <2>4, Zenon
    <3> QED
      BY <3>2, <3>3, Zenon DEF AcksReturn
  <2> QED
    BY <2>6, <2>7, Zenon DEF AcksReturn, AckOnSameConnection
<1> QED
  BY <1>1, <1>2, <1>3, <1>4, <1>5, <1>6, <1>7, Zenon DEF SessionAdvance, SessionEvent, WriterNext, EnvNext

(* The timer thread and the application handle no frames.                  *)
LEMMA AcksOthers ==
    ASSUME TypeOK, AcksReturn, TimerNext \/ AppStep
    PROVE  AcksReturn'
<1>1. UNCHANGED <<inbound, writer_ch>>
  BY Zenon DEF TimerNext, TimerStep, TimerArm, TimerCancel, TimerShutdown, TimerRecv, TimerFire,
         AppStep, close, dispatch, connectionVars
<1>2. CASE UNCHANGED cmd
  BY <1>1, <1>2, AcksKept, Zenon
<1>3. ASSUME NEW m \in Command, SendCommand(m), m.type # "Received"
      PROVE  AcksReturn'
  <2>1. Range(cmd') \subseteq Range(cmd) \cup {m}
    BY <1>3, SendEffect, Zenon
  <2> QED
    BY <1>1, <1>3, <2>1, AcksKept, Zenon
<1>4. CASE TimerFire /\ SendCommand(ResendTimeout(Head(deadlines)))
  <2>1. Head(deadlines) \in Nat
    BY <1>4 DEF TimerFire, TypeOK, TimerTypeOK
  <2>2. /\ ResendTimeout(Head(deadlines)) \in Command
        /\ ResendTimeout(Head(deadlines)).type # "Received"
    BY <2>1, MessageTypes, Zenon DEF ResendTimeout
  <2> QED
    BY <1>3, <1>4, <2>2, Zenon
<1>5. CASE close
  BY <1>3, <1>5, MessageTypes, Zenon DEF close, Close
<1>6. ASSUME NEW id \in OptIdentity, dispatch(id)
      PROVE  AcksReturn'
  <2>1. Len(sent) + 1 \in Nat
    BY DEF TypeOK
  <2>2. Send(id, Len(sent) + 1) \in Command /\ Send(id, Len(sent) + 1).type # "Received"
    BY <2>1, MessageTypes, Zenon DEF Send
  <2> QED
    BY <1>3, <1>6, <2>2, Zenon DEF dispatch
<1> QED
  BY <1>2, <1>4, <1>5, <1>6, Zenon
     DEF TimerNext, TimerStep, TimerArm, TimerCancel, TimerShutdown, TimerRecv, TimerFire, AppStep

(* An ACK leaves by the connection its DATA_REQ arrived on, for any number *)
(* of peers, connections and messages, although route() is given only an   *)
(* identity.                                                               *)
THEOREM AcksGoBack == Spec => []AckOnSameConnection
<1>1. Init => AcksReturn
  <2> SUFFICES ASSUME Init PROVE AcksReturn
    BY Zenon
  <2>1. /\ cmd = <<>>
        /\ \A c \in Conn : inbound[c] = <<>> /\ writer_ch[c] = <<>>
    BY Zenon DEF Init, ChannelsInit, ConnectionInit
  <2> QED
    BY <2>1, RangeFacts, Zenon DEF AcksReturn, AckOnSameConnection
<1>2. TypeOK /\ Registration /\ AcksReturn /\ [Next]_vars => AcksReturn'
  <2> SUFFICES ASSUME TypeOK, Registration, AcksReturn, [Next]_vars PROVE AcksReturn'
    BY Zenon
  <2>1. CASE UNCHANGED vars
    BY <2>1, AcksKept, Zenon DEF vars
  <2> QED
    BY <2>1, AcksBroker, AcksOthers, AcksConnection, Zenon DEF Next, Terminated
<1>3. AcksReturn => AckOnSameConnection
  BY Zenon DEF AcksReturn
<1> QED
  BY <1>1, <1>2, <1>3, TypeCorrect, RegistrationHolds, PTL DEF Spec

-----------------------------------------------------------------------------
(* Countdowns *)

(* The inductive invariant.  A Cancel on its way names an id that is not   *)
(* and will not again be pending, ids are not shared, and the timer thread *)
(* is not told to stop before the broker stops.                            *)
Timed ==
    /\ PendingIsTimed
    /\ \A q, r \in pending : q.id = r.id => q = r
    /\ \A m \in Range(timer_ch) :
         m.type = "Cancel" => m.id < next_id /\ \A r \in pending : r.id # m.id
    /\ broker = "running" => Shutdown \notin Range(timer_ch)

LEMMA TimerSets ==
    ASSUME TypeOK
    PROVE  /\ Range(timer_ch) \subseteq TimerMsg
           /\ \A m \in TimerMsg : Range(Append(timer_ch, m)) = Range(timer_ch) \cup {m}
           /\ timer_ch # <<>> => /\ Head(timer_ch) \in TimerMsg
                                 /\ Range(timer_ch) = {Head(timer_ch)} \cup Range(Tail(timer_ch))
           /\ \A i \in Nat : Arm(i) \in TimerMsg /\ Cancel(i) \in TimerMsg
           /\ Shutdown \in TimerMsg
<1>1. timer_ch \in Seq(TimerMsg)
  BY Zenon DEF TypeOK, ChannelsTypeOK
<1>2. /\ Range(timer_ch) \subseteq TimerMsg
      /\ \A m \in TimerMsg : Range(Append(timer_ch, m)) = Range(timer_ch) \cup {m}
  BY <1>1, RangeFacts
<1>3. timer_ch # <<>> => /\ Head(timer_ch) \in TimerMsg
                         /\ Range(timer_ch) = {Head(timer_ch)} \cup Range(Tail(timer_ch))
  BY <1>1, RangeFacts, Zenon
<1>4. (\A i \in Nat : Arm(i) \in TimerMsg /\ Cancel(i) \in TimerMsg) /\ Shutdown \in TimerMsg
  BY Zenon DEF Arm, Cancel, Shutdown, TimerMsg
<1> QED
  BY <1>2, <1>3, <1>4, Zenon

(* A step that starts no countdown and stops none.                         *)
LEMMA TimedKept ==
    ASSUME Timed, UNCHANGED <<broker, timer, timer_ch, armed, deadlines, next_id>>,
           pending' \subseteq pending,
           \A r \in pending' : ResendTimeout(r.id) \in Range(cmd) => ResendTimeout(r.id) \in Range(cmd')
    PROVE  Timed'
BY Zenon DEF Timed, PendingIsTimed

(* transmit() starts the countdown of the id it takes.                     *)
LEMMA TimedTransmit ==
    ASSUME TypeOK, IdsAreOld, Timed,
           NEW id \in OptIdentity, NEW k \in Nat, NEW n \in 0..MAX_RETRIES,
           NEW table \in SUBSET pending, transmit(id, k, n, table),
           UNCHANGED <<broker, timer, armed, deadlines>>,
           \A r \in table : ResendTimeout(r.id) \in Range(cmd) => ResendTimeout(r.id) \in Range(cmd')
    PROVE  Timed'
<1>1. CASE ~at_least_once(id)
  <2>1. UNCHANGED <<next_id, timer_ch>> /\ pending' = table
    BY <1>1, Zenon DEF transmit
  <2> QED
    BY <2>1, TimedKept, Zenon
<1>2. CASE at_least_once(id)
  <2> DEFINE new == [id |-> next_id, identity |-> id, payload |-> k, retries |-> n]
  <2>1. /\ next_id' = next_id + 1 /\ next_id \in Nat
        /\ timer_ch' = Append(timer_ch, Arm(next_id))
        /\ pending' = table \cup {new}
    BY <1>2, Zenon DEF transmit, TypeOK, BrokerTypeOK
  <2>2. Range(timer_ch') = Range(timer_ch) \cup {Arm(next_id)}
    BY <2>1, TimerSets, Zenon
  <2>3. /\ new.id = next_id /\ Arm(next_id).type = "Arm" /\ Arm(next_id) # Shutdown
        /\ \A r \in pending : r.id \in Nat /\ r.id < next_id
    <3>1. Arm(next_id).type = "Arm" /\ Shutdown.type = "Shutdown"
      BY Zenon DEF Arm, Shutdown
    <3>2. \A r \in pending : r.id \in Nat
      BY Zenon DEF TypeOK, BrokerTypeOK, Pending
    <3> QED
      BY <3>1, <3>2, Zenon DEF IdsAreOld
  <2>4. \A m \in Range(timer_ch) : m.type = "Cancel" => m.id \in Nat
    BY TimerSets DEF TimerMsg, Shutdown
  <2> HIDE DEF new
  <2>5. PendingIsTimed'
    BY <2>1, <2>2, <2>3, Zenon DEF Timed, PendingIsTimed
  <2>6. \A q, r \in pending' : q.id = r.id => q = r
    BY <2>1, <2>3 DEF Timed
  <2>7. \A m \in Range(timer_ch') :
          m.type = "Cancel" => m.id < next_id' /\ \A r \in pending' : r.id # m.id
    <3> SUFFICES ASSUME NEW m \in Range(timer_ch'), m.type = "Cancel"
                 PROVE  m.id < next_id' /\ \A r \in pending' : r.id # m.id
      BY Zenon
    <3>1. m \in Range(timer_ch) /\ m.id \in Nat /\ m.id < next_id
      BY <2>2, <2>3, <2>4, Zenon DEF Timed
    <3> QED
      BY <2>1, <2>3, <3>1 DEF Timed
  <2> QED
    BY <2>2, <2>3, <2>5, <2>6, <2>7, Zenon DEF Timed
<1> QED
  BY <1>1, <1>2, Zenon

LEMMA TimedBroker ==
    ASSUME TypeOK, IdsAreOld, CopiesAreFaithful, Timed, BrokerNext
    PROVE  Timed'
<1>1. UNCHANGED <<timer, armed, deadlines>>
  BY Zenon DEF BrokerNext, timerVars
<1>2. ASSUME NEW type, BrokerRecv(type)
      PROVE  /\ Head(cmd) \in Command /\ Head(cmd).type = type
             /\ Range(cmd) = {Head(cmd)} \cup Range(cmd')
             /\ type # "ResendTimeout" =>
                  \A i : ResendTimeout(i) \in Range(cmd) => ResendTimeout(i) \in Range(cmd')
  <2>1. /\ Head(cmd) \in Command /\ Head(cmd).type = type
        /\ Range(cmd) = {Head(cmd)} \cup Range(cmd')
    BY <1>2, ChannelSets, Zenon DEF BrokerRecv, TypeOK, ChannelsTypeOK
  <2>2. \A i : ResendTimeout(i).type = "ResendTimeout"
    BY Zenon DEF ResendTimeout
  <2> QED
    BY <2>1, <2>2, Zenon
<1>3. \A r \in pending : r.id \in Nat /\ r.identity \in OptIdentity /\ r.payload \in Nat
                         /\ r.retries \in 0..MAX_RETRIES
  BY Zenon DEF TypeOK, BrokerTypeOK, Pending
<1>4. ASSUME NEW id \in OptIdentity, NEW k \in Nat, handle_send(id, k), UNCHANGED broker,
             \A i : ResendTimeout(i) \in Range(cmd) => ResendTimeout(i) \in Range(cmd')
      PROVE  Timed'
  <2>1. CASE NoConns
    BY <1>1, <1>4, <2>1, TimedKept, Zenon DEF handle_send
  <2>2. CASE ~NoConns
    BY <1>1, <1>4, <2>2, TimedTransmit, MessagesAssumption DEF handle_send
  <2> QED
    BY <2>1, <2>2, Zenon
<1>5. CASE HandleSend
  <2>1. Head(cmd).identity \in OptIdentity /\ Head(cmd).payload \in Nat
    BY <1>2, <1>5, CommandFields, Zenon DEF HandleSend
  <2> QED
    BY <1>2, <1>4, <1>5, <2>1 DEF HandleSend
<1>6. CASE HandleBuffered
  <2>1. Head(buffered) \in Message
    BY <1>6 DEF HandleBuffered, TypeOK, BrokerTypeOK
  <2>2. Head(buffered).identity \in OptIdentity /\ Head(buffered).payload \in Nat
    BY <2>1, Zenon DEF Message
  <2> QED
    BY <1>4, <1>6, <2>2, Zenon DEF HandleBuffered
<1>7. CASE HandleUp \/ HandleDown
  <2>1. UNCHANGED <<broker, timer_ch, next_id, pending>>
    BY <1>7, Zenon DEF HandleUp, HandleDown
  <2>2. \A i : ResendTimeout(i) \in Range(cmd) => ResendTimeout(i) \in Range(cmd')
    BY <1>2, <1>7 DEF HandleUp, HandleDown
  <2> QED
    BY <1>1, <2>1, <2>2, TimedKept, Zenon
<1>8. CASE HandleReceived
  <2> DEFINE e == Head(cmd).envelope
  <2>1. /\ \A i : ResendTimeout(i) \in Range(cmd) => ResendTimeout(i) \in Range(cmd')
        /\ UNCHANGED <<broker, next_id>>
    BY <1>2, <1>8 DEF HandleReceived
  <2>2. CASE UNCHANGED <<pending, timer_ch>>
    BY <1>1, <2>1, <2>2, TimedKept, Zenon
  <2>3. CASE /\ e.type = "ACK"
             /\ pending' = {r \in pending : r.id # e.id}
             /\ timer_ch' = IF \E r \in pending : r.id = e.id
                              THEN Append(timer_ch, Cancel(e.id)) ELSE timer_ch
    <3>1. CASE \A r \in pending : r.id # e.id
      BY <1>1, <2>1, <2>3, <3>1, TimedKept, Zenon
    <3>2. ASSUME NEW q \in pending, q.id = e.id
          PROVE  Timed'
      <4>1. timer_ch' = Append(timer_ch, Cancel(q.id)) /\ pending' = {r \in pending : r.id # q.id}
        BY <2>3, <3>2, Zenon
      <4>2. Range(timer_ch') = Range(timer_ch) \cup {Cancel(q.id)}
        BY <1>3, <4>1, TimerSets, Zenon
      <4>3. Cancel(q.id).id = q.id /\ Cancel(q.id) # Shutdown /\ q.id < next_id
        <5>1. Cancel(q.id).id = q.id /\ Cancel(q.id).type = "Cancel" /\ Shutdown.type = "Shutdown"
          BY Zenon DEF Cancel, Shutdown
        <5> QED
          BY <5>1, Zenon DEF IdsAreOld
      <4>4. PendingIsTimed'
        BY <1>1, <2>1, <4>1, <4>2, Zenon DEF Timed, PendingIsTimed
      <4> QED
        BY <2>1, <4>1, <4>2, <4>3, <4>4, Zenon DEF Timed
    <3> QED
      BY <3>1, <3>2, Zenon
  <2> QED
    BY <1>8, <2>2, <2>3, Zenon DEF HandleReceived
<1>9. CASE HandleResend
  <2> DEFINE i == Head(cmd).id
  <2>1. /\ Range(cmd) = {Head(cmd)} \cup Range(cmd') /\ Head(cmd) \in Command
        /\ Head(cmd).type = "ResendTimeout" /\ UNCHANGED broker
    BY <1>2, <1>9, Zenon DEF HandleResend
  <2>2. \A j : j # i => (ResendTimeout(j) \in Range(cmd) => ResendTimeout(j) \in Range(cmd'))
    <3>1. \A j : ResendTimeout(j).id = j
      BY Zenon DEF ResendTimeout
    <3> QED
      BY <2>1, <3>1, Zenon
  <2>3. CASE (\A r \in pending : r.id # i) /\ UNCHANGED <<pending, next_id, timer_ch>>
    BY <1>1, <2>1, <2>2, <2>3, TimedKept, Zenon
  <2>4. ASSUME NEW r \in pending, r.id = i
        PROVE  \A q \in pending \ {r} : q.id # i
    BY <2>4, Zenon DEF Timed
  <2>5. ASSUME NEW r \in pending, r.id = i, pending' = pending \ {r}, UNCHANGED <<next_id, timer_ch>>
        PROVE  Timed'
    <3>1. \A q \in pending' : q.id # i
      BY <2>4, <2>5, Zenon
    <3> QED
      BY <1>1, <2>1, <2>2, <2>5, <3>1, TimedKept, Zenon
  <2>6. ASSUME NEW r \in pending, r.id = i, r.retries > 0,
               transmit(r.identity, r.payload, r.retries - 1, pending \ {r})
        PROVE  Timed'
    <3>1. r.retries - 1 \in 0..MAX_RETRIES /\ r.identity \in OptIdentity /\ r.payload \in Nat
      BY <1>3, <2>6, MessagesAssumption
    <3>2. \A q \in pending \ {r} :
            ResendTimeout(q.id) \in Range(cmd) => ResendTimeout(q.id) \in Range(cmd')
      BY <2>2, <2>4, <2>6, Zenon
    <3> QED
      BY <1>1, <2>1, <2>6, <3>1, <3>2, TimedTransmit, Zenon
  <2> QED
    BY <1>9, <2>3, <2>5, <2>6, Zenon DEF HandleResend
<1>10. CASE HandleClose
  <2>1. /\ broker' # "running" /\ pending' = {} /\ UNCHANGED next_id
        /\ timer_ch' = Append(timer_ch, Shutdown)
    BY <1>10, Zenon DEF HandleClose
  <2>2. Range(timer_ch') = Range(timer_ch) \cup {Shutdown} /\ Shutdown.type # "Cancel"
    BY <2>1, TimerSets, Zenon DEF Shutdown
  <2> QED
    BY <2>1, <2>2, Zenon DEF Timed, PendingIsTimed
<1>11. CASE BrokerExit(timer = "done")
  BY <1>11, Zenon DEF BrokerExit, brokerVars, Timed, PendingIsTimed
<1> QED
  BY <1>5, <1>6, <1>7, <1>8, <1>9, <1>10, <1>11, Zenon DEF BrokerNext, BrokerStep

LEMMA TimedTimer ==
    ASSUME TypeOK, Timed, TimerNext
    PROVE  Timed'
<1>1. UNCHANGED <<pending, next_id, broker>>
  BY Zenon DEF TimerNext, TimerStep, TimerArm, TimerCancel, TimerShutdown, TimerRecv, TimerFire, brokerVars
<1>2. deadlines \in Seq(Nat) /\ \A r \in pending : r.id \in Nat
  BY Zenon DEF TypeOK, TimerTypeOK, BrokerTypeOK, Pending
<1>3. ASSUME NEW type, TimerRecv(type)
      PROVE  /\ Head(timer_ch) \in TimerMsg /\ Head(timer_ch).type = type
             /\ Range(timer_ch) = {Head(timer_ch)} \cup Range(timer_ch')
             /\ UNCHANGED cmd
  BY <1>3, TimerSets, Zenon DEF TimerRecv
<1>4. \A i : /\ Arm(i).id = i /\ Arm(i).type = "Arm"
  BY Zenon DEF Arm
<1>5. CASE TimerArm
  <2> DEFINE i == Head(timer_ch).id
  <2>1. /\ Head(timer_ch) \in TimerMsg /\ Head(timer_ch).type = "Arm"
        /\ Range(timer_ch) = {Head(timer_ch)} \cup Range(timer_ch')
        /\ deadlines' = Append(deadlines, i) /\ armed' = armed \cup {i}
        /\ UNCHANGED <<timer, cmd>>
    BY <1>3, <1>5, Zenon DEF TimerArm
  <2>2. i \in Nat
    BY <2>1 DEF TimerMsg, Shutdown
  <2>3. Range(deadlines') = Range(deadlines) \cup {i}
    BY <1>2, <2>1, <2>2, RangeFacts
  <2>4. \A j : Arm(j) \in Range(timer_ch) => Arm(j) \in Range(timer_ch') \/ j = i
    BY <1>4, <2>1, Zenon
  <2> HIDE DEF i
  <2>5. PendingIsTimed'
    BY <1>1, <2>1, <2>3, <2>4, Zenon DEF Timed, PendingIsTimed
  <2> QED
    BY <1>1, <2>1, <2>5, Zenon DEF Timed
<1>6. CASE TimerCancel
  <2> DEFINE i == Head(timer_ch).id
  <2>1. /\ Head(timer_ch) \in TimerMsg /\ Head(timer_ch).type = "Cancel"
        /\ Range(timer_ch) = {Head(timer_ch)} \cup Range(timer_ch')
        /\ armed' = armed \ {i} /\ UNCHANGED <<timer, cmd, deadlines>>
    BY <1>3, <1>6, Zenon DEF TimerCancel
  <2>2. \A r \in pending : r.id # i
    BY <2>1, Zenon DEF Timed
  <2>3. \A j : Arm(j) \in Range(timer_ch) => Arm(j) \in Range(timer_ch')
    BY <1>4, <2>1, Zenon
  <2>4. PendingIsTimed'
    BY <1>1, <2>1, <2>2, <2>3, Zenon DEF Timed, PendingIsTimed
  <2> QED
    BY <1>1, <2>1, <2>4, Zenon DEF Timed
<1>7. CASE TimerShutdown
  <2>1. /\ Head(timer_ch) \in TimerMsg /\ Head(timer_ch).type = "Shutdown"
        /\ Range(timer_ch) = {Head(timer_ch)} \cup Range(timer_ch')
    BY <1>3, <1>7, Zenon DEF TimerShutdown
  <2>2. Head(timer_ch) = Shutdown
    BY <2>1, Zenon DEF TimerMsg
  <2>3. broker # "running"
    BY <2>1, <2>2, Zenon DEF Timed
  <2> QED
    BY <1>1, <2>1, <2>3, Zenon DEF Timed, PendingIsTimed
<1>8. CASE TimerFire
  <2> DEFINE i == Head(deadlines)
  <2>1. /\ deadlines # <<>> /\ timer = "running"
        /\ deadlines' = Tail(deadlines) /\ armed' = armed \ {i} /\ UNCHANGED timer_ch
        /\ IF i \in armed THEN /\ SendCommand(ResendTimeout(i))
                               /\ timer' = IF Connected THEN "running" ELSE "done"
                          ELSE UNCHANGED <<cmd, timer>>
    BY <1>8, Zenon DEF TimerFire
  <2>2. i \in Nat /\ Range(deadlines) = {i} \cup Range(deadlines')
    BY <1>2, <2>1, RangeFacts, Zenon
  <2>3. CASE broker = "running"
    <3>1. timer' = "running"
      BY <2>1, <2>3, Zenon DEF Connected
    <3>2. Range(cmd) \subseteq Range(cmd') /\ (i \in armed => ResendTimeout(i) \in Range(cmd'))
      <4>1. CASE i \in armed
        <5>1. ResendTimeout(i) \in Command
          BY <2>2, MessageTypes, Zenon
        <5>2. cmd' = Append(cmd, ResendTimeout(i))
          BY <2>1, <2>3, <4>1, Zenon DEF SendCommand, Connected
        <5> QED
          BY <5>1, <5>2, ChannelSets, Zenon
      <4>2. CASE i \notin armed
        BY <2>1, <4>2, Zenon
      <4> QED
        BY <4>1, <4>2, Zenon
    <3> HIDE DEF i
    <3>3. PendingIsTimed'
      BY <1>1, <2>1, <2>2, <2>3, <3>1, <3>2, Zenon DEF Timed, PendingIsTimed
    <3> QED
      BY <1>1, <2>1, <3>3, Zenon DEF Timed
  <2>4. CASE broker # "running"
    BY <1>1, <2>1, <2>4, Zenon DEF Timed, PendingIsTimed
  <2> QED
    BY <2>3, <2>4, Zenon
<1> QED
  BY <1>5, <1>6, <1>7, <1>8, Zenon DEF TimerNext, TimerStep

(* The channels that only the broker and the timer use.                    *)
LEMMA TimersUntouched ==
    ASSUME \/ AppStep
           \/ \E c \in Conn : SessionAdvance(c) \/ SessionEvent(c) \/ WriterNext(c) \/ EnvNext(c)
    PROVE  UNCHANGED <<broker, timer, timer_ch, armed, deadlines, next_id, pending, buffer, buffered>>
<1>1. UNCHANGED <<brokerVars, timerVars>>
  BY Zenon DEF AppStep, SessionAdvance, SessionEvent, WriterNext, EnvNext
<1>2. UNCHANGED <<broker, timer_ch>>
  <2>1. CASE AppStep
    BY <2>1, Zenon DEF AppStep, close, dispatch
  <2>2. ASSUME NEW c \in Conn, SessionAdvance(c) \/ SessionEvent(c) \/ WriterNext(c) \/ EnvNext(c)
        PROVE  UNCHANGED <<broker, timer_ch>>
    BY <2>2, Zenon DEF SessionAdvance, SessionEvent, WriterNext, EnvNext, Register, Accepted, Rejected,
                ReaderForward, ReaderEnd, JoinWriter, WriterWrite, WriterEnd, LinkBreak, RemoteSend,
                channels
  <2> QED
    BY <2>1, <2>2, Zenon
<1> QED
  BY <1>1, <1>2, Zenon DEF brokerVars, timerVars

LEMMA TimedOthers ==
    ASSUME TypeOK, Timed,
           \/ AppStep
           \/ \E c \in Conn : SessionAdvance(c) \/ SessionEvent(c) \/ WriterNext(c) \/ EnvNext(c)
    PROVE  Timed'
<1>1. UNCHANGED <<broker, timer, timer_ch, armed, deadlines, next_id, pending>>
  BY TimersUntouched, Zenon
<1>2. Range(cmd) \subseteq Range(cmd')
  BY CommandsSent, SendEffect, Zenon DEF NewCommand
<1> QED
  BY <1>1, <1>2, TimedKept, Zenon

(* Every unacknowledged message keeps its countdown, for any number of     *)
(* messages, peers and connections: nothing pending is forgotten, and a    *)
(* Cancel never stops the countdown of a message that is still pending.    *)
THEOREM NothingForgotten == Spec => []PendingIsTimed
<1>1. Init => Timed
  <2> SUFFICES ASSUME Init PROVE Timed
    BY Zenon
  <2>1. pending = {} /\ timer_ch = <<>> /\ timer = "running"
    BY Zenon DEF Init, ChannelsInit, BrokerInit, TimerInit
  <2> QED
    BY <2>1, RangeFacts, Zenon DEF Timed, PendingIsTimed
<1>2. TypeOK /\ Custody /\ Timed /\ [Next]_vars => Timed'
  <2> SUFFICES ASSUME TypeOK, Custody, Timed, [Next]_vars PROVE Timed'
    BY Zenon
  <2>1. CASE UNCHANGED vars
    BY <2>1, TimedKept, Zenon DEF vars
  <2> QED
    BY <2>1, TimedBroker, TimedTimer, TimedOthers, Zenon DEF Next, Terminated, Custody
<1>3. Timed => PendingIsTimed
  BY Zenon DEF Timed
<1> QED
  BY <1>1, <1>2, <1>3, TypeCorrect, CustodyHolds, PTL DEF Spec

-----------------------------------------------------------------------------
(* One place at a time *)

NoRepeat(q, S) ==
    \A i, j \in DOMAIN q : q[i] \in S /\ q[j] \in S /\ q[i].payload = q[j].payload => i = j

Apart(S, T) == \A m \in S, n \in T : m.payload # n.payload

(* The inductive invariant: no queue holds a message twice, and no two     *)
(* queues hold the same message.                                           *)
Single ==
    /\ NoRepeat(cmd, Sends)
    /\ NoRepeat(buffer, Range(buffer))
    /\ NoRepeat(buffered, Range(buffered))
    /\ \A q, r \in pending : q.payload = r.payload => q = r
    /\ Apart(Sends, Range(buffer) \cup Range(buffered) \cup pending)
    /\ Apart(Range(buffer), Range(buffered) \cup pending)
    /\ Apart(Range(buffered), pending)

LEMMA NoRepeatTail ==
    ASSUME NEW T, NEW q \in Seq(T), q # <<>>, NEW S, NoRepeat(q, S), NEW R \in SUBSET S
    PROVE  /\ NoRepeat(Tail(q), R)
           /\ Head(q) \in S => \A m \in Range(Tail(q)) : m \in S => m.payload # Head(q).payload
<1> DEFINE t == Tail(q)
<1>1. /\ DOMAIN t = 1..(Len(q) - 1) /\ DOMAIN q = 1..Len(q) /\ Len(q) \in Nat \ {0}
      /\ \A i \in 1..(Len(q) - 1) : t[i] = q[i + 1] /\ i + 1 \in 1..Len(q)
      /\ Head(q) = q[1]
  OBVIOUS
<1> HIDE DEF t
<1>2. ASSUME NEW i \in DOMAIN t, NEW j \in DOMAIN t, t[i] \in R, t[j] \in R,
             t[i].payload = t[j].payload
      PROVE  i = j
  <2>1. /\ i \in Nat /\ i + 1 \in DOMAIN q /\ t[i] = q[i + 1] /\ q[i + 1] \in S
        /\ j \in Nat /\ j + 1 \in DOMAIN q /\ t[j] = q[j + 1] /\ q[j + 1] \in S
    BY <1>1, <1>2
  <2>2. i + 1 = j + 1
    BY <1>2, <2>1, Zenon DEF NoRepeat
  <2> QED
    BY <2>1, <2>2
<1>3. ASSUME q[1] \in S, NEW i \in DOMAIN t, t[i] \in S
      PROVE  t[i].payload # q[1].payload
  <2>1. i + 1 \in DOMAIN q /\ 1 \in DOMAIN q /\ i + 1 # 1 /\ t[i] = q[i + 1]
    BY <1>1
  <2> QED
    BY <1>3, <2>1, Zenon DEF NoRepeat
<1> QED
  BY <1>1, <1>2, <1>3 DEF Range, NoRepeat, t

LEMMA NoRepeatAppend ==
    ASSUME NEW T, NEW q \in Seq(T), NEW S, NoRepeat(q, S), NEW e \in T,
           NEW R, R \cap Range(q) \subseteq S,
           e \in R => \A m \in Range(q) : m \in R => m.payload # e.payload
    PROVE  NoRepeat(Append(q, e), R)
<1> DEFINE t == Append(q, e)
<1>1. /\ DOMAIN t = 1..(Len(q) + 1) /\ DOMAIN q = 1..Len(q) /\ Len(q) \in Nat
      /\ \A i \in 1..Len(q) : t[i] = q[i]
      /\ t[Len(q) + 1] = e
  OBVIOUS
<1>2. \A i \in 1..Len(q) : q[i] \in Range(q)
  BY <1>1, Zenon DEF Range
<1> HIDE DEF t
<1> SUFFICES ASSUME NEW i \in DOMAIN t, NEW j \in DOMAIN t, t[i] \in R, t[j] \in R,
                    t[i].payload = t[j].payload
             PROVE  i = j
  BY Zenon DEF NoRepeat, t
<1>3. CASE i \in DOMAIN q /\ j \in DOMAIN q
  BY <1>1, <1>2, <1>3, Zenon DEF NoRepeat
<1>4. CASE i = Len(q) + 1 /\ j \in DOMAIN q
  BY <1>1, <1>2, <1>4, Zenon
<1>5. CASE i \in DOMAIN q /\ j = Len(q) + 1
  BY <1>1, <1>2, <1>5, Zenon
<1> QED
  BY <1>1, <1>3, <1>4, <1>5

(* A step that adds no message: the command channel may lose its head or   *)
(* grow, but holds no Send that it did not hold.                           *)
LEMMA SingleKept ==
    ASSUME Single, NoRepeat(cmd', Sends'), Sends' \subseteq Sends,
           UNCHANGED <<buffer, buffered>>, pending' \subseteq pending
    PROVE  Single'
BY Zenon DEF Single, Apart

(* Receiving a command.                                                    *)
LEMMA SingleRecv ==
    ASSUME TypeOK, Single, cmd # <<>>, cmd' = Tail(cmd)
    PROVE  /\ NoRepeat(cmd', Sends') /\ Sends' \subseteq Sends
           /\ Head(cmd).type = "Send" => Head(cmd) \in Sends /\ Apart({Head(cmd)}, Sends')
<1>1. cmd \in Seq(Command) /\ Range(cmd) = {Head(cmd)} \cup Range(cmd')
  BY ChannelSets, Zenon DEF TypeOK, ChannelsTypeOK
<1>2. Sends' \subseteq Sends
  BY <1>1, Zenon DEF Sends
<1>3. /\ NoRepeat(Tail(cmd), Sends')
      /\ Head(cmd) \in Sends => \A m \in Range(Tail(cmd)) : m \in Sends => m.payload # Head(cmd).payload
  BY <1>1, <1>2, NoRepeatTail, Zenon DEF Single
<1>4. Head(cmd).type = "Send" => Head(cmd) \in Sends
  BY <1>1, Zenon DEF Sends
<1>5. Sends' \subseteq Range(cmd')
  BY Zenon DEF Sends
<1> QED
  BY <1>2, <1>3, <1>4, <1>5, Zenon DEF Apart

(* Sending a command that carries no message of the application.           *)
LEMMA SingleSend ==
    ASSUME TypeOK, Single, NEW m \in Command, m.type # "Send", SendCommand(m)
    PROVE  NoRepeat(cmd', Sends') /\ Sends' \subseteq Sends
<1>1. Range(cmd') \subseteq Range(cmd) \cup {m} /\ cmd \in Seq(Command)
  BY SendEffect, Zenon DEF TypeOK, ChannelsTypeOK
<1>2. Sends' \subseteq Sends /\ m \notin Sends'
  BY <1>1, Zenon DEF Sends
<1>3. CASE cmd' = cmd
  BY <1>2, <1>3, Zenon DEF Single, NoRepeat, Sends
<1>4. CASE cmd' = Append(cmd, m)
  <2>1. NoRepeat(Append(cmd, m), Sends')
    BY <1>1, <1>2, NoRepeatAppend DEF Single
  <2> QED
    BY <1>2, <1>4, <2>1, Zenon
<1> QED
  BY <1>3, <1>4, Zenon DEF SendCommand

(* A message k that is in no queue any more joins the buffer or the table. *)
LEMMA SingleMove ==
    ASSUME TypeOK, Single, NEW id \in OptIdentity, NEW k \in Nat,
           NoRepeat(cmd', Sends'), Sends' \subseteq Sends,
           NoRepeat(buffered', Range(buffered')), Range(buffered') \subseteq Range(buffered),
           NEW table \in SUBSET pending,
           \A m \in Sends' \cup Range(buffer) \cup Range(buffered') \cup table : m.payload # k,
           \/ /\ buffer' = Append(buffer, [identity |-> id, payload |-> k])
              /\ pending' = table
           \/ /\ UNCHANGED buffer
              /\ \/ pending' = table
                 \/ \E r : r.payload = k /\ pending' = table \cup {r}
    PROVE  Single'
<1>1. CASE buffer' = Append(buffer, [identity |-> id, payload |-> k]) /\ pending' = table
  <2> DEFINE new == [identity |-> id, payload |-> k]
  <2>1. new \in Message /\ new.payload = k /\ buffer \in Seq(Message)
    BY Zenon DEF Message, TypeOK, BrokerTypeOK
  <2>2. Range(buffer') = Range(buffer) \cup {new}
    BY <1>1, <2>1, ChannelSets, Zenon
  <2> HIDE DEF new
  <2>3. NoRepeat(Append(buffer, new), Range(buffer'))
    <3>1. Range(buffer') \cap Range(buffer) \subseteq Range(buffer)
      BY Zenon
    <3>2. \A m \in Range(buffer) : m.payload # new.payload
      BY <2>1, Zenon
    <3> QED
      BY <2>1, <3>1, <3>2, NoRepeatAppend DEF Single
  <2>4. buffer' = Append(buffer, new)
    BY <1>1, Zenon DEF new
  <2> QED
    BY <1>1, <2>1, <2>2, <2>3, <2>4, Zenon DEF Single, Apart
<1>2. CASE UNCHANGED buffer /\ pending' = table
  BY <1>2, Zenon DEF Single, Apart
<1>3. ASSUME UNCHANGED buffer, NEW r, r.payload = k, pending' = table \cup {r}
      PROVE  Single'
  BY <1>3, Zenon DEF Single, Apart
<1> QED
  BY <1>1, <1>2, <1>3, Zenon

LEMMA SingleBroker ==
    ASSUME TypeOK, Single, BrokerNext
    PROVE  Single'
<1>1. ASSUME NEW type, BrokerRecv(type)
      PROVE  /\ Head(cmd) \in Command /\ Head(cmd).type = type
             /\ buffered = <<>> /\ Range(buffered) = {}
             /\ NoRepeat(cmd', Sends') /\ Sends' \subseteq Sends
             /\ type = "Send" => Head(cmd) \in Sends /\ Apart({Head(cmd)}, Sends')
  BY <1>1, SingleRecv, RangeFacts, Zenon DEF BrokerRecv, TypeOK, ChannelsTypeOK
<1>2. \A r \in pending : r.identity \in OptIdentity /\ r.payload \in Nat /\ r.retries \in 0..MAX_RETRIES
  BY Zenon DEF TypeOK, BrokerTypeOK, Pending
<1>3. NoRepeat(<<>>, {})
  BY Zenon DEF NoRepeat
<1>4. CASE HandleSend
  <2> DEFINE id == Head(cmd).identity
             k == Head(cmd).payload
  <2>1. /\ id \in OptIdentity /\ k \in Nat /\ handle_send(id, k) /\ UNCHANGED buffered
        /\ buffered = <<>> /\ Range(buffered) = {}
        /\ NoRepeat(cmd', Sends') /\ Sends' \subseteq Sends
        /\ Head(cmd) \in Sends /\ Apart({Head(cmd)}, Sends')
    BY <1>1, <1>4, CommandFields, Zenon DEF HandleSend
  <2>2. \A m \in Sends' \cup Range(buffer) \cup Range(buffered') \cup pending : m.payload # k
    BY <2>1, Zenon DEF Single, Apart
  <2>3. \/ buffer' = Append(buffer, [identity |-> id, payload |-> k]) /\ pending' = pending
        \/ /\ UNCHANGED buffer
           /\ pending' = pending \/ \E r : r.payload = k /\ pending' = pending \cup {r}
    BY <2>1, Zenon DEF handle_send, transmit
  <2>4. NoRepeat(buffered', Range(buffered')) /\ Range(buffered') \subseteq Range(buffered)
    BY <2>1, Zenon DEF Single
  <2> HIDE DEF id, k
  <2> QED
    BY <2>1, <2>2, <2>3, <2>4, SingleMove, Zenon
<1>5. CASE HandleBuffered
  <2> DEFINE id == Head(buffered).identity
             k == Head(buffered).payload
  <2>1. /\ buffered # <<>> /\ buffered' = Tail(buffered) /\ buffered \in Seq(Message)
        /\ handle_send(id, k) /\ UNCHANGED cmd
    BY <1>5, Zenon DEF HandleBuffered, TypeOK, BrokerTypeOK
  <2>2. Head(buffered) \in Message
    BY <2>1
  <2>3. id \in OptIdentity /\ k \in Nat
    BY <2>2, Zenon DEF Message
  <2>4. Range(buffered) = {Head(buffered)} \cup Range(buffered')
    BY <2>1, ChannelSets, Zenon
  <2>5. /\ NoRepeat(buffered', Range(buffered'))
        /\ \A m \in Range(buffered') : m.payload # k
    <3>1. Range(buffered') \in SUBSET Range(buffered) /\ Head(buffered) \in Range(buffered)
      BY <2>4, Zenon
    <3>2. NoRepeat(buffered, Range(buffered))
      BY Zenon DEF Single
    <3>3. /\ NoRepeat(Tail(buffered), Range(buffered'))
          /\ \A m \in Range(Tail(buffered)) : m \in Range(buffered) => m.payload # Head(buffered).payload
      BY <2>1, <3>1, <3>2, NoRepeatTail, Zenon
    <3> QED
      BY <2>1, <3>1, <3>3, Zenon
  <2>6. Sends' = Sends /\ NoRepeat(cmd', Sends')
    BY <2>1, Zenon DEF Sends, Single, NoRepeat
  <2>7. \A m \in Sends' \cup Range(buffer) \cup Range(buffered') \cup pending : m.payload # k
    BY <2>4, <2>5, <2>6, Zenon DEF Single, Apart
  <2>8. \/ buffer' = Append(buffer, [identity |-> id, payload |-> k]) /\ pending' = pending
        \/ /\ UNCHANGED buffer
           /\ pending' = pending \/ \E r : r.payload = k /\ pending' = pending \cup {r}
    BY <2>1, Zenon DEF handle_send, transmit
  <2> HIDE DEF id, k
  <2> QED
    BY <2>3, <2>4, <2>5, <2>6, <2>7, <2>8, SingleMove, Zenon
<1>6. CASE HandleUp
  <2>1. /\ UNCHANGED pending /\ Range(buffered) = {}
        /\ NoRepeat(cmd', Sends') /\ Sends' \subseteq Sends
        /\ UNCHANGED <<buffer, buffered>> \/ (buffered' = buffer /\ buffer' = <<>>)
    BY <1>1, <1>6, Zenon DEF HandleUp
  <2>2. CASE UNCHANGED <<buffer, buffered>>
    BY <2>1, <2>2, SingleKept, Zenon
  <2>3. CASE buffered' = buffer /\ buffer' = <<>>
    <3>1. Range(buffer') = {} /\ NoRepeat(buffer', Range(buffer'))
      BY <1>3, <2>3, RangeFacts, Zenon
    <3>2. NoRepeat(buffered', Range(buffered'))
      BY <2>3, Zenon DEF Single
    <3> QED
      BY <2>1, <2>3, <3>1, <3>2, Zenon DEF Single, Apart
  <2> QED
    BY <2>1, <2>2, <2>3, Zenon
<1>7. CASE HandleDown \/ HandleReceived
  <2>1. /\ UNCHANGED <<buffer, buffered>> /\ pending' \subseteq pending
        /\ NoRepeat(cmd', Sends') /\ Sends' \subseteq Sends
    BY <1>1, <1>7, Zenon DEF HandleDown, HandleReceived
  <2> QED
    BY <2>1, SingleKept, Zenon
<1>8. CASE HandleResend
  <2>1. /\ UNCHANGED buffered /\ Range(buffered) = {}
        /\ NoRepeat(cmd', Sends') /\ Sends' \subseteq Sends
    BY <1>1, <1>8, Zenon DEF HandleResend
  <2>2. CASE UNCHANGED buffer /\ pending' \subseteq pending
    BY <2>1, <2>2, SingleKept, Zenon
  <2>3. ASSUME NEW r \in pending,
               \/ /\ pending' = pending \ {r}
                  /\ buffer' = Append(buffer, [identity |-> r.identity, payload |-> r.payload])
               \/ /\ transmit(r.identity, r.payload, r.retries - 1, pending \ {r})
                  /\ UNCHANGED buffer
        PROVE  Single'
    <3> DEFINE table == pending \ {r}
    <3>1. \A m \in Sends' \cup Range(buffer) \cup Range(buffered') \cup table : m.payload # r.payload
      BY <2>1, Zenon DEF Single, Apart
    <3>2. \/ buffer' = Append(buffer, [identity |-> r.identity, payload |-> r.payload]) /\ pending' = table
          \/ /\ UNCHANGED buffer
             /\ pending' = table \/ \E q : q.payload = r.payload /\ pending' = table \cup {q}
      BY <2>3, Zenon DEF transmit
    <3>3. NoRepeat(buffered', Range(buffered')) /\ Range(buffered') \subseteq Range(buffered)
      BY <2>1, Zenon DEF Single
    <3>4. table \in SUBSET pending
      BY Zenon
    <3> HIDE DEF table
    <3> QED
      BY <1>2, <2>1, <3>1, <3>2, <3>3, <3>4, SingleMove, Zenon
  <2> QED
    BY <1>8, <2>2, <2>3, Zenon DEF HandleResend
<1>9. CASE HandleClose
  <2>1. cmd' = <<>> /\ buffer' = <<>> /\ buffered' = <<>> /\ pending' = {}
    BY <1>9, Zenon DEF HandleClose
  <2>2. Range(cmd') = {} /\ Range(buffer') = {} /\ Range(buffered') = {}
    BY <2>1, RangeFacts, Zenon
  <2>3. Sends' = {}
    BY <2>2, Zenon DEF Sends
  <2> QED
    BY <1>3, <2>1, <2>2, <2>3, Zenon DEF Single, Apart
<1>10. CASE BrokerExit(timer = "done")
  BY <1>10, SingleKept, Zenon DEF BrokerExit, brokerVars, Single, NoRepeat, Sends
<1> QED
  BY <1>4, <1>5, <1>6, <1>7, <1>8, <1>9, <1>10, Zenon DEF BrokerNext, BrokerStep

(* A call of send() numbers its message past every message there is.       *)
LEMMA SingleDispatch ==
    ASSUME TypeOK, CopiesAreFaithful, Single, NEW id \in OptIdentity, dispatch(id),
           UNCHANGED <<buffer, buffered, pending>>
    PROVE  Single'
<1> DEFINE k == Len(sent) + 1
           m == Send(id, k)
<1>1. k \in Nat /\ DOMAIN sent = 1..Len(sent) /\ Len(sent) \in Nat
  BY DEF TypeOK
<1>2. m \in Command /\ m.payload = k /\ m.type = "Send"
  BY <1>1, MessageTypes, Zenon DEF Send
<1>3. cmd' = Append(cmd, m) /\ cmd \in Seq(Command)
  BY Zenon DEF dispatch, SendCommand, TypeOK, ChannelsTypeOK
<1>4. Range(cmd') = Range(cmd) \cup {m}
  BY <1>2, <1>3, ChannelSets, Zenon
<1>5. \A x \in Sends \cup Range(buffer) \cup Range(buffered) \cup pending : x.payload # k
  <2>1. \A x \in Sends \cup Range(buffer) \cup Range(buffered) \cup pending : x.payload \in DOMAIN sent
    BY Zenon DEF CopiesAreFaithful, Sends
  <2> QED
    BY <1>1, <2>1
<1> HIDE DEF m, k
<1>6. Sends' = Sends \cup {m} /\ Sends' \cap Range(cmd) \subseteq Sends
  BY <1>2, <1>4, Zenon DEF Sends
<1>7. NoRepeat(Append(cmd, m), Sends')
  <2>1. \A x \in Range(cmd) : x \in Sends' => x.payload # m.payload
    BY <1>2, <1>5, <1>6, Zenon
  <2>2. NoRepeat(cmd, Sends)
    BY Zenon DEF Single
  <2> QED
    BY <1>2, <1>3, <1>6, <2>1, <2>2, NoRepeatAppend, Zenon
<1> QED
  BY <1>2, <1>3, <1>5, <1>6, <1>7, Zenon DEF Single, Apart

LEMMA SingleOthers ==
    ASSUME TypeOK, CopiesAreFaithful, Single,
           \/ AppStep \/ TimerNext
           \/ \E c \in Conn : SessionAdvance(c) \/ SessionEvent(c) \/ WriterNext(c) \/ EnvNext(c)
    PROVE  Single'
<1>1. UNCHANGED <<buffer, buffered, pending>>
  BY Zenon DEF AppStep, TimerNext, SessionAdvance, SessionEvent, WriterNext, EnvNext, brokerVars
<1>2. CASE UNCHANGED cmd
  BY <1>1, <1>2, SingleKept, Zenon DEF Single, NoRepeat, Sends
<1>3. ASSUME NEW m \in Command, m.type # "Send", SendCommand(m)
      PROVE  Single'
  BY <1>1, <1>3, SingleSend, SingleKept, Zenon
<1>4. ASSUME NEW id \in OptIdentity, dispatch(id)
      PROVE  Single'
  BY <1>1, <1>4, SingleDispatch, Zenon
<1> QED
  BY <1>2, <1>3, <1>4, CommandsSent, Zenon DEF NewCommand

(* The places of message k.                                                *)
LEMMA OnePlace ==
    ASSUME Single, NEW k
    PROVE  \A x, y \in Copies(k) : x = y
<1> DEFINE A == {i \in DOMAIN cmd : cmd[i].type = "Send" /\ cmd[i].payload = k}
           B == {i \in DOMAIN buffer : buffer[i].payload = k}
           C == {i \in DOMAIN buffered : buffered[i].payload = k}
           D == {r \in pending : r.payload = k}
<1>1. /\ \A i \in DOMAIN cmd : cmd[i] \in Range(cmd)
      /\ \A i \in DOMAIN buffer : buffer[i] \in Range(buffer)
      /\ \A i \in DOMAIN buffered : buffered[i] \in Range(buffered)
  BY Zenon DEF Range
<1>2. /\ \A i \in A : i \in DOMAIN cmd /\ cmd[i] \in Sends /\ cmd[i].payload = k
      /\ \A i \in B : i \in DOMAIN buffer /\ buffer[i] \in Range(buffer) /\ buffer[i].payload = k
      /\ \A i \in C : i \in DOMAIN buffered /\ buffered[i] \in Range(buffered) /\ buffered[i].payload = k
      /\ \A r \in D : r \in pending /\ r.payload = k
  BY <1>1, Zenon DEF Sends
<1>3. ASSUME NEW x \in Copies(k)
      PROVE  \/ \E i \in A : x = <<"cmd", i>>
             \/ \E i \in B : x = <<"buffer", i>>
             \/ \E i \in C : x = <<"buffered", i>>
             \/ \E r \in D : x = <<"pending", r>>
  BY Zenon DEF Copies
<1> HIDE DEF A, B, C, D
<1>4. /\ \A i, j \in A : i = j
      /\ \A i, j \in B : i = j
      /\ \A i, j \in C : i = j
      /\ \A q, r \in D : q = r
  BY <1>2, Zenon DEF Single, NoRepeat
<1>5. /\ A = {} \/ (B = {} /\ C = {} /\ D = {})
      /\ B = {} \/ (C = {} /\ D = {})
      /\ C = {} \/ D = {}
  BY <1>2 DEF Single, Apart
<1> QED
  BY <1>3, <1>4, <1>5, Zenon

(* The broker never holds two copies of a message, whatever resends,       *)
(* reconnections and acknowledgements happen.                              *)
THEOREM NoSecondCopy == Spec => []OneCustodian
<1>1. Init => Single
  <2> SUFFICES ASSUME Init PROVE Single
    BY Zenon
  <2>1. cmd = <<>> /\ buffer = <<>> /\ buffered = <<>> /\ pending = {}
    BY Zenon DEF Init, ChannelsInit, BrokerInit
  <2>2. Range(<<>>) = {}
    BY RangeFacts, Zenon
  <2> QED
    BY <2>1, <2>2, Zenon DEF Single, NoRepeat, Apart, Sends
<1>2. TypeOK /\ Custody /\ Single /\ [Next]_vars => Single'
  <2> SUFFICES ASSUME TypeOK, Custody, Single, [Next]_vars PROVE Single'
    BY Zenon
  <2>1. CASE UNCHANGED vars
    BY <2>1, SingleKept, Zenon DEF vars, Single, NoRepeat, Sends
  <2> QED
    BY <2>1, SingleBroker, SingleOthers, Zenon DEF Next, Terminated, Custody
<1>3. Single => OneCustodian
  BY OnePlace, Zenon DEF OneCustodian
<1> QED
  BY <1>1, <1>2, <1>3, TypeCorrect, CustodyHolds, PTL DEF Spec
=============================================================================
