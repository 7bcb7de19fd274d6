----------------------------- MODULE OrderProofs -----------------------------
(***************************************************************************)
(* Order in both directions: what is sent at most once leaves each         *)
(* connection in the order of the application's calls, and what a          *)
(* connection receives reaches the application in the order the peer sent  *)
(* it, with no gap and no repetition.                                      *)
(***************************************************************************)
EXTENDS CustodyProofs

LEMMA OrderTail ==
    ASSUME NEW T, NEW q \in Seq(T), q # <<>>, NEW S, InSendOrder(q, S), NEW R \in SUBSET S
    PROVE  /\ InSendOrder(Tail(q), R)
           /\ Head(q) \in S => \A m \in Range(Tail(q)) : m \in S => Head(q).payload < m.payload
<1> DEFINE t == Tail(q)
<1>1. /\ DOMAIN t = 1..(Len(q) - 1) /\ DOMAIN q = 1..Len(q) /\ Len(q) \in Nat \ {0}
      /\ \A i \in 1..(Len(q) - 1) : t[i] = q[i + 1] /\ i + 1 \in 1..Len(q)
      /\ Head(q) = q[1]
  OBVIOUS
<1> HIDE DEF t
<1>2. ASSUME NEW i \in DOMAIN t, NEW j \in DOMAIN t, i < j, t[i] \in R, t[j] \in R
      PROVE  t[i].payload < t[j].payload
  <2>1. /\ i + 1 \in DOMAIN q /\ t[i] = q[i + 1] /\ q[i + 1] \in S
        /\ j + 1 \in DOMAIN q /\ t[j] = q[j + 1] /\ q[j + 1] \in S
        /\ i + 1 < j + 1
    BY <1>1, <1>2
  <2> QED
    BY <2>1, Zenon DEF InSendOrder
<1>3. ASSUME q[1] \in S, NEW i \in DOMAIN t, t[i] \in S
      PROVE  q[1].payload < t[i].payload
  <2>1. i + 1 \in DOMAIN q /\ 1 \in DOMAIN q /\ 1 < i + 1 /\ t[i] = q[i + 1]
    BY <1>1
  <2> QED
    BY <1>3, <2>1, Zenon DEF InSendOrder
<1> QED
  BY <1>1, <1>2, <1>3, Zenon DEF Range, InSendOrder, t

LEMMA OrderAppend ==
    ASSUME NEW T, NEW q \in Seq(T), NEW S, InSendOrder(q, S), NEW e \in T,
           NEW R, R \cap Range(q) \subseteq S,
           e \in R => \A m \in Range(q) : m \in R => m.payload < e.payload
    PROVE  InSendOrder(Append(q, e), R)
<1> DEFINE t == Append(q, e)
<1>1. /\ DOMAIN t = 1..(Len(q) + 1) /\ DOMAIN q = 1..Len(q) /\ Len(q) \in Nat
      /\ \A i \in 1..Len(q) : t[i] = q[i]
      /\ t[Len(q) + 1] = e
  OBVIOUS
<1>2. \A i \in 1..Len(q) : q[i] \in Range(q)
  BY <1>1, Zenon DEF Range
<1> HIDE DEF t
<1> SUFFICES ASSUME NEW i \in DOMAIN t, NEW j \in DOMAIN t, i < j, t[i] \in R, t[j] \in R
             PROVE  t[i].payload < t[j].payload
  BY Zenon DEF InSendOrder, t
<1>3. i \in DOMAIN q /\ t[i] = q[i] /\ q[i] \in S /\ q[i] \in Range(q)
  BY <1>1, <1>2
<1>4. CASE j \in DOMAIN q
  <2>1. t[j] = q[j] /\ q[j] \in S
    BY <1>1, <1>2, <1>4, Zenon
  <2> QED
    BY <1>3, <1>4, <2>1, Zenon DEF InSendOrder
<1>5. CASE j = Len(q) + 1
  BY <1>1, <1>3, <1>5, Zenon
<1> QED
  BY <1>1, <1>4, <1>5

-----------------------------------------------------------------------------
(* Sending *)

(* Under at-most-once delivery nothing is pending, and the queues follow   *)
(* each other in the order of the calls.                                   *)
InLine ==
    /\ pending = {}
    /\ \A c \in Conn :
         /\ InSendOrder(writer_ch[c], FramesOf(c))
         /\ AheadOf(FramesOf(c), Range(buffered) \cup Range(buffer) \cup Sends)
         /\ \A f \in FramesOf(c) : f.payload \in DOMAIN sent
    /\ InSendOrder(buffered, Range(buffered))
    /\ AheadOf(Range(buffered), Range(buffer) \cup Sends)
    /\ InSendOrder(buffer, Range(buffer))
    /\ AheadOf(Range(buffer), Sends)
    /\ InSendOrder(cmd, Sends)

(* A step that only takes messages out.                                    *)
LEMMA InLineKept ==
    ASSUME InLine, UNCHANGED <<buffer, buffered, pending, sent>>,
           InSendOrder(cmd', Sends'), Sends' \subseteq Sends,
           \A c \in Conn : InSendOrder(writer_ch'[c], FramesOf(c)') /\ FramesOf(c)' \subseteq FramesOf(c)
    PROVE  InLine'
BY Zenon DEF InLine, AheadOf

LEMMA SameFrames ==
    ASSUME InLine, UNCHANGED writer_ch
    PROVE  \A c \in Conn : InSendOrder(writer_ch'[c], FramesOf(c)') /\ FramesOf(c)' = FramesOf(c)
BY Zenon DEF InLine, FramesOf

LEMMA SendsTail ==
    ASSUME TypeOK, InLine, cmd # <<>>, cmd' = Tail(cmd)
    PROVE  /\ InSendOrder(cmd', Sends') /\ Sends' \subseteq Sends
           /\ Head(cmd).type = "Send" => Head(cmd) \in Sends /\ AheadOf({Head(cmd)}, Sends')
<1>1. cmd \in Seq(Command) /\ Range(cmd) = {Head(cmd)} \cup Range(cmd')
  BY ChannelSets, Zenon DEF TypeOK, ChannelsTypeOK
<1>2. Sends' \subseteq Sends /\ Sends' \subseteq Range(cmd')
  BY <1>1, Zenon DEF Sends
<1>3. /\ InSendOrder(Tail(cmd), Sends')
      /\ Head(cmd) \in Sends => \A m \in Range(Tail(cmd)) : m \in Sends => Head(cmd).payload < m.payload
  BY <1>1, <1>2, OrderTail, Zenon DEF InLine
<1>4. Head(cmd).type = "Send" => Head(cmd) \in Sends
  BY <1>1, Zenon DEF Sends
<1> QED
  BY <1>2, <1>3, <1>4, Zenon DEF AheadOf

LEMMA SendsAppend ==
    ASSUME TypeOK, InLine, NEW m \in Command, m.type # "Send", SendCommand(m)
    PROVE  InSendOrder(cmd', Sends') /\ Sends' \subseteq Sends
<1>1. Range(cmd') \subseteq Range(cmd) \cup {m} /\ cmd \in Seq(Command)
  BY SendEffect, Zenon DEF TypeOK, ChannelsTypeOK
<1>2. Sends' \subseteq Sends /\ m \notin Sends'
  BY <1>1, Zenon DEF Sends
<1>3. CASE cmd' = cmd
  BY <1>2, <1>3, Zenon DEF InLine, InSendOrder, Sends
<1>4. CASE cmd' = Append(cmd, m)
  <2>1. InSendOrder(Append(cmd, m), Sends')
    BY <1>1, <1>2, OrderAppend, Zenon DEF InLine
  <2> QED
    BY <1>2, <1>4, <2>1, Zenon
<1> QED
  BY <1>3, <1>4, Zenon DEF SendCommand

(* route() appends one frame to some writer channels.                      *)
LEMMA FramesRouted ==
    ASSUME TypeOK, InLine, NEW target, NEW frame \in OutFrame, route(target, frame),
           frame.type # "ACK" => \A c \in Conn : \A f \in FramesOf(c) : f.payload < frame.payload
    PROVE  \A c \in Conn :
             /\ InSendOrder(writer_ch'[c], FramesOf(c)')
             /\ FramesOf(c)' \subseteq FramesOf(c) \cup {frame}
             /\ frame.type = "ACK" => FramesOf(c)' \subseteq FramesOf(c)
<1> SUFFICES ASSUME NEW c \in Conn
             PROVE  /\ InSendOrder(writer_ch'[c], FramesOf(c)')
                    /\ FramesOf(c)' \subseteq FramesOf(c) \cup {frame}
                    /\ frame.type = "ACK" => FramesOf(c)' \subseteq FramesOf(c)
  BY Zenon
<1>1. writer_ch'[c] = writer_ch[c] \/ writer_ch'[c] = Append(writer_ch[c], frame)
  BY Zenon DEF route
<1>2. writer_ch[c] \in Seq(OutFrame)
  BY Zenon DEF TypeOK, ChannelsTypeOK
<1>3. CASE writer_ch'[c] = writer_ch[c]
  BY <1>3, Zenon DEF InLine, FramesOf
<1>4. CASE writer_ch'[c] = Append(writer_ch[c], frame)
  <2>1. Range(writer_ch'[c]) = Range(writer_ch[c]) \cup {frame}
    BY <1>4, ChannelSets
  <2>2. /\ FramesOf(c)' \subseteq FramesOf(c) \cup {frame}
        /\ frame.type = "ACK" => FramesOf(c)' \subseteq FramesOf(c) /\ frame \notin FramesOf(c)'
        /\ FramesOf(c)' \cap Range(writer_ch[c]) \subseteq FramesOf(c)
    BY <2>1, Zenon DEF FramesOf
  <2>3. frame \in FramesOf(c)' => \A m \in Range(writer_ch[c]) : m \in FramesOf(c)' => m.payload < frame.payload
    BY <2>2, Zenon
  <2>4. InSendOrder(writer_ch[c], FramesOf(c))
    BY Zenon DEF InLine
  <2>5. InSendOrder(Append(writer_ch[c], frame), FramesOf(c)')
    BY <1>2, <2>2, <2>3, <2>4, OrderAppend, Zenon
  <2> QED
    BY <1>4, <2>2, <2>5, Zenon
<1> QED
  BY <1>1, <1>3, <1>4, Zenon

(* handle_send takes the message whose turn it is.                         *)
LEMMA InLineHandleSend ==
    ASSUME TypeOK, Delivery = "AtMostOnce", InLine, BufferedMeansNoPeer,
           NEW id \in OptIdentity, NEW k \in DOMAIN sent, handle_send(id, k), UNCHANGED sent,
           InSendOrder(cmd', Sends'), Sends' \subseteq Sends,
           InSendOrder(buffered', Range(buffered')), Range(buffered') \subseteq Range(buffered),
           NoConns => Range(buffered') = {},
           \A m \in Range(buffered') \cup Sends' : k < m.payload,
           \A c \in Conn : \A f \in FramesOf(c) : f.payload < k,
           NoConns => \A m \in Range(buffer) : m.payload < k
    PROVE  InLine'
<1>1. k \in Nat
  BY DEF TypeOK
<1>2. CASE NoConns
  <2> DEFINE new == [identity |-> id, payload |-> k]
  <2>1. buffer' = Append(buffer, new) /\ UNCHANGED <<pending, writer_ch>>
    BY <1>2, Zenon DEF handle_send
  <2>2. new \in Message /\ new.payload = k /\ buffer \in Seq(Message)
    BY <1>1, Zenon DEF Message, TypeOK, BrokerTypeOK
  <2>3. Range(buffer') = Range(buffer) \cup {new}
    BY <2>1, <2>2, ChannelSets, Zenon
  <2> HIDE DEF new
  <2>4. InSendOrder(Append(buffer, new), Range(buffer'))
    <3>1. Range(buffer') \cap Range(buffer) \subseteq Range(buffer)
      BY Zenon
    <3>2. \A m \in Range(buffer) : m.payload < new.payload
      BY <1>2, <2>2, Zenon
    <3>3. InSendOrder(buffer, Range(buffer))
      BY Zenon DEF InLine
    <3> QED
      BY <2>2, <3>1, <3>2, <3>3, OrderAppend, Zenon
  <2>5. \A c \in Conn : InSendOrder(writer_ch'[c], FramesOf(c)') /\ FramesOf(c)' = FramesOf(c)
    BY <2>1, SameFrames, Zenon
  <2>6. \A c \in Conn : AheadOf(FramesOf(c)', (Range(buffered) \cup Range(buffer) \cup Sends)')
    BY <2>2, <2>3, <2>5, Zenon DEF InLine, AheadOf
  <2>7. AheadOf(Range(buffer'), Sends')
    BY <2>2, <2>3, Zenon DEF InLine, AheadOf
  <2> QED
    BY <1>2, <2>1, <2>4, <2>5, <2>6, <2>7, Zenon DEF InLine, AheadOf
<1>3. CASE ~NoConns
  <2>1. /\ route(id, data(k)) /\ pending' = pending /\ UNCHANGED buffer
        /\ buffer = <<>> /\ Range(buffer) = {}
    BY <1>3, RangeFacts, Zenon DEF handle_send, transmit, at_least_once, BufferedMeansNoPeer
  <2>2. data(k) \in OutFrame /\ data(k).payload = k /\ data(k).type # "ACK"
    BY <1>1, MessageTypes, Zenon DEF data
  <2>3. \A c \in Conn : /\ InSendOrder(writer_ch'[c], FramesOf(c)')
                        /\ FramesOf(c)' \subseteq FramesOf(c) \cup {data(k)}
    BY <2>1, <2>2, FramesRouted
  <2>4. \A c \in Conn : AheadOf(FramesOf(c)', (Range(buffered) \cup Range(buffer) \cup Sends)')
    BY <2>1, <2>2, <2>3, Zenon DEF InLine, AheadOf
  <2>5. \A c \in Conn : \A f \in FramesOf(c)' : f.payload \in DOMAIN sent'
    BY <2>2, <2>3, Zenon DEF InLine
  <2>6. AheadOf(Range(buffered'), Range(buffer') \cup Sends') /\ AheadOf(Range(buffer'), Sends')
    BY <2>1, Zenon DEF InLine, AheadOf
  <2> QED
    BY <2>1, <2>3, <2>4, <2>5, <2>6, Zenon DEF InLine
<1> QED
  BY <1>2, <1>3, Zenon

LEMMA InLineBroker ==
    ASSUME TypeOK, Delivery = "AtMostOnce", CopiesAreFaithful, BufferedMeansNoPeer, FlushHasPeer,
           InLine, BrokerNext
    PROVE  InLine'
<1>1. ASSUME NEW type, BrokerRecv(type)
      PROVE  /\ Head(cmd) \in Command /\ Head(cmd).type = type
             /\ buffered = <<>> /\ Range(buffered) = {}
             /\ InSendOrder(cmd', Sends') /\ Sends' \subseteq Sends
             /\ type = "Send" => Head(cmd) \in Sends /\ AheadOf({Head(cmd)}, Sends')
  BY <1>1, SendsTail, RangeFacts, Zenon DEF BrokerRecv, TypeOK, ChannelsTypeOK
<1>2. UNCHANGED sent
  BY Zenon DEF BrokerNext, appVars
<1>3. InSendOrder(<<>>, {})
  BY Zenon DEF InSendOrder
<1>4. CASE HandleSend
  <2> DEFINE id == Head(cmd).identity
             k == Head(cmd).payload
  <2>1. /\ handle_send(id, k) /\ UNCHANGED buffered /\ id \in OptIdentity
        /\ Range(buffered) = {}
        /\ InSendOrder(cmd', Sends') /\ Sends' \subseteq Sends
        /\ Head(cmd) \in Sends /\ AheadOf({Head(cmd)}, Sends')
    BY <1>1, <1>4, CommandFields, Zenon DEF HandleSend
  <2>2. k \in DOMAIN sent
    BY <2>1, Zenon DEF CopiesAreFaithful, Sends
  <2>3. InSendOrder(buffered', Range(buffered')) /\ Range(buffered') = {}
    BY <2>1, Zenon DEF InLine
  <2>4. /\ \A m \in Range(buffered') \cup Sends' : k < m.payload
        /\ \A c \in Conn : \A f \in FramesOf(c) : f.payload < k
        /\ \A m \in Range(buffer) : m.payload < k
    BY <2>1, <2>3, Zenon DEF InLine, AheadOf
  <2> HIDE DEF id, k
  <2> QED
    BY <1>2, <2>1, <2>2, <2>3, <2>4, InLineHandleSend, Zenon
<1>5. CASE HandleBuffered
  <2> DEFINE id == Head(buffered).identity
             k == Head(buffered).payload
  <2>1. /\ buffered # <<>> /\ buffered' = Tail(buffered) /\ buffered \in Seq(Message)
        /\ handle_send(id, k) /\ UNCHANGED cmd
    BY <1>5, Zenon DEF HandleBuffered, TypeOK, BrokerTypeOK
  <2>2. Head(buffered) \in Message
    BY <2>1
  <2>3. id \in OptIdentity
    BY <2>2, Zenon DEF Message
  <2>4. Range(buffered) = {Head(buffered)} \cup Range(buffered')
    BY <2>1, ChannelSets, Zenon
  <2>5. k \in DOMAIN sent
    BY <2>4, Zenon DEF CopiesAreFaithful
  <2>6. /\ InSendOrder(buffered', Range(buffered'))
        /\ \A m \in Range(buffered') : k < m.payload
    <3>1. Range(buffered') \in SUBSET Range(buffered) /\ Head(buffered) \in Range(buffered)
      BY <2>4, Zenon
    <3>2. InSendOrder(buffered, Range(buffered))
      BY Zenon DEF InLine
    <3>3. /\ InSendOrder(Tail(buffered), Range(buffered'))
          /\ \A m \in Range(Tail(buffered)) : m \in Range(buffered) => Head(buffered).payload < m.payload
      BY <2>1, <3>1, <3>2, OrderTail, Zenon
    <3> QED
      BY <2>1, <3>1, <3>3, Zenon
  <2>7. Sends' = Sends /\ InSendOrder(cmd', Sends')
    BY <2>1, Zenon DEF Sends, InLine, InSendOrder
  <2>8. /\ \A m \in Range(buffered') \cup Sends' : k < m.payload
        /\ \A c \in Conn : \A f \in FramesOf(c) : f.payload < k
    BY <2>4, <2>6, <2>7, Zenon DEF InLine, AheadOf
  <2>9. ~NoConns
    BY <2>1, Zenon DEF FlushHasPeer
  <2> HIDE DEF id, k
  <2> QED
    BY <1>2, <2>1, <2>3, <2>4, <2>5, <2>6, <2>7, <2>8, <2>9, InLineHandleSend, Zenon
<1>6. CASE HandleUp
  <2>1. /\ UNCHANGED <<pending, writer_ch>> /\ Range(buffered) = {}
        /\ InSendOrder(cmd', Sends') /\ Sends' \subseteq Sends
        /\ UNCHANGED <<buffer, buffered>> \/ (buffered' = buffer /\ buffer' = <<>>)
    BY <1>1, <1>6, Zenon DEF HandleUp
  <2>2. \A c \in Conn : InSendOrder(writer_ch'[c], FramesOf(c)') /\ FramesOf(c)' = FramesOf(c)
    BY <2>1, SameFrames, Zenon
  <2>3. CASE UNCHANGED <<buffer, buffered>>
    BY <1>2, <2>1, <2>2, <2>3, InLineKept, Zenon
  <2>4. CASE buffered' = buffer /\ buffer' = <<>>
    <3>1. Range(buffer') = {} /\ InSendOrder(buffer', Range(buffer'))
      BY <1>3, <2>4, RangeFacts, Zenon
    <3>2. InSendOrder(buffered', Range(buffered')) /\ Range(buffered') = Range(buffer)
      BY <2>4, Zenon DEF InLine
    <3> QED
      BY <1>2, <2>1, <2>2, <2>4, <3>1, <3>2, Zenon DEF InLine, AheadOf
  <2> QED
    BY <2>1, <2>3, <2>4, Zenon
<1>7. CASE HandleDown \/ HandleResend
  <2>1. /\ UNCHANGED <<buffer, buffered, pending, writer_ch>>
        /\ InSendOrder(cmd', Sends') /\ Sends' \subseteq Sends
    BY <1>1, <1>7, Zenon DEF HandleDown, HandleResend, InLine
  <2> QED
    BY <1>2, <2>1, SameFrames, InLineKept, Zenon
<1>8. CASE HandleReceived
  <2>1. /\ UNCHANGED <<buffer, buffered, pending>>
        /\ InSendOrder(cmd', Sends') /\ Sends' \subseteq Sends
        /\ Head(cmd) \in Command /\ Head(cmd).type = "Received"
    BY <1>1, <1>8, Zenon DEF HandleReceived, InLine
  <2>2. CASE UNCHANGED writer_ch
    BY <1>2, <2>1, <2>2, SameFrames, InLineKept, Zenon
  <2>3. CASE Head(cmd).envelope.type = "DATA_REQ" /\ route(Head(cmd).identity, ack(Head(cmd).envelope.id))
    <3>1. Head(cmd).envelope \in InFrame
      BY <2>1, CommandFields, Zenon
    <3>2. ack(Head(cmd).envelope.id) \in OutFrame /\ ack(Head(cmd).envelope.id).type = "ACK"
      BY <2>3, <3>1, InFrameFields, MessageTypes, Zenon DEF ack
    <3>3. \A c \in Conn : InSendOrder(writer_ch'[c], FramesOf(c)') /\ FramesOf(c)' \subseteq FramesOf(c)
      BY <2>3, <3>2, FramesRouted, Zenon
    <3> QED
      BY <1>2, <2>1, <3>3, InLineKept, Zenon
  <2> QED
    BY <1>8, <2>2, <2>3, Zenon DEF HandleReceived
<1>9. CASE HandleClose
  <2>1. cmd' = <<>> /\ buffer' = <<>> /\ buffered' = <<>> /\ pending' = {} /\ UNCHANGED writer_ch
    BY <1>9, Zenon DEF HandleClose
  <2>2. Range(cmd') = {} /\ Range(buffer') = {} /\ Range(buffered') = {}
    BY <2>1, RangeFacts, Zenon
  <2>3. Sends' = {}
    BY <2>2, Zenon DEF Sends
  <2>4. \A c \in Conn : InSendOrder(writer_ch'[c], FramesOf(c)') /\ FramesOf(c)' = FramesOf(c)
    BY <2>1, SameFrames, Zenon
  <2> QED
    BY <1>2, <1>3, <2>1, <2>2, <2>3, <2>4, Zenon DEF InLine, AheadOf
<1>10. CASE BrokerExit(timer = "done")
  <2>1. UNCHANGED <<cmd, buffer, buffered, pending, writer_ch>>
    BY <1>10, Zenon DEF BrokerExit, brokerVars
  <2>2. InSendOrder(cmd', Sends') /\ Sends' = Sends
    BY <2>1, Zenon DEF InLine, InSendOrder, Sends
  <2> QED
    BY <1>2, <2>1, <2>2, SameFrames, InLineKept, Zenon
<1> QED
  BY <1>4, <1>5, <1>6, <1>7, <1>8, <1>9, <1>10, Zenon DEF BrokerNext, BrokerStep

(* A call of send() joins the end of the line.                             *)
LEMMA InLineDispatch ==
    ASSUME TypeOK, CopiesAreFaithful, InLine, NEW id \in OptIdentity, dispatch(id),
           UNCHANGED <<buffer, buffered, pending>>
    PROVE  InLine'
<1> DEFINE k == Len(sent) + 1
           m == Send(id, k)
<1>1. /\ k \in Nat /\ DOMAIN sent = 1..Len(sent) /\ Len(sent) \in Nat
      /\ DOMAIN sent' = 1..k /\ UNCHANGED writer_ch
  BY DEF TypeOK, dispatch
<1>2. m \in Command /\ m.payload = k /\ m.type = "Send"
  BY <1>1, MessageTypes, Zenon DEF Send
<1>3. cmd' = Append(cmd, m) /\ cmd \in Seq(Command)
  BY Zenon DEF dispatch, SendCommand, TypeOK, ChannelsTypeOK
<1>4. Range(cmd') = Range(cmd) \cup {m}
  BY <1>2, <1>3, ChannelSets, Zenon
<1>5. /\ \A x \in Sends \cup Range(buffer) \cup Range(buffered) : x.payload < k
      /\ \A c \in Conn : \A f \in FramesOf(c) : f.payload < k /\ f.payload \in DOMAIN sent'
  <2>1. /\ \A x \in Sends \cup Range(buffer) \cup Range(buffered) : x.payload \in DOMAIN sent
        /\ \A c \in Conn : \A f \in FramesOf(c) : f.payload \in DOMAIN sent
    BY Zenon DEF CopiesAreFaithful, Sends, InLine
  <2> QED
    BY <1>1, <2>1
<1> HIDE DEF m, k
<1>6. Sends' = Sends \cup {m} /\ Sends' \cap Range(cmd) \subseteq Sends
  BY <1>2, <1>4, Zenon DEF Sends
<1>7. InSendOrder(Append(cmd, m), Sends')
  <2>1. \A x \in Range(cmd) : x \in Sends' => (x.payload < m.payload \/ x = m)
    BY <1>2, <1>5, <1>6, Zenon
  <2>2. m \notin Range(cmd)
    <3>1. m \in Range(cmd) => m \in Sends
      BY <1>2, Zenon DEF Sends
    <3>2. ~(k < k)
      BY <1>1
    <3> QED
      BY <1>2, <1>5, <3>1, <3>2, Zenon
  <2>3. InSendOrder(cmd, Sends)
    BY Zenon DEF InLine
  <2> QED
    BY <1>2, <1>3, <1>6, <2>1, <2>2, <2>3, OrderAppend
<1>8. \A c \in Conn : InSendOrder(writer_ch'[c], FramesOf(c)') /\ FramesOf(c)' = FramesOf(c)
  BY <1>1, SameFrames, Zenon
<1>9. \A c \in Conn : AheadOf(FramesOf(c)', (Range(buffered) \cup Range(buffer) \cup Sends)')
  BY <1>2, <1>5, <1>6, <1>8, Zenon DEF InLine, AheadOf
<1>10. AheadOf(Range(buffered'), Range(buffer') \cup Sends') /\ AheadOf(Range(buffer'), Sends')
  BY <1>2, <1>5, <1>6, Zenon DEF InLine, AheadOf
<1> QED
  BY <1>3, <1>5, <1>7, <1>8, <1>9, <1>10, Zenon DEF InLine

(* A connection takes frames out of its writer channel, from the front or  *)
(* all at once.                                                            *)
LEMMA FramesTaken ==
    ASSUME TypeOK, InLine, NEW c \in Conn,
           SessionAdvance(c) \/ SessionEvent(c) \/ WriterNext(c) \/ EnvNext(c)
    PROVE  \A d \in Conn : InSendOrder(writer_ch'[d], FramesOf(d)') /\ FramesOf(d)' \subseteq FramesOf(d)
<1>1. CASE UNCHANGED writer_ch
  BY <1>1, SameFrames, Zenon
<1>2. CASE Rejected(c) \/ WriterEnd(c, SenderDropped(c))
  <2> SUFFICES ASSUME NEW d \in Conn
               PROVE  InSendOrder(writer_ch'[d], FramesOf(d)') /\ FramesOf(d)' \subseteq FramesOf(d)
    BY Zenon
  <2>1. writer_ch'[d] = writer_ch[d] \/ writer_ch'[d] = <<>>
    BY <1>2, Zenon DEF Rejected, WriterEnd, TypeOK, ChannelsTypeOK
  <2>2. CASE writer_ch'[d] = writer_ch[d]
    BY <2>2, Zenon DEF InLine, FramesOf
  <2>3. CASE writer_ch'[d] = <<>>
    <3>1. FramesOf(d)' = {}
      BY <2>3, RangeFacts, Zenon DEF FramesOf
    <3> QED
      BY <2>3, <3>1, Zenon DEF InSendOrder
  <2> QED
    BY <2>1, <2>2, <2>3, Zenon
<1>3. CASE WriterWrite(c)
  <2> SUFFICES ASSUME NEW d \in Conn
               PROVE  InSendOrder(writer_ch'[d], FramesOf(d)') /\ FramesOf(d)' \subseteq FramesOf(d)
    BY Zenon
  <2>1. /\ writer_ch[d] \in Seq(OutFrame) /\ writer_ch[c] # <<>>
        /\ writer_ch'[d] = IF d = c THEN Tail(writer_ch[c]) ELSE writer_ch[d]
    BY <1>3, Zenon DEF WriterWrite, TypeOK, ChannelsTypeOK
  <2>2. CASE d # c
    BY <2>1, <2>2, Zenon DEF InLine, FramesOf
  <2>3. CASE d = c
    <3>1. Range(writer_ch'[d]) \subseteq Range(writer_ch[d])
      BY <2>1, <2>3, ChannelSets, Zenon
    <3>2. FramesOf(d)' \subseteq FramesOf(d)
      BY <3>1, Zenon DEF FramesOf
    <3>3. InSendOrder(writer_ch[d], FramesOf(d))
      BY Zenon DEF InLine
    <3>4. InSendOrder(Tail(writer_ch[d]), FramesOf(d)')
      BY <2>1, <2>3, <3>2, <3>3, OrderTail, Zenon
    <3> QED
      BY <2>1, <2>3, <3>2, <3>4, Zenon
  <2> QED
    BY <2>2, <2>3, Zenon
<1> QED
  BY <1>1, <1>2, <1>3, Zenon
     DEF SessionAdvance, SessionEvent, WriterNext, EnvNext, Register, Accepted, ReaderForward,
         ReaderEnd, JoinWriter, LinkBreak, RemoteSend, channels

LEMMA InLineOthers ==
    ASSUME TypeOK, CopiesAreFaithful, InLine,
           \/ AppStep \/ TimerNext
           \/ \E c \in Conn : SessionAdvance(c) \/ SessionEvent(c) \/ WriterNext(c) \/ EnvNext(c)
    PROVE  InLine'
<1>1. UNCHANGED <<buffer, buffered, pending>>
  BY Zenon DEF AppStep, TimerNext, SessionAdvance, SessionEvent, WriterNext, EnvNext, brokerVars
<1>2. ASSUME NEW id \in OptIdentity, dispatch(id)
      PROVE  InLine'
  BY <1>1, <1>2, InLineDispatch, Zenon
<1>3. (\E id \in OptIdentity : dispatch(id)) \/ (InSendOrder(cmd', Sends') /\ Sends' \subseteq Sends)
  <2>1. CASE UNCHANGED cmd
    BY <2>1, Zenon DEF InLine, InSendOrder, Sends
  <2>2. CASE NewCommand
    BY <2>2, SendsAppend, Zenon DEF NewCommand
  <2> QED
    BY <2>1, <2>2, CommandsSent, Zenon
<1>4. (\E id \in OptIdentity : dispatch(id)) \/ UNCHANGED sent
  BY Zenon DEF AppStep, close, TimerNext, SessionAdvance, SessionEvent, WriterNext, EnvNext, appVars
<1>5. \A d \in Conn : InSendOrder(writer_ch'[d], FramesOf(d)') /\ FramesOf(d)' \subseteq FramesOf(d)
  <2>1. CASE AppStep \/ TimerNext
    <3>1. UNCHANGED writer_ch
      BY <2>1, Zenon DEF AppStep, close, dispatch, TimerNext, TimerStep, TimerArm, TimerCancel,
                  TimerShutdown, TimerRecv, TimerFire
    <3> QED
      BY <3>1, SameFrames, Zenon
  <2> QED
    BY <2>1, FramesTaken, Zenon
<1> QED
  BY <1>1, <1>2, <1>3, <1>4, <1>5, InLineKept, Zenon

(* Nothing overtakes under at-most-once delivery, for any number of peers, *)
(* connections and messages: what is sent while nobody is connected is     *)
(* flushed in the order of the calls and before anything sent later.       *)
THEOREM NoOvertaking == Spec => []NothingOvertakes
<1> DEFINE I == Delivery = "AtMostOnce" => InLine
<1>1. Init => I
  <2> SUFFICES ASSUME Init PROVE InLine
    BY Zenon
  <2>1. /\ cmd = <<>> /\ buffer = <<>> /\ buffered = <<>> /\ pending = {}
        /\ \A c \in Conn : writer_ch[c] = <<>>
    BY Zenon DEF Init, ChannelsInit, BrokerInit
  <2>2. Range(<<>>) = {} /\ InSendOrder(<<>>, {})
    BY RangeFacts, Zenon DEF InSendOrder
  <2>3. Sends = {} /\ \A c \in Conn : FramesOf(c) = {}
    BY <2>1, <2>2, Zenon DEF Sends, FramesOf
  <2> QED
    BY <2>1, <2>2, <2>3, Zenon DEF InLine, AheadOf
<1>2. TypeOK /\ Custody /\ BufferedMeansNoPeer /\ FlushHasPeer /\ I /\ [Next]_vars => I'
  <2> SUFFICES ASSUME TypeOK, Custody, BufferedMeansNoPeer, FlushHasPeer, [Next]_vars,
                      Delivery = "AtMostOnce", InLine
               PROVE  InLine'
    BY Zenon
  <2>1. CASE UNCHANGED vars
    <3>1. UNCHANGED <<cmd, writer_ch, buffer, buffered, pending, sent>>
      BY <2>1, Zenon DEF vars
    <3>2. InSendOrder(cmd', Sends') /\ Sends' = Sends
      BY <3>1, Zenon DEF InLine, InSendOrder, Sends
    <3> QED
      BY <3>1, <3>2, SameFrames, InLineKept, Zenon
  <2> QED
    BY <2>1, InLineBroker, InLineOthers, Zenon DEF Next, Terminated, Custody
<1>3. I => NothingOvertakes
  BY Zenon DEF InLine, NothingOvertakes
<1> QED
  BY <1>1, <1>2, <1>3, TypeCorrect, CustodyHolds, BufferWaitsForPeer, PTL DEF Spec

-----------------------------------------------------------------------------
(* Receiving *)

(* A command that brings the application a message of a peer.              *)
Carries(m) == m.type = "Received" /\ m.envelope.type # "ACK"

(* The n-th message of the peer on c is with the reader, with the broker,  *)
(* or with the application.                                                *)
Coming(c, n) == \E f \in Range(inbound[c]) : f.type # "ACK" /\ f.payload[2] = n

Waiting(c, n) ==
    \E m \in Range(cmd) : Carries(m) /\ m.envelope.payload[1] = c /\ m.envelope.payload[2] = n

Taken(c, n) ==
    \E i \in DOMAIN received : received[i].payload[1] = c /\ received[i].payload[2] = n

InboundInOrder(c) ==
    \A i, j \in DOMAIN inbound[c] :
        i < j /\ inbound[c][i].type # "ACK" /\ inbound[c][j].type # "ACK"
            => inbound[c][i].payload[2] < inbound[c][j].payload[2]

CmdInOrder ==
    \A i, j \in DOMAIN cmd :
        (/\ i < j /\ Carries(cmd[i]) /\ Carries(cmd[j])
         /\ cmd[i].envelope.payload[1] = cmd[j].envelope.payload[1])
            => cmd[i].envelope.payload[2] < cmd[j].envelope.payload[2]

(* The inductive invariant: every message of a peer is at one of the three *)
(* stages while the broker runs, and a later stage holds earlier ones.     *)
InTurn ==
    /\ ReceiveInOrder
    /\ \A c \in Conn : \A f \in Range(inbound[c]) : f.type # "ACK" => f.payload[1] = c
    /\ \A c \in Conn : InboundInOrder(c)
    /\ CmdInOrder
    /\ \A c \in Conn : \A n, k \in Nat :
         /\ Waiting(c, n) /\ Coming(c, k) => n < k
         /\ Taken(c, n) /\ (Waiting(c, k) \/ Coming(c, k)) => n < k
    /\ \A c \in Conn, n \in Nat :
         /\ Coming(c, n) \/ Waiting(c, n) \/ Taken(c, n) => n \in 1..remote_n[c]
         /\ broker = "running" /\ n \in 1..remote_n[c] => Coming(c, n) \/ Waiting(c, n) \/ Taken(c, n)

(* What an envelope that carries a message carries.                        *)
LEMMA CarriedTypes ==
    ASSUME TypeOK
    PROVE  /\ \A m \in Range(cmd) : Carries(m) => m.envelope.payload \in RemoteMsg
           /\ \A c \in Conn : \A f \in Range(inbound[c]) : f.type # "ACK" => f.payload \in RemoteMsg
           /\ \A p \in RemoteMsg : p[1] \in Conn /\ p[2] \in Nat /\ p = <<p[1], p[2]>>
<1>1. \A p \in RemoteMsg : p[1] \in Conn /\ p[2] \in Nat /\ p = <<p[1], p[2]>>
  BY DEF RemoteMsg
<1>2. \A f \in InFrame : f.type # "ACK" => f.payload \in RemoteMsg
  BY InFrameFields, Zenon
<1>3. ASSUME NEW m \in Range(cmd), Carries(m)
      PROVE  m.envelope.payload \in RemoteMsg
  <2>1. m \in Command
    BY ChannelSets, Zenon
  <2>2. m.envelope \in InFrame
    BY <1>3, <2>1, CommandFields, Zenon DEF Carries
  <2> QED
    BY <1>2, <1>3, <2>2, Zenon DEF Carries
<1>4. \A c \in Conn : Range(inbound[c]) \subseteq InFrame
  BY ChannelSets, Zenon
<1> QED
  BY <1>1, <1>2, <1>3, <1>4, Zenon

LEMMA CmdTail ==
    ASSUME TypeOK, CmdInOrder, cmd # <<>>, cmd' = Tail(cmd)
    PROVE  /\ CmdInOrder'
           /\ Carries(Head(cmd)) =>
                \A m \in Range(cmd') :
                    Carries(m) /\ Head(cmd).envelope.payload[1] = m.envelope.payload[1]
                        => Head(cmd).envelope.payload[2] < m.envelope.payload[2]
<1>1. /\ DOMAIN cmd' = 1..(Len(cmd) - 1) /\ DOMAIN cmd = 1..Len(cmd) /\ Len(cmd) \in Nat \ {0}
      /\ \A i \in 1..(Len(cmd) - 1) : cmd'[i] = cmd[i + 1] /\ i + 1 \in 1..Len(cmd)
      /\ Head(cmd) = cmd[1]
  BY DEF TypeOK, ChannelsTypeOK
<1>2. ASSUME NEW i \in DOMAIN cmd', NEW j \in DOMAIN cmd', i < j, Carries(cmd'[i]), Carries(cmd'[j]),
             cmd'[i].envelope.payload[1] = cmd'[j].envelope.payload[1]
      PROVE  cmd'[i].envelope.payload[2] < cmd'[j].envelope.payload[2]
  <2>1. /\ i + 1 \in DOMAIN cmd /\ cmd'[i] = cmd[i + 1]
        /\ j + 1 \in DOMAIN cmd /\ cmd'[j] = cmd[j + 1]
        /\ i + 1 < j + 1
    BY <1>1, <1>2
  <2> QED
    BY <1>2, <2>1, Zenon DEF CmdInOrder
<1>3. ASSUME NEW j \in DOMAIN cmd', Carries(cmd[1]), Carries(cmd'[j]),
             cmd[1].envelope.payload[1] = cmd'[j].envelope.payload[1]
      PROVE  cmd[1].envelope.payload[2] < cmd'[j].envelope.payload[2]
  <2>1. 1 \in DOMAIN cmd /\ j + 1 \in DOMAIN cmd /\ cmd'[j] = cmd[j + 1] /\ 1 < j + 1
    BY <1>1
  <2> QED
    BY <1>3, <2>1, Zenon DEF CmdInOrder
<1> QED
  BY <1>1, <1>2, <1>3 DEF CmdInOrder, Carries, Range

LEMMA CmdAppend ==
    ASSUME TypeOK, CmdInOrder, NEW m \in Command, SendCommand(m),
           Carries(m) => \A x \in Range(cmd) :
               Carries(x) /\ x.envelope.payload[1] = m.envelope.payload[1]
                   => x.envelope.payload[2] < m.envelope.payload[2]
    PROVE  CmdInOrder'
<1>1. CASE cmd' = cmd
  BY <1>1, Zenon DEF CmdInOrder, Carries
<1>2. CASE cmd' = Append(cmd, m)
  <2>1. /\ DOMAIN cmd' = 1..(Len(cmd) + 1) /\ DOMAIN cmd = 1..Len(cmd) /\ Len(cmd) \in Nat
        /\ \A i \in 1..Len(cmd) : cmd'[i] = cmd[i] /\ cmd[i] \in Range(cmd)
        /\ cmd'[Len(cmd) + 1] = m
    BY <1>2 DEF TypeOK, ChannelsTypeOK, Range
  <2>2. ASSUME NEW i \in DOMAIN cmd', NEW j \in DOMAIN cmd', i < j, Carries(cmd'[i]), Carries(cmd'[j]),
               cmd'[i].envelope.payload[1] = cmd'[j].envelope.payload[1]
        PROVE  cmd'[i].envelope.payload[2] < cmd'[j].envelope.payload[2]
    <3>1. i \in DOMAIN cmd /\ cmd'[i] = cmd[i] /\ cmd[i] \in Range(cmd)
      BY <2>1, <2>2
    <3>2. CASE j \in DOMAIN cmd
      <4>1. cmd'[j] = cmd[j]
        BY <2>1, <3>2, Zenon
      <4> QED
        BY <2>2, <3>1, <3>2, <4>1, Zenon DEF CmdInOrder
    <3>3. CASE j = Len(cmd) + 1
      BY <2>1, <2>2, <3>1, <3>3, Zenon
    <3> QED
      BY <2>1, <3>2, <3>3
  <2> QED
    BY <2>2, Zenon DEF CmdInOrder, Carries
<1> QED
  BY <1>1, <1>2, Zenon DEF SendCommand

(* A step that takes no message from one stage to the next.                *)
LEMMA InTurnKept ==
    ASSUME InTurn, UNCHANGED <<received, remote_n>>, broker' = "running" => broker = "running",
           \A c \in Conn : InboundInOrder(c)',
           \A c \in Conn : \A f \in Range(inbound'[c]) : f.type # "ACK" => f \in Range(inbound[c]),
           \A c \in Conn : \A f \in Range(inbound[c]) : f.type # "ACK" => f \in Range(inbound'[c]),
           CmdInOrder',
           \A m \in Range(cmd') : Carries(m) => m \in Range(cmd),
           broker' = "running" => \A m \in Range(cmd) : Carries(m) => m \in Range(cmd')
    PROVE  InTurn'
<1>1. ReceiveInOrder'
  BY Zenon DEF InTurn, ReceiveInOrder
<1>2. \A c \in Conn : \A n \in Nat :
        /\ Coming(c, n)' <=> Coming(c, n)
        /\ Waiting(c, n)' => Waiting(c, n)
        /\ broker' = "running" /\ Waiting(c, n) => Waiting(c, n)'
        /\ Taken(c, n)' <=> Taken(c, n)
  BY Zenon DEF Coming, Waiting, Taken, Carries
<1> QED
  BY <1>1, <1>2, Zenon DEF InTurn

LEMMA InboundTail ==
    ASSUME TypeOK, NEW c \in Conn, InboundInOrder(c), inbound[c] # <<>>, inbound'[c] = Tail(inbound[c])
    PROVE  /\ InboundInOrder(c)'
           /\ Head(inbound[c]).type # "ACK" =>
                \A f \in Range(inbound'[c]) :
                    f.type # "ACK" => Head(inbound[c]).payload[2] < f.payload[2]
<1> DEFINE q == inbound[c]
<1>1. /\ DOMAIN inbound'[c] = 1..(Len(q) - 1) /\ DOMAIN q = 1..Len(q) /\ Len(q) \in Nat \ {0}
      /\ \A i \in 1..(Len(q) - 1) : inbound'[c][i] = q[i + 1] /\ i + 1 \in 1..Len(q)
      /\ Head(q) = q[1]
  BY DEF TypeOK, ConnectionTypeOK
<1>2. ASSUME NEW i \in DOMAIN inbound'[c], NEW j \in DOMAIN inbound'[c], i < j,
             inbound'[c][i].type # "ACK", inbound'[c][j].type # "ACK"
      PROVE  inbound'[c][i].payload[2] < inbound'[c][j].payload[2]
  <2>1. /\ i + 1 \in DOMAIN q /\ inbound'[c][i] = q[i + 1]
        /\ j + 1 \in DOMAIN q /\ inbound'[c][j] = q[j + 1]
        /\ i + 1 < j + 1
    BY <1>1, <1>2
  <2> QED
    BY <1>2, <2>1, Zenon DEF InboundInOrder
<1>3. ASSUME NEW j \in DOMAIN inbound'[c], q[1].type # "ACK", inbound'[c][j].type # "ACK"
      PROVE  q[1].payload[2] < inbound'[c][j].payload[2]
  <2>1. 1 \in DOMAIN q /\ j + 1 \in DOMAIN q /\ inbound'[c][j] = q[j + 1] /\ 1 < j + 1
    BY <1>1
  <2> QED
    BY <1>3, <2>1, Zenon DEF InboundInOrder
<1> QED
  BY <1>1, <1>2, <1>3, Zenon DEF InboundInOrder, Range

LEMMA InboundAppend ==
    ASSUME TypeOK, NEW c \in Conn, InboundInOrder(c), NEW f \in InFrame,
           inbound'[c] = Append(inbound[c], f),
           f.type # "ACK" => \A g \in Range(inbound[c]) : g.type # "ACK" => g.payload[2] < f.payload[2]
    PROVE  InboundInOrder(c)'
<1> DEFINE q == inbound[c]
<1>1. /\ DOMAIN inbound'[c] = 1..(Len(q) + 1) /\ DOMAIN q = 1..Len(q) /\ Len(q) \in Nat
      /\ \A i \in 1..Len(q) : inbound'[c][i] = q[i] /\ q[i] \in Range(q)
      /\ inbound'[c][Len(q) + 1] = f
  BY DEF TypeOK, ConnectionTypeOK, Range
<1>2. ASSUME NEW i \in DOMAIN inbound'[c], NEW j \in DOMAIN inbound'[c], i < j,
             inbound'[c][i].type # "ACK", inbound'[c][j].type # "ACK"
      PROVE  inbound'[c][i].payload[2] < inbound'[c][j].payload[2]
  <2>1. i \in DOMAIN q /\ inbound'[c][i] = q[i] /\ q[i] \in Range(q)
    BY <1>1, <1>2
  <2>2. CASE j \in DOMAIN q
    <3>1. inbound'[c][j] = q[j]
      BY <1>1, <2>2, Zenon
    <3> QED
      BY <1>2, <2>1, <2>2, <3>1, Zenon DEF InboundInOrder
  <2>3. CASE j = Len(q) + 1
    BY <1>1, <1>2, <2>1, <2>3, Zenon
  <2> QED
    BY <1>1, <2>2, <2>3
<1> QED
  BY <1>2, Zenon DEF InboundInOrder

(* The broker hands the message at the head of its queue to the            *)
(* application: its predecessors have all been handed over.                *)
LEMMA InTurnHandover ==
    ASSUME TypeOK, InTurn, HandleReceived, UNCHANGED <<inbound, remote_n>>,
           NEW c \in Conn, NEW n \in Nat,
           Carries(Head(cmd)), Head(cmd).envelope.payload = <<c, n>>
    PROVE  InTurn'
<1>1. /\ broker = "running" /\ broker' = broker /\ cmd # <<>> /\ cmd' = Tail(cmd)
      /\ received' = Append(received, [identity |-> Head(cmd).identity, payload |-> <<c, n>>])
  BY Zenon DEF HandleReceived, BrokerRecv, Carries
<1>2. Range(cmd) = {Head(cmd)} \cup Range(cmd')
  BY <1>1, ChannelSets, Zenon
<1>3. /\ \A i \in DOMAIN received : received'[i] = received[i] /\ i \in Nat \ {0}
                                     /\ received[i].payload \in RemoteMsg
      /\ DOMAIN received = 1..Len(received) /\ DOMAIN received' = 1..(Len(received) + 1)
      /\ Len(received) \in Nat
      /\ received'[Len(received) + 1].payload = <<c, n>>
  <2>1. received \in Seq(Delivered)
    BY Zenon DEF TypeOK, BrokerTypeOK
  <2>2. \A i \in DOMAIN received : received[i] \in Delivered
    BY <2>1
  <2>3. \A d \in Delivered : d.payload \in RemoteMsg
    BY Zenon DEF Delivered
  <2> QED
    BY <1>1, <2>1, <2>2, <2>3
<1>4. /\ CmdInOrder'
      /\ \A k \in Nat : Waiting(c, k)' => n < k
  <2>1. /\ CmdInOrder'
        /\ \A m \in Range(cmd') :
              Carries(m) /\ Head(cmd).envelope.payload[1] = m.envelope.payload[1]
                  => Head(cmd).envelope.payload[2] < m.envelope.payload[2]
    BY <1>1, CmdTail, Zenon DEF InTurn
  <2> QED
    BY <2>1 DEF Waiting, Carries
<1>5. Waiting(c, n)
  BY <1>1, <1>2 DEF Waiting
<1>6. \A d \in Conn : \A k \in Nat :
        /\ Coming(d, k)' <=> Coming(d, k)
        /\ Waiting(d, k)' => Waiting(d, k)
        /\ Waiting(d, k) => Waiting(d, k)' \/ (d = c /\ k = n)
  <2>1. \A d \in Conn : \A k \in Nat : Waiting(d, k) => Waiting(d, k)' \/ (d = c /\ k = n)
    BY <1>2 DEF Waiting, Carries
  <2>2. \A d \in Conn : \A k \in Nat : Waiting(d, k)' => Waiting(d, k)
    BY <1>2, Zenon DEF Waiting, Carries
  <2> QED
    BY <2>1, <2>2, Zenon DEF Coming
<1>7. \A d \in Conn : \A k \in Nat : Taken(d, k)' <=> Taken(d, k) \/ (d = c /\ k = n)
  <2> SUFFICES ASSUME NEW d \in Conn, NEW k \in Nat
               PROVE  Taken(d, k)' <=> Taken(d, k) \/ (d = c /\ k = n)
    BY Zenon
  <2>1. Taken(d, k) => Taken(d, k)'
    BY <1>3 DEF Taken
  <2>2. d = c /\ k = n => Taken(d, k)'
    BY <1>3 DEF Taken
  <2>3. Taken(d, k)' => Taken(d, k) \/ (d = c /\ k = n)
    BY <1>3 DEF Taken
  <2> QED
    BY <2>1, <2>2, <2>3, Zenon
<1>8. \A j \in DOMAIN received : received[j].payload[1] = c => received[j].payload[2] < n
  <2>1. \A j \in DOMAIN received : received[j].payload[1] = c => Taken(c, received[j].payload[2])
    BY Zenon DEF Taken
  <2>2. \A j \in DOMAIN received : received[j].payload[2] \in Nat
    BY <1>3, CarriedTypes, Zenon
  <2> QED
    BY <1>5, <2>1, <2>2, Zenon DEF InTurn
<1>9. n = 1 \/ \E j \in DOMAIN received : received[j].payload = <<c, n - 1>>
  <2> SUFFICES ASSUME n # 1
               PROVE  \E j \in DOMAIN received : received[j].payload = <<c, n - 1>>
    BY Zenon
  <2>1. n \in 1..remote_n[c] /\ remote_n[c] \in Nat
    BY <1>5, Zenon DEF InTurn, TypeOK, ConnectionTypeOK
  <2>2. n - 1 \in Nat /\ n - 1 \in 1..remote_n[c] /\ ~(n < n - 1) /\ n - 1 # n
    BY <2>1
  <2>3. Coming(c, n - 1) \/ Waiting(c, n - 1) \/ Taken(c, n - 1)
    BY <1>1, <2>2, Zenon DEF InTurn
  <2>4. ~Coming(c, n - 1)
    BY <1>5, <2>2, Zenon DEF InTurn
  <2>5. ~Waiting(c, n - 1)
    BY <1>4, <1>6, <2>2, Zenon
  <2>6. PICK j \in DOMAIN received : received[j].payload[1] = c /\ received[j].payload[2] = n - 1
    BY <2>3, <2>4, <2>5, Zenon DEF Taken
  <2> QED
    BY <1>3, <2>6, CarriedTypes, Zenon
<1>10. ReceiveInOrder'
  <2> SUFFICES ASSUME NEW i \in DOMAIN received'
               PROVE  /\ \A j \in 1..(i - 1) : received'[j].payload[1] = received'[i].payload[1]
                             => received'[j].payload[2] < received'[i].payload[2]
                      /\ \/ received'[i].payload[2] = 1
                         \/ \E j \in 1..(i - 1) :
                              received'[j].payload = <<received'[i].payload[1], received'[i].payload[2] - 1>>
    BY Zenon DEF ReceiveInOrder
  <2>1. CASE i \in DOMAIN received
    <3>1. \A j \in 1..(i - 1) : j \in DOMAIN received
      BY <1>3, <2>1
    <3> QED
      BY <1>3, <2>1, <3>1, Zenon DEF InTurn, ReceiveInOrder
  <2>2. CASE i = Len(received) + 1
    <3>1. 1..(i - 1) = DOMAIN received /\ received'[i].payload = <<c, n>>
      BY <1>3, <2>2
    <3>2. received'[i].payload[1] = c /\ received'[i].payload[2] = n
      BY <3>1
    <3>3. \A j \in 1..(i - 1) : received'[j] = received[j]
      BY <1>3, <3>1, Zenon
    <3>4. \A j \in 1..(i - 1) : received'[j].payload[1] = c => received'[j].payload[2] < n
      BY <1>8, <3>1, <3>3, Zenon
    <3>5. n = 1 \/ \E j \in 1..(i - 1) : received'[j].payload = <<c, n - 1>>
      BY <1>9, <3>1, <3>3, Zenon
    <3> QED
      BY <3>2, <3>4, <3>5, Zenon
  <2> QED
    BY <1>3, <2>1, <2>2
<1>11. \A d \in Conn : InboundInOrder(d)' /\ \A f \in Range(inbound'[d]) : f.type # "ACK" => f.payload[1] = d
  BY Zenon DEF InTurn, InboundInOrder
<1>12. \A d \in Conn : \A j, k \in Nat :
         /\ Waiting(d, j)' /\ Coming(d, k)' => j < k
         /\ Taken(d, j)' /\ (Waiting(d, k)' \/ Coming(d, k)') => j < k
  BY <1>4, <1>5, <1>6, <1>7 DEF InTurn
<1>13. \A d \in Conn, k \in Nat :
         /\ Coming(d, k)' \/ Waiting(d, k)' \/ Taken(d, k)' => k \in 1..remote_n'[d]
         /\ broker' = "running" /\ k \in 1..remote_n'[d] => Coming(d, k)' \/ Waiting(d, k)' \/ Taken(d, k)'
  BY <1>1, <1>5, <1>6, <1>7, Zenon DEF InTurn
<1> QED
  BY <1>4, <1>10, <1>11, <1>12, <1>13, Zenon DEF InTurn

LEMMA InTurnBroker ==
    ASSUME TypeOK, InTurn, BrokerNext
    PROVE  InTurn'
<1>1. UNCHANGED <<inbound, remote_n>> /\ \A c \in Conn : InboundInOrder(c)'
  BY Zenon DEF BrokerNext, connectionVars, InTurn, InboundInOrder
<1>2. ASSUME NEW type, BrokerRecv(type), ~Carries(Head(cmd)), UNCHANGED <<received, broker>>
      PROVE  InTurn'
  <2>1. cmd # <<>> /\ cmd' = Tail(cmd)
    BY <1>2, Zenon DEF BrokerRecv
  <2>2. Range(cmd) = {Head(cmd)} \cup Range(cmd')
    BY <2>1, ChannelSets, Zenon
  <2>3. CmdInOrder'
    BY <2>1, CmdTail, Zenon DEF InTurn
  <2> QED
    BY <1>1, <1>2, <2>2, <2>3, InTurnKept, Zenon
<1>3. ASSUME UNCHANGED <<cmd, received>>, broker' = "running" => broker = "running"
      PROVE  InTurn'
  <2>1. CmdInOrder'
    BY <1>3, Zenon DEF InTurn, CmdInOrder, Carries
  <2> QED
    BY <1>1, <1>3, <2>1, InTurnKept, Zenon
<1>4. CASE HandleSend \/ HandleUp \/ HandleDown \/ HandleResend
  <2>1. /\ UNCHANGED <<received, broker>>
        /\ \E type \in {"Send", "ConnectionUp", "ConnectionDown", "ResendTimeout"} : BrokerRecv(type)
    BY <1>4, Zenon DEF HandleSend, HandleUp, HandleDown, HandleResend
  <2>2. ~Carries(Head(cmd))
    BY <2>1, Zenon DEF BrokerRecv, Carries
  <2> QED
    BY <1>2, <2>1, <2>2, Zenon
<1>5. CASE HandleReceived
  <2>1. BrokerRecv("Received") /\ UNCHANGED broker
    BY <1>5, Zenon DEF HandleReceived
  <2>2. CASE Head(cmd).envelope.type = "ACK"
    <3>1. UNCHANGED received
      BY <1>5, <2>2, Zenon DEF HandleReceived
    <3>2. ~Carries(Head(cmd))
      BY <2>2, Zenon DEF Carries
    <3> QED
      BY <1>2, <2>1, <3>1, <3>2, Zenon
  <2>3. CASE Head(cmd).envelope.type # "ACK"
    <3>1. Head(cmd) \in Range(cmd) /\ Carries(Head(cmd))
      BY <2>1, <2>3, ChannelSets, Zenon DEF BrokerRecv, Carries
    <3>2. PICK c \in Conn, n \in Nat : Head(cmd).envelope.payload = <<c, n>>
      BY <3>1, CarriedTypes, Zenon
    <3> QED
      BY <1>1, <1>5, <3>1, <3>2, InTurnHandover, Zenon
  <2> QED
    BY <2>2, <2>3, Zenon
<1>6. CASE HandleBuffered
  BY <1>3, <1>6, Zenon DEF HandleBuffered
<1>7. CASE HandleClose
  <2>1. cmd' = <<>> /\ UNCHANGED received /\ broker' # "running"
    BY <1>7, Zenon DEF HandleClose
  <2>2. Range(cmd') = {} /\ CmdInOrder'
    BY <2>1, RangeFacts DEF CmdInOrder
  <2> QED
    BY <1>1, <2>1, <2>2, InTurnKept, Zenon
<1>8. CASE BrokerExit(timer = "done")
  <2>1. UNCHANGED <<cmd, received>> /\ broker' = "done"
    BY <1>8, Zenon DEF BrokerExit, brokerVars
  <2> QED
    BY <1>3, <2>1, Zenon
<1> QED
  BY <1>4, <1>5, <1>6, <1>7, <1>8, Zenon DEF BrokerNext, BrokerStep

(* The reader passes on the first frame of its connection.                 *)
LEMMA InTurnForward ==
    ASSUME TypeOK, InTurn, NEW c \in Conn, ReaderForward(c), UNCHANGED received
    PROVE  InTurn'
<1> DEFINE f == Head(inbound[c])
           m == Received(peer[c], c, f)
<1>1. /\ inbound[c] # <<>> /\ inbound' = [inbound EXCEPT ![c] = Tail(inbound[c])]
      /\ SendCommand(m) /\ cmd' = Append(cmd, m) /\ UNCHANGED <<broker, remote_n>>
      /\ peer[c] \in Identity
  BY Zenon DEF ReaderForward, Read, SendCommand, TypeOK, ConnectionTypeOK
<1>2. /\ inbound'[c] = Tail(inbound[c]) /\ \A d \in Conn : d # c => inbound'[d] = inbound[d]
      /\ Range(inbound[c]) = {f} \cup Range(inbound'[c]) /\ f \in InFrame
  BY <1>1, ChannelSets, Zenon DEF TypeOK, ConnectionTypeOK
<1>3. m \in Command /\ m.type = "Received" /\ m.envelope = f
  BY <1>1, <1>2, MessageTypes, Zenon DEF Received
<1>4. Range(cmd') = Range(cmd) \cup {m}
  BY <1>1, <1>3, ChannelSets, Zenon
<1> HIDE DEF m
<1>5. \A d \in Conn : InboundInOrder(d)'
  <2>1. InboundInOrder(c)'
    BY <1>1, <1>2, InboundTail, Zenon DEF InTurn
  <2>2. \A d \in Conn : d # c => InboundInOrder(d)'
    BY <1>2, Zenon DEF InTurn, InboundInOrder
  <2> QED
    BY <2>1, <2>2, Zenon
<1>6. CASE f.type = "ACK"
  <2>1. ~Carries(m)
    BY <1>3, <1>6, Zenon DEF Carries
  <2>2. CmdInOrder'
    BY <1>1, <1>3, <2>1, CmdAppend, Zenon DEF InTurn
  <2>3. \A d \in Conn : \A g : g.type # "ACK" => (g \in Range(inbound'[d]) <=> g \in Range(inbound[d]))
    BY <1>2, <1>6, Zenon
  <2> QED
    BY <1>1, <1>4, <1>5, <2>1, <2>2, <2>3, InTurnKept, Zenon
<1>7. CASE f.type # "ACK"
  <2>1. f.payload \in RemoteMsg /\ f.payload[1] = c
    BY <1>2, <1>7, CarriedTypes, Zenon DEF InTurn
  <2>2. PICK n \in Nat : f.payload[1] = c /\ f.payload[2] = n
    BY <2>1, CarriedTypes, Zenon
  <2>3. Carries(m) /\ m.envelope.payload[1] = c /\ m.envelope.payload[2] = n
    BY <1>3, <1>7, <2>2 DEF Carries
  <2>4. Coming(c, n) /\ \A k \in Nat : Coming(c, k)' => n < k
    <3>1. \A g \in Range(inbound'[c]) : g.type # "ACK" => n < g.payload[2]
      BY <1>1, <1>2, <1>7, <2>2, InboundTail, Zenon DEF InTurn
    <3> QED
      BY <1>2, <1>7, <2>2, <3>1, Zenon DEF Coming
  <2> HIDE DEF f
  <2>5. \A d \in Conn : \A k \in Nat :
          /\ Coming(d, k)' => Coming(d, k)
          /\ Coming(d, k) => Coming(d, k)' \/ (d = c /\ k = n)
    BY <1>2, <2>2, Zenon DEF Coming
  <2>6. \A d \in Conn : \A k \in Nat : Waiting(d, k)' <=> Waiting(d, k) \/ (d = c /\ k = n)
    BY <1>4, <2>3, Zenon DEF Waiting, Carries
  <2>7. \A d \in Conn : \A k \in Nat : Taken(d, k)' <=> Taken(d, k)
    BY Zenon DEF Taken
  <2>8. CmdInOrder'
    <3>1. \A x \in Range(cmd) : Carries(x) => x.envelope.payload[2] \in Nat
      BY CarriedTypes, Zenon
    <3>2. \A x \in Range(cmd) : Carries(x) /\ x.envelope.payload[1] = c => x.envelope.payload[2] < n
      <4>1. \A x \in Range(cmd) :
              Carries(x) /\ x.envelope.payload[1] = c => Waiting(c, x.envelope.payload[2])
        BY Zenon DEF Waiting
      <4> QED
        BY <2>4, <3>1, <4>1, Zenon DEF InTurn
    <3> QED
      BY <1>1, <1>3, <2>3, <3>2, CmdAppend, Zenon DEF InTurn
  <2>9. ReceiveInOrder'
    BY Zenon DEF InTurn, ReceiveInOrder
  <2>10. \A d \in Conn : \A g \in Range(inbound'[d]) : g.type # "ACK" => g.payload[1] = d
    BY <1>2, Zenon DEF InTurn
  <2>11. \A d \in Conn : \A j, k \in Nat :
          /\ Waiting(d, j)' /\ Coming(d, k)' => j < k
          /\ Taken(d, j)' /\ (Waiting(d, k)' \/ Coming(d, k)') => j < k
    BY <2>4, <2>5, <2>6, <2>7 DEF InTurn
  <2>12. \A d \in Conn, k \in Nat :
          /\ Coming(d, k)' \/ Waiting(d, k)' \/ Taken(d, k)' => k \in 1..remote_n'[d]
          /\ broker' = "running" /\ k \in 1..remote_n'[d] => Coming(d, k)' \/ Waiting(d, k)' \/ Taken(d, k)'
    BY <1>1, <2>4, <2>5, <2>6, <2>7, Zenon DEF InTurn
  <2> QED
    BY <1>5, <2>8, <2>9, <2>10, <2>11, <2>12, Zenon DEF InTurn
<1> QED
  BY <1>6, <1>7, Zenon

(* The peer on c sends its next message.                                   *)
LEMMA InTurnRemote ==
    ASSUME TypeOK, InTurn, NEW c \in Conn, RemoteSend(c), UNCHANGED received
    PROVE  InTurn'
<1>1. PICK n \in Nat : n = remote_n[c] + 1
  BY DEF TypeOK, ConnectionTypeOK
<1>2. PICK f \in {data(<<c, n>>), data_req(<<c, n>>, <<c, n>>)} :
        inbound' = [inbound EXCEPT ![c] = Append(inbound[c], f)]
  BY <1>1, Zenon DEF RemoteSend
<1>3. f \in InFrame /\ f.type # "ACK" /\ f.payload[1] = c /\ f.payload[2] = n
  BY DEF data, data_req, InFrame, RemoteMsg
<1>4. /\ UNCHANGED <<cmd, broker>> /\ remote_n'[c] = n /\ n - 1 = remote_n[c]
      /\ \A d \in Conn : remote_n[d] \in Nat /\ (d # c => remote_n'[d] = remote_n[d])
  BY <1>1 DEF RemoteSend, channels, TypeOK, ConnectionTypeOK
<1>5. /\ inbound'[c] = Append(inbound[c], f) /\ \A d \in Conn : d # c => inbound'[d] = inbound[d]
      /\ Range(inbound'[c]) = Range(inbound[c]) \cup {f}
  BY <1>2, <1>3, ChannelSets, Zenon DEF TypeOK, ConnectionTypeOK
<1>6. \A d \in Conn : \A k \in Nat :
        /\ Coming(d, k)' <=> Coming(d, k) \/ (d = c /\ k = n)
        /\ Waiting(d, k)' <=> Waiting(d, k)
        /\ Taken(d, k)' <=> Taken(d, k)
  <2>1. \A d \in Conn : \A k \in Nat : Coming(d, k)' <=> Coming(d, k) \/ (d = c /\ k = n)
    BY <1>3, <1>5, Zenon DEF Coming
  <2> QED
    BY <1>4, <2>1, Zenon DEF Waiting, Taken, Carries
<1>7. \A k \in Nat : Coming(c, k) \/ Waiting(c, k) \/ Taken(c, k) => k < n
  BY <1>4 DEF InTurn
<1>8. \A d \in Conn : InboundInOrder(d)'
  <2>1. \A g \in Range(inbound[c]) : g.type # "ACK" => g.payload[2] < n
    <3>1. \A g \in Range(inbound[c]) : g.type # "ACK" => g.payload[2] \in Nat /\ Coming(c, g.payload[2])
      BY CarriedTypes, Zenon DEF Coming
    <3> QED
      BY <1>7, <3>1, Zenon
  <2>2. InboundInOrder(c)'
    BY <1>3, <1>5, <2>1, InboundAppend, Zenon DEF InTurn
  <2>3. \A d \in Conn : d # c => InboundInOrder(d)'
    BY <1>5, Zenon DEF InTurn, InboundInOrder
  <2> QED
    BY <2>2, <2>3, Zenon
<1>9. ReceiveInOrder' /\ CmdInOrder'
  BY <1>4, Zenon DEF InTurn, ReceiveInOrder, CmdInOrder, Carries
<1>10. \A d \in Conn : \A g \in Range(inbound'[d]) : g.type # "ACK" => g.payload[1] = d
  BY <1>3, <1>5, Zenon DEF InTurn
<1>11. \A d \in Conn : \A j, k \in Nat :
        /\ Waiting(d, j)' /\ Coming(d, k)' => j < k
        /\ Taken(d, j)' /\ (Waiting(d, k)' \/ Coming(d, k)') => j < k
  BY <1>6, <1>7 DEF InTurn
<1>12. \A d \in Conn, k \in Nat :
        /\ Coming(d, k)' \/ Waiting(d, k)' \/ Taken(d, k)' => k \in 1..remote_n'[d]
        /\ broker' = "running" /\ k \in 1..remote_n'[d] => Coming(d, k)' \/ Waiting(d, k)' \/ Taken(d, k)'
  <2>1. \A k \in Nat : k \in 1..n <=> k \in 1..remote_n[c] \/ k = n
    BY <1>4
  <2> QED
    BY <1>4, <1>6, <2>1, Zenon DEF InTurn
<1> QED
  BY <1>8, <1>9, <1>10, <1>11, <1>12, Zenon DEF InTurn

(* The peer's acknowledgement of a frame that the writer sent joins the    *)
(* frames on their way in.                                                 *)
LEMMA InTurnWrite ==
    ASSUME TypeOK, InTurn, NEW c \in Conn, WriterWrite(c), UNCHANGED received
    PROVE  InTurn'
<1>1. UNCHANGED <<cmd, broker, remote_n>>
  BY Zenon DEF WriterWrite
<1>2. CmdInOrder'
  BY <1>1, Zenon DEF InTurn, CmdInOrder, Carries
<1>3. CASE UNCHANGED inbound
  <2>1. \A d \in Conn : InboundInOrder(d)'
    BY <1>3, Zenon DEF InTurn, InboundInOrder
  <2> QED
    BY <1>1, <1>2, <1>3, <2>1, InTurnKept, Zenon
<1>4. CASE inbound' # inbound
  <2>1. /\ writer_ch[c] # <<>> /\ Head(writer_ch[c]).type = "DATA_REQ"
        /\ inbound' = [inbound EXCEPT ![c] = Append(inbound[c], ack(Head(writer_ch[c]).id))]
    BY <1>4, Zenon DEF WriterWrite
  <2>2. Head(writer_ch[c]) \in OutFrame
    BY <2>1 DEF TypeOK, ChannelsTypeOK
  <2>3. Head(writer_ch[c]).id \in Nat
    BY <2>1, <2>2, OutFrameFields, Zenon
  <2>4. PICK f \in InFrame : f.type = "ACK" /\ inbound' = [inbound EXCEPT ![c] = Append(inbound[c], f)]
    BY <2>1, <2>3, Zenon DEF ack, InFrame
  <2>5. /\ inbound'[c] = Append(inbound[c], f) /\ \A d \in Conn : d # c => inbound'[d] = inbound[d]
        /\ Range(inbound'[c]) = Range(inbound[c]) \cup {f}
    BY <2>4, ChannelSets, Zenon DEF TypeOK, ConnectionTypeOK
  <2>6. \A d \in Conn : InboundInOrder(d)'
    <3>1. InboundInOrder(c)'
      BY <2>4, <2>5, InboundAppend, Zenon DEF InTurn
    <3>2. \A d \in Conn : d # c => InboundInOrder(d)'
      BY <2>5, Zenon DEF InTurn, InboundInOrder
    <3> QED
      BY <3>1, <3>2, Zenon
  <2>7. \A d \in Conn : \A g : g.type # "ACK" => (g \in Range(inbound'[d]) <=> g \in Range(inbound[d]))
    BY <2>4, <2>5, Zenon
  <2> QED
    BY <1>1, <1>2, <2>6, <2>7, InTurnKept, Zenon
<1> QED
  BY <1>3, <1>4, Zenon

LEMMA InTurnOthers ==
    ASSUME TypeOK, InTurn,
           \/ AppStep \/ TimerNext
           \/ \E c \in Conn : SessionAdvance(c) \/ SessionEvent(c) \/ WriterNext(c) \/ EnvNext(c)
    PROVE  InTurn'
<1>1. UNCHANGED received
  BY Zenon DEF AppStep, TimerNext, SessionAdvance, SessionEvent, WriterNext, EnvNext, brokerVars
<1>2. CASE \E c \in Conn : ReaderForward(c) \/ RemoteSend(c) \/ WriterWrite(c)
  BY <1>1, <1>2, InTurnForward, InTurnRemote, InTurnWrite, Zenon
<1>3. CASE ~\E c \in Conn : ReaderForward(c) \/ RemoteSend(c) \/ WriterWrite(c)
  <2>1. UNCHANGED <<inbound, remote_n, broker>>
    <3>1. CASE AppStep \/ TimerNext
      BY <3>1, Zenon DEF AppStep, close, dispatch, TimerNext, TimerStep, TimerArm, TimerCancel,
                  TimerShutdown, TimerRecv, TimerFire, connectionVars
    <3>2. ASSUME NEW c \in Conn, SessionAdvance(c) \/ SessionEvent(c) \/ WriterNext(c) \/ EnvNext(c)
          PROVE  UNCHANGED <<inbound, remote_n, broker>>
      BY <1>3, <3>2, Zenon
         DEF SessionAdvance, SessionEvent, WriterNext, EnvNext, Register, Accepted, Rejected,
             ReaderEnd, JoinWriter, WriterEnd, LinkBreak
    <3> QED
      BY <3>1, <3>2, Zenon
  <2>2. \A c \in Conn : InboundInOrder(c)'
    BY <2>1, Zenon DEF InTurn, InboundInOrder
  <2>3. CASE UNCHANGED cmd
    <3>1. CmdInOrder'
      BY <2>3, Zenon DEF InTurn, CmdInOrder, Carries
    <3> QED
      BY <1>1, <2>1, <2>2, <2>3, <3>1, InTurnKept, Zenon
  <2>4. CASE NewCommand
    <3>1. PICK m \in Command : SendCommand(m) /\ m.type # "Received"
      BY <1>3, <2>4, Zenon DEF NewCommand
    <3>2. ~Carries(m)
      BY <3>1, Zenon DEF Carries
    <3>3. CmdInOrder'
      BY <3>1, <3>2, CmdAppend, Zenon DEF InTurn
    <3> QED
      BY <1>1, <2>1, <2>2, <3>1, <3>2, <3>3, SendEffect, InTurnKept, Zenon
  <2> QED
    BY <2>3, <2>4, CommandsSent, Zenon
<1> QED
  BY <1>2, <1>3, Zenon

(* recv() hands over every peer's messages in the order the peer sent them *)
(* on a connection, each once and without a gap, for any number of peers,  *)
(* connections and messages and in both delivery modes.                    *)
THEOREM ReceivedInOrder == Spec => []ReceiveInOrder
<1>1. Init => InTurn
  <2> SUFFICES ASSUME Init PROVE InTurn
    BY Zenon
  <2>1. /\ cmd = <<>> /\ received = <<>>
        /\ \A c \in Conn : inbound[c] = <<>> /\ remote_n[c] = 0
    BY Zenon DEF Init, ChannelsInit, BrokerInit, ConnectionInit
  <2>2. Range(<<>>) = {}
    BY RangeFacts, Zenon
  <2>3. \A c \in Conn : InboundInOrder(c) /\ Range(inbound[c]) = {}
    BY <2>1, <2>2 DEF InboundInOrder
  <2>4. CmdInOrder /\ ReceiveInOrder
    BY <2>1 DEF CmdInOrder, ReceiveInOrder
  <2>5. \A c \in Conn, n \in Nat : ~Coming(c, n) /\ ~Waiting(c, n) /\ ~Taken(c, n)
    BY <2>1, <2>2, <2>3 DEF Coming, Waiting, Taken
  <2> QED
    BY <2>1, <2>3, <2>4, <2>5 DEF InTurn
<1>2. TypeOK /\ InTurn /\ [Next]_vars => InTurn'
  <2> SUFFICES ASSUME TypeOK, InTurn, [Next]_vars
               PROVE  InTurn'
    BY Zenon
  <2>1. CASE UNCHANGED vars
    <3>1. UNCHANGED <<cmd, received, inbound, remote_n, broker>>
      BY <2>1, Zenon DEF vars, brokerVars, connectionVars
    <3>2. CmdInOrder' /\ \A c \in Conn : InboundInOrder(c)'
      BY <3>1, Zenon DEF InTurn, CmdInOrder, Carries, InboundInOrder
    <3> QED
      BY <3>1, <3>2, InTurnKept, Zenon
  <2> QED
    BY <2>1, InTurnBroker, InTurnOthers, Zenon DEF Next, Terminated
<1>3. InTurn => ReceiveInOrder
  BY Zenon DEF InTurn
<1> QED
  BY <1>1, <1>2, <1>3, TypeCorrect, PTL DEF Spec
=============================================================================
