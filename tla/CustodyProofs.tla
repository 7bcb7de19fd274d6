---------------------------- MODULE CustodyProofs ----------------------------
(***************************************************************************)
(* The socket keeps custody of the messages it accepted: no message sent   *)
(* for at-least-once delivery is silently lost, and module Socket          *)
(* implements module AtLeastOnce.                                          *)
(*                                                                         *)
(* NoSilentLoss is not inductive: an ACK removes the entry of its id from  *)
(* the table, so an ACK in transit must be known to mean that the message  *)
(* arrived; the ACK answers a DATA_REQ, so a DATA_REQ in transit must be   *)
(* known to carry the payload its id stands for; and a new id must be      *)
(* known to be new.  Custody adds these facts.                             *)
(***************************************************************************)
EXTENDS SocketPromise, SocketProofs

(* Steps that hand nothing over: copies stay where they are, no ACK and no *)
(* DATA_REQ appears.                                                       *)
LEMMA CustodyKept ==
    ASSUME Custody,
           UNCHANGED <<buffer, buffered, pending, sent, exhausted, next_id, broker>>,
           arrived \subseteq arrived',
           \A m \in Range(cmd) : m.type = "Send" => m \in Range(cmd'),
           \A m \in Range(cmd') : m.type \in {"Send", "Received"} => m \in Range(cmd),
           \A c \in Conn : Range(writer_ch'[c]) \subseteq Range(writer_ch[c]),
           \A c \in Conn : \A f \in Range(inbound'[c]) : f.type = "ACK" => f \in Range(inbound[c])
    PROVE  Custody'
<1>1. NoSilentLoss'
  BY Zenon DEF Custody, NoSilentLoss, InSendCommand, InBuffer, InBuffered, IsPending, at_least_once
<1>2. CopiesAreFaithful'
  BY Zenon DEF Custody, CopiesAreFaithful
<1>3. IdsAreOld'
  BY Zenon DEF Custody, IdsAreOld
<1>4. FramesMatch'
  BY Zenon DEF Custody, FramesMatch
<1>5. AcksAreEarned'
  BY Zenon DEF Custody, AcksAreEarned
<1> QED
  BY <1>1, <1>2, <1>3, <1>4, <1>5, Zenon DEF Custody

(* The parts of Custody that transmit() can disturb.                       *)
LEMMA CustodyTransmit ==
    ASSUME TypeOK, Custody,
           NEW k \in DOMAIN sent, NEW n \in 0..MAX_RETRIES, NEW table \in SUBSET pending,
           transmit(sent[k], k, n, table),
           UNCHANGED <<sent, arrived, inbound>>,
           Range(cmd') \subseteq Range(cmd)
    PROVE  /\ IdsAreOld' /\ FramesMatch' /\ AcksAreEarned'
           /\ \A r \in pending' : r.payload \in DOMAIN sent /\ r.identity = sent[r.payload]
           /\ table \subseteq pending'
           /\ at_least_once(sent[k]) => \E r \in pending' : r.payload = k
<1> DEFINE id == sent[k]
           new == [id |-> next_id, identity |-> id, payload |-> k, retries |-> n]
<1>1. id \in OptIdentity /\ k \in Nat /\ next_id \in Nat
  BY DEF TypeOK, BrokerTypeOK
<1>2. \A r \in pending : r.id \in Nat
  BY Zenon DEF TypeOK, BrokerTypeOK, Pending
<1>3. /\ \A c \in Conn : \A f \in Range(writer_ch[c]) : f.type = "DATA_REQ" => f.id \in Nat
      /\ \A c \in Conn : \A f \in Range(inbound[c]) : f.type = "ACK" => f.id \in Nat
  BY ChannelSets, OutFrameFields, InFrameFields, Zenon
<1>4. \A m \in Range(cmd) : m.type = "Received" /\ m.envelope.type = "ACK" => m.envelope.id \in Nat
  BY ChannelSets, CommandFields, InFrameFields, Zenon
<1>5. CASE /\ at_least_once(id)
           /\ next_id' = next_id + 1
           /\ pending' = table \cup {new}
           /\ \A c \in Conn : Range(writer_ch'[c])
                                \subseteq Range(writer_ch[c]) \cup {data_req(next_id, k)}
  <2>1. new.id = next_id /\ new.identity = id /\ new.payload = k
    BY Zenon
  <2>2. /\ data_req(next_id, k).id = next_id
        /\ data_req(next_id, k).payload = k
    BY Zenon DEF data_req
  <2> DEFINE req == data_req(next_id, k)
  <2>3. IdsAreOld'
    <3> HIDE DEF new, req
    <3>1. IdsAreOld
      BY Zenon DEF Custody
    <3>2. \A r \in pending' : r.id < next_id'
      BY <1>1, <1>2, <1>5, <2>1, <3>1 DEF IdsAreOld
    <3>3. \A m \in Range(cmd') :
             m.type = "Received" /\ m.envelope.type = "ACK" => m.envelope.id < next_id'
      BY <1>1, <1>4, <1>5, <3>1 DEF IdsAreOld
    <3>4. \A c \in Conn : \A f \in Range(writer_ch'[c]) : f.type = "DATA_REQ" => f.id < next_id'
      BY <1>1, <1>3, <1>5, <2>2, <3>1 DEF IdsAreOld, req
    <3>5. \A c \in Conn : \A f \in Range(inbound'[c]) : f.type = "ACK" => f.id < next_id'
      BY <1>1, <1>3, <1>5, <3>1 DEF IdsAreOld
    <3> QED
      BY <3>2, <3>3, <3>4, <3>5, Zenon DEF IdsAreOld
  <2> HIDE DEF new, req
  <2>4. FramesMatch'
    <3> SUFFICES ASSUME NEW c \in Conn, NEW f \in Range(writer_ch'[c]), NEW r \in pending',
                        f.type = "DATA_REQ", f.id = r.id
                 PROVE  f.payload = r.payload
      BY Zenon DEF FramesMatch
    <3>1. f \in Range(writer_ch[c]) => f.id # next_id
      BY <1>1, <1>3 DEF Custody, IdsAreOld
    <3>2. r \in pending => r.id # next_id
      BY <1>1, <1>2 DEF Custody, IdsAreOld
    <3>3. CASE r = new
      BY <1>5, <2>1, <2>2, <3>1, <3>3, Zenon DEF req
    <3>4. CASE r \in pending
      <4>1. f \in Range(writer_ch[c])
        BY <1>5, <2>2, <3>2, <3>4, Zenon DEF req
      <4> QED
        BY <3>4, <4>1, Zenon DEF Custody, FramesMatch
    <3> QED
      BY <1>5, <3>3, <3>4, Zenon
  <2>5. AcksAreEarned'
    <3> SUFFICES ASSUME NEW r \in pending'
                 PROVE  /\ \A c \in Conn : \A f \in Range(inbound[c]) :
                             f.type = "ACK" /\ f.id = r.id => r.payload \in arrived
                        /\ \A m \in Range(cmd) :
                             m.type = "Received" /\ m.envelope.type = "ACK" /\ m.envelope.id = r.id
                                 => r.payload \in arrived
      BY Zenon DEF AcksAreEarned
    <3>1. CASE r = new
      BY <1>1, <1>3, <1>4, <2>1, <3>1 DEF Custody, IdsAreOld
    <3>2. CASE r \in pending
      BY <3>2, Zenon DEF Custody, AcksAreEarned
    <3> QED
      BY <1>5, <3>1, <3>2, Zenon
  <2>6. \A r \in pending' : r.payload \in DOMAIN sent /\ r.identity = sent[r.payload]
    BY <1>5, <2>1, Zenon DEF Custody, CopiesAreFaithful
  <2> QED
    BY <1>5, <2>1, <2>3, <2>4, <2>5, <2>6, Zenon
<1>6. CASE /\ ~at_least_once(id)
           /\ next_id' = next_id
           /\ pending' = table
           /\ \A c \in Conn : Range(writer_ch'[c]) \subseteq Range(writer_ch[c]) \cup {data(k)}
  <2>1. data(k).type # "DATA_REQ"
    BY Zenon DEF data
  <2>2. IdsAreOld'
    BY <1>6, <2>1, Zenon DEF Custody, IdsAreOld
  <2>3. FramesMatch'
    BY <1>6, <2>1, Zenon DEF Custody, FramesMatch
  <2>4. AcksAreEarned'
    BY <1>6, Zenon DEF Custody, AcksAreEarned
  <2>5. \A r \in pending' : r.payload \in DOMAIN sent /\ r.identity = sent[r.payload]
    BY <1>6, Zenon DEF Custody, CopiesAreFaithful
  <2> QED
    BY <1>6, <2>2, <2>3, <2>4, <2>5, Zenon
<1> QED
  BY <1>1, <1>5, <1>6, TransmitEffect, Zenon

(* handle_send: the message k that the caller took from a queue is in the  *)
(* buffer or in the table afterwards, unless it is not to be tracked.      *)
LEMMA CustodyHandleSend ==
    ASSUME TypeOK, Custody, NEW k \in DOMAIN sent, handle_send(sent[k], k),
           UNCHANGED <<sent, arrived, inbound, exhausted, broker>>,
           Range(cmd') \subseteq Range(cmd),
           Range(buffered') \subseteq Range(buffered),
           \A j : (InSendCommand(j) \/ InBuffered(j)) => (InSendCommand(j)' \/ InBuffered(j)' \/ j = k)
    PROVE  Custody'
<1>1. k \in Nat /\ sent[k] \in OptIdentity
  BY DEF TypeOK
<1>2. CASE NoConns
  <2> DEFINE new == [identity |-> sent[k], payload |-> k]
  <2>1. /\ buffer' = Append(buffer, new)
        /\ UNCHANGED <<next_id, pending, writer_ch>>
    BY <1>2, Zenon DEF handle_send
  <2>2. new \in Message /\ new.identity = sent[k] /\ new.payload = k
    BY <1>1, Zenon DEF Message
  <2> HIDE DEF new
  <2>3. Range(buffer') = Range(buffer) \cup {new}
    BY <2>1, <2>2, ChannelSets, Zenon
  <2>4. NoSilentLoss'
    <3> SUFFICES ASSUME broker = "running", NEW j \in DOMAIN sent, at_least_once(sent[j])
                 PROVE  \/ InSendCommand(j)' \/ InBuffer(j)' \/ InBuffered(j)' \/ IsPending(j)'
                        \/ j \in arrived' \/ j \in exhausted'
      BY Zenon DEF NoSilentLoss, at_least_once
    <3>1. \/ InSendCommand(j) \/ InBuffer(j) \/ InBuffered(j) \/ IsPending(j)
          \/ j \in arrived \/ j \in exhausted
      BY Zenon DEF Custody, NoSilentLoss
    <3>2. InBuffer(j) => InBuffer(j)'
      BY <2>3, Zenon DEF InBuffer
    <3>3. InBuffer(k)'
      BY <2>2, <2>3, Zenon DEF InBuffer
    <3>4. IsPending(j) => IsPending(j)'
      BY <2>1, Zenon DEF IsPending
    <3> QED
      BY <3>1, <3>2, <3>3, <3>4, Zenon
  <2>5. CopiesAreFaithful'
    BY <2>1, <2>2, <2>3, Zenon DEF Custody, CopiesAreFaithful
  <2>6. IdsAreOld'
    BY <2>1, Zenon DEF Custody, IdsAreOld
  <2>7. FramesMatch'
    BY <2>1, Zenon DEF Custody, FramesMatch
  <2>8. AcksAreEarned'
    BY <2>1, Zenon DEF Custody, AcksAreEarned
  <2> QED
    BY <2>4, <2>5, <2>6, <2>7, <2>8, Zenon DEF Custody
<1>3. CASE ~NoConns
  <2>1. transmit(sent[k], k, MAX_RETRIES, pending) /\ UNCHANGED buffer
    BY <1>3, Zenon DEF handle_send
  <2>2. /\ IdsAreOld' /\ FramesMatch' /\ AcksAreEarned'
        /\ \A r \in pending' : r.payload \in DOMAIN sent /\ r.identity = sent[r.payload]
        /\ pending \subseteq pending'
        /\ at_least_once(sent[k]) => \E r \in pending' : r.payload = k
    <3>1. MAX_RETRIES \in 0..MAX_RETRIES
      BY MessagesAssumption
    <3>2. pending \in SUBSET pending
      BY Zenon
    <3> QED
      BY <2>1, <3>1, <3>2, CustodyTransmit, Zenon
  <2>3. NoSilentLoss'
    <3> SUFFICES ASSUME broker = "running", NEW j \in DOMAIN sent, at_least_once(sent[j])
                 PROVE  \/ InSendCommand(j)' \/ InBuffer(j)' \/ InBuffered(j)' \/ IsPending(j)'
                        \/ j \in arrived' \/ j \in exhausted'
      BY Zenon DEF NoSilentLoss, at_least_once
    <3>1. \/ InSendCommand(j) \/ InBuffer(j) \/ InBuffered(j) \/ IsPending(j)
          \/ j \in arrived \/ j \in exhausted
      BY Zenon DEF Custody, NoSilentLoss
    <3>2. InBuffer(j) => InBuffer(j)'
      BY <2>1, Zenon DEF InBuffer
    <3>3. IsPending(j) => IsPending(j)'
      BY <2>2, Zenon DEF IsPending
    <3>4. j = k => IsPending(j)'
      BY <2>2, Zenon DEF IsPending
    <3> QED
      BY <3>1, <3>2, <3>3, <3>4, Zenon
  <2>4. CopiesAreFaithful'
    BY <2>1, <2>2, Zenon DEF Custody, CopiesAreFaithful
  <2> QED
    BY <2>2, <2>3, <2>4, Zenon DEF Custody
<1> QED
  BY <1>2, <1>3, Zenon

(* Every arm of Broker::run, the flush of the buffer and the broker's end.  *)
LEMMA CustodyBroker ==
    ASSUME TypeOK, Custody, BrokerNext
    PROVE  Custody'
<1>1. UNCHANGED <<timerVars, connectionVars, appVars>>
  BY Zenon DEF BrokerNext
<1>2. UNCHANGED <<inbound, arrived, sent>>
  BY <1>1, Zenon DEF connectionVars, appVars
<1>3. ASSUME NEW type, BrokerRecv(type)
      PROVE  /\ Head(cmd) \in Command /\ Head(cmd).type = type
             /\ Range(cmd) = {Head(cmd)} \cup Range(cmd')
  BY <1>3, ChannelSets, Zenon DEF BrokerRecv, TypeOK, ChannelsTypeOK
<1>4. CASE HandleSend
  <2> DEFINE k == Head(cmd).payload
  <2>1. /\ Head(cmd).type = "Send"
        /\ Range(cmd) = {Head(cmd)} \cup Range(cmd')
    BY <1>3, <1>4, Zenon DEF HandleSend
  <2>2. k \in DOMAIN sent /\ Head(cmd).identity = sent[k]
    BY <2>1, Zenon DEF Custody, CopiesAreFaithful
  <2>3. handle_send(sent[k], k) /\ UNCHANGED <<exhausted, broker, buffered>>
    BY <1>4, <2>2, Zenon DEF HandleSend
  <2>4. \A j : (InSendCommand(j) \/ InBuffered(j)) => (InSendCommand(j)' \/ InBuffered(j)' \/ j = k)
    BY <2>1, <2>3, Zenon DEF InSendCommand, InBuffered
  <2> QED
    BY <1>2, <2>1, <2>2, <2>3, <2>4, CustodyHandleSend, Zenon
<1>5. CASE HandleUp
  <2>1. /\ Head(cmd).type = "ConnectionUp"
        /\ Range(cmd) = {Head(cmd)} \cup Range(cmd')
    BY <1>3, <1>5, Zenon DEF HandleUp
  <2>2. UNCHANGED <<writer_ch, broker, pending, next_id, exhausted>>
    BY <1>5, Zenon DEF HandleUp
  <2>3. CASE UNCHANGED <<buffer, buffered>>
    BY <1>2, <2>1, <2>2, <2>3, CustodyKept, Zenon
  <2>4. CASE buffered = <<>> /\ buffered' = buffer /\ buffer' = <<>>
    <3>1. Range(buffered) = {} /\ Range(buffer') = {} /\ Range(buffered') = Range(buffer)
      BY <2>4, RangeFacts, Zenon
    <3>2. NoSilentLoss'
      BY <1>2, <2>1, <2>2, <3>1, Zenon
         DEF Custody, NoSilentLoss, at_least_once, InSendCommand, InBuffer, InBuffered, IsPending
    <3>3. CopiesAreFaithful'
      BY <1>2, <2>1, <2>2, <3>1, Zenon DEF Custody, CopiesAreFaithful
    <3>4. IdsAreOld'
      BY <1>2, <2>1, <2>2, Zenon DEF Custody, IdsAreOld
    <3>5. FramesMatch'
      BY <1>2, <2>1, <2>2, Zenon DEF Custody, FramesMatch
    <3>6. AcksAreEarned'
      BY <1>2, <2>1, <2>2, Zenon DEF Custody, AcksAreEarned
    <3> QED
      BY <3>2, <3>3, <3>4, <3>5, <3>6, Zenon DEF Custody
  <2> QED
    BY <1>5, <2>3, <2>4, Zenon DEF HandleUp, BrokerRecv
<1>6. CASE HandleBuffered
  <2> DEFINE k == Head(buffered).payload
  <2>1. Range(buffered) = {Head(buffered)} \cup Range(buffered')
    BY <1>6, ChannelSets, Zenon DEF HandleBuffered
  <2>2. k \in DOMAIN sent /\ Head(buffered).identity = sent[k]
    BY <2>1, Zenon DEF Custody, CopiesAreFaithful
  <2>3. handle_send(sent[k], k) /\ UNCHANGED <<exhausted, broker, cmd>>
    BY <1>6, <2>2, Zenon DEF HandleBuffered
  <2>4. \A j : (InSendCommand(j) \/ InBuffered(j)) => (InSendCommand(j)' \/ InBuffered(j)' \/ j = k)
    BY <2>1, <2>3, Zenon DEF InSendCommand, InBuffered
  <2> QED
    BY <1>2, <2>1, <2>2, <2>3, <2>4, CustodyHandleSend, Zenon
<1>7. CASE HandleDown
  <2>1. /\ Head(cmd).type = "ConnectionDown"
        /\ Range(cmd) = {Head(cmd)} \cup Range(cmd')
    BY <1>3, <1>7, Zenon DEF HandleDown
  <2>2. UNCHANGED <<buffer, buffered, pending, exhausted, next_id, broker, writer_ch>>
    BY <1>7, Zenon DEF HandleDown
  <2> QED
    BY <1>2, <2>1, <2>2, CustodyKept, Zenon
<1>8. CASE HandleReceived
  <2> DEFINE e == Head(cmd).envelope
  <2>1. /\ Head(cmd) \in Command /\ Head(cmd).type = "Received"
        /\ Range(cmd) = {Head(cmd)} \cup Range(cmd')
    BY <1>3, <1>8, Zenon DEF HandleReceived
  <2>2. UNCHANGED <<broker, buffer, buffered, next_id, exhausted>>
    BY <1>8, Zenon DEF HandleReceived
  <2>3. CASE e.type = "DATA"
    <3>1. UNCHANGED <<writer_ch, pending>>
      BY <1>8, <2>3, Zenon DEF HandleReceived
    <3> QED
      BY <1>2, <2>1, <2>2, <3>1, CustodyKept, Zenon
  <2>4. CASE e.type = "DATA_REQ"
    <3>1. /\ route(Head(cmd).identity, ack(e.id))
          /\ UNCHANGED pending
      BY <1>8, <2>4, Zenon DEF HandleReceived
    <3>2. ack(e.id) \in OutFrame /\ ack(e.id).type = "ACK"
      BY <2>1, <2>4, CommandFields, InFrameFields, MessageTypes, Zenon DEF ack
    <3>3. \A c \in Conn : Range(writer_ch'[c]) \subseteq Range(writer_ch[c]) \cup {ack(e.id)}
      BY <3>1, <3>2, RouteEffect, Zenon
    <3>4. NoSilentLoss'
      BY <1>2, <2>1, <2>2, <3>1, Zenon
         DEF Custody, NoSilentLoss, at_least_once, InSendCommand, InBuffer, InBuffered, IsPending
    <3>5. CopiesAreFaithful'
      BY <1>2, <2>1, <2>2, <3>1, Zenon DEF Custody, CopiesAreFaithful
    <3>6. IdsAreOld'
      BY <1>2, <2>1, <2>2, <3>1, <3>2, <3>3, Zenon DEF Custody, IdsAreOld
    <3>7. FramesMatch'
      BY <2>2, <3>1, <3>2, <3>3, Zenon DEF Custody, FramesMatch
    <3>8. AcksAreEarned'
      BY <1>2, <2>1, <2>2, <3>1, Zenon DEF Custody, AcksAreEarned
    <3> QED
      BY <3>4, <3>5, <3>6, <3>7, <3>8, Zenon DEF Custody
  <2>5. CASE e.type = "ACK"
    <3>1. pending' = {r \in pending : r.id # e.id} /\ UNCHANGED writer_ch
      BY <1>8, <2>5, Zenon DEF HandleReceived
    <3>2. \A r \in pending : r \in pending' \/ r.payload \in arrived
      BY <2>1, <2>5, <3>1, Zenon DEF Custody, AcksAreEarned
    <3>3. NoSilentLoss'
      BY <1>2, <2>1, <2>2, <3>2, Zenon
         DEF Custody, NoSilentLoss, at_least_once, InSendCommand, InBuffer, InBuffered, IsPending
    <3>4. CopiesAreFaithful'
      BY <1>2, <2>1, <2>2, <3>1, Zenon DEF Custody, CopiesAreFaithful
    <3>5. IdsAreOld'
      BY <1>2, <2>1, <2>2, <3>1, Zenon DEF Custody, IdsAreOld
    <3>6. FramesMatch'
      BY <2>2, <3>1, Zenon DEF Custody, FramesMatch
    <3>7. AcksAreEarned'
      BY <1>2, <2>1, <2>2, <3>1, Zenon DEF Custody, AcksAreEarned
    <3> QED
      BY <3>3, <3>4, <3>5, <3>6, <3>7, Zenon DEF Custody
  <2> QED
    BY <2>1, <2>3, <2>4, <2>5, CommandFields, InFrameFields, Zenon
<1>9. CASE HandleResend
  <2>1. /\ Head(cmd).type = "ResendTimeout"
        /\ Range(cmd) = {Head(cmd)} \cup Range(cmd')
    BY <1>3, <1>9, Zenon DEF HandleResend
  <2>2. UNCHANGED <<broker, buffered>>
    BY <1>9, Zenon DEF HandleResend
  <2>3. CASE UNCHANGED <<pending, exhausted, buffer, next_id, writer_ch>>
    BY <1>2, <2>1, <2>2, <2>3, CustodyKept, Zenon
  <2>4. ASSUME NEW r \in pending,
               pending' = pending \ {r}, exhausted' = exhausted \cup {r.payload},
               UNCHANGED <<buffer, next_id, writer_ch>>
        PROVE  Custody'
    <3>1. NoSilentLoss'
      BY <1>2, <2>1, <2>2, <2>4, Zenon
         DEF Custody, NoSilentLoss, at_least_once, InSendCommand, InBuffer, InBuffered, IsPending
    <3>2. CopiesAreFaithful'
      BY <1>2, <2>1, <2>2, <2>4, Zenon DEF Custody, CopiesAreFaithful
    <3>3. IdsAreOld'
      BY <1>2, <2>1, <2>4, Zenon DEF Custody, IdsAreOld
    <3>4. FramesMatch'
      BY <2>4 DEF Custody, FramesMatch
    <3>5. AcksAreEarned'
      BY <1>2, <2>1, <2>4, Zenon DEF Custody, AcksAreEarned
    <3> QED
      BY <3>1, <3>2, <3>3, <3>4, <3>5, Zenon DEF Custody
  <2>5. ASSUME NEW r \in pending, pending' = pending \ {r},
               buffer' = Append(buffer, [identity |-> r.identity, payload |-> r.payload]),
               UNCHANGED <<exhausted, next_id, writer_ch>>
        PROVE  Custody'
    <3> DEFINE new == [identity |-> r.identity, payload |-> r.payload]
    <3>1. new \in Message /\ new.identity = r.identity /\ new.payload = r.payload
      BY Zenon DEF TypeOK, BrokerTypeOK, Pending, Message
    <3>2. Range(buffer') = Range(buffer) \cup {new}
      BY <2>5, <3>1, ChannelSets, Zenon
    <3> HIDE DEF new
    <3>3. NoSilentLoss'
      BY <1>2, <2>1, <2>2, <2>5, <3>1, <3>2, Zenon
         DEF Custody, NoSilentLoss, at_least_once, InSendCommand, InBuffer, InBuffered, IsPending
    <3>4. CopiesAreFaithful'
      BY <1>2, <2>1, <2>2, <2>5, <3>1, <3>2, Zenon DEF Custody, CopiesAreFaithful
    <3>5. IdsAreOld'
      BY <1>2, <2>1, <2>5, Zenon DEF Custody, IdsAreOld
    <3>6. FramesMatch'
      BY <2>5, Zenon DEF Custody, FramesMatch
    <3>7. AcksAreEarned'
      BY <1>2, <2>1, <2>5, Zenon DEF Custody, AcksAreEarned
    <3> QED
      BY <3>3, <3>4, <3>5, <3>6, <3>7, Zenon DEF Custody
  <2>6. ASSUME NEW r \in pending, r.retries > 0,
               transmit(r.identity, r.payload, r.retries - 1, pending \ {r}),
               UNCHANGED <<exhausted, buffer>>
        PROVE  Custody'
    <3>1. /\ r.payload \in DOMAIN sent /\ r.identity = sent[r.payload]
          /\ r.retries - 1 \in 0..MAX_RETRIES
          /\ pending \ {r} \in SUBSET pending
      <4>1. r.payload \in DOMAIN sent /\ r.identity = sent[r.payload]
        BY <2>6, Zenon DEF Custody, CopiesAreFaithful
      <4>2. r.retries \in 0..MAX_RETRIES
        BY <2>6, Zenon DEF TypeOK, BrokerTypeOK, Pending
      <4>3. r.retries - 1 \in 0..MAX_RETRIES
        BY <2>6, <4>2, MessagesAssumption
      <4>4. pending \ {r} \in SUBSET pending
        BY Zenon
      <4> QED
        BY <4>1, <4>3, <4>4, Zenon
    <3>2. transmit(sent[r.payload], r.payload, r.retries - 1, pending \ {r})
      BY <2>6, <3>1, Zenon
    <3>3. /\ IdsAreOld' /\ FramesMatch' /\ AcksAreEarned'
          /\ \A q \in pending' : q.payload \in DOMAIN sent /\ q.identity = sent[q.payload]
          /\ pending \ {r} \subseteq pending'
          /\ at_least_once(sent[r.payload]) => \E q \in pending' : q.payload = r.payload
      BY <1>2, <2>1, <3>1, <3>2, CustodyTransmit, Zenon
    <3>4. NoSilentLoss'
      <4> SUFFICES ASSUME broker = "running", NEW j \in DOMAIN sent, at_least_once(sent[j])
                   PROVE  \/ InSendCommand(j)' \/ InBuffer(j)' \/ InBuffered(j)' \/ IsPending(j)'
                          \/ j \in arrived' \/ j \in exhausted'
        BY <1>2, <2>2, Zenon DEF NoSilentLoss, at_least_once
      <4>1. \/ InSendCommand(j) \/ InBuffer(j) \/ InBuffered(j) \/ IsPending(j)
            \/ j \in arrived \/ j \in exhausted
        BY Zenon DEF Custody, NoSilentLoss
      <4>2. InSendCommand(j) => InSendCommand(j)'
        BY <2>1, Zenon DEF InSendCommand
      <4>3. (InBuffer(j) => InBuffer(j)') /\ (InBuffered(j) => InBuffered(j)')
        BY <2>2, <2>6, Zenon DEF InBuffer, InBuffered
      <4>4. IsPending(j) => IsPending(j)'
        BY <3>3, Zenon DEF IsPending
      <4> QED
        BY <1>2, <2>6, <4>1, <4>2, <4>3, <4>4, Zenon
    <3>5. CopiesAreFaithful'
      BY <1>2, <2>1, <2>2, <2>6, <3>3, Zenon DEF Custody, CopiesAreFaithful
    <3> QED
      BY <3>3, <3>4, <3>5, Zenon DEF Custody
  <2> QED
    BY <1>9, <2>3, <2>4, <2>5, <2>6, Zenon DEF HandleResend
<1>10. CASE HandleClose
  <2>1. /\ broker' # "running" /\ cmd' = <<>> /\ buffer' = <<>> /\ pending' = {}
        /\ buffered = <<>> /\ buffered' = <<>>
        /\ UNCHANGED <<writer_ch, next_id>>
    BY <1>10, Zenon DEF HandleClose
  <2>2. Range(cmd') = {} /\ Range(buffer') = {} /\ Range(buffered') = {}
    BY <2>1, RangeFacts, Zenon
  <2>3. NoSilentLoss'
    BY <2>1, Zenon DEF NoSilentLoss
  <2>4. CopiesAreFaithful'
    BY <2>1, <2>2, Zenon DEF CopiesAreFaithful
  <2>5. IdsAreOld'
    BY <1>2, <2>1, <2>2, Zenon DEF Custody, IdsAreOld
  <2>6. FramesMatch'
    BY <2>1, Zenon DEF FramesMatch
  <2>7. AcksAreEarned'
    BY <2>1, Zenon DEF AcksAreEarned
  <2> QED
    BY <2>3, <2>4, <2>5, <2>6, <2>7, Zenon DEF Custody
<1>11. CASE BrokerExit(timer = "done")
  <2>1. /\ broker' # "running"
        /\ UNCHANGED <<cmd, writer_ch, buffer, buffered, pending, next_id>>
    BY <1>11, Zenon DEF BrokerExit, brokerVars
  <2>2. NoSilentLoss'
    BY <2>1, Zenon DEF NoSilentLoss
  <2>3. CopiesAreFaithful'
    BY <1>2, <2>1, Zenon DEF Custody, CopiesAreFaithful
  <2>4. IdsAreOld'
    BY <1>2, <2>1, Zenon DEF Custody, IdsAreOld
  <2>5. FramesMatch'
    BY <2>1, Zenon DEF Custody, FramesMatch
  <2>6. AcksAreEarned'
    BY <1>2, <2>1, Zenon DEF Custody, AcksAreEarned
  <2> QED
    BY <2>2, <2>3, <2>4, <2>5, <2>6, Zenon DEF Custody
<1> QED
  BY <1>4, <1>5, <1>6, <1>7, <1>8, <1>9, <1>10, <1>11, Zenon DEF BrokerNext, BrokerStep

-----------------------------------------------------------------------------
(* The other threads *)

(* timer_loop only reports timeouts; it holds no message.                  *)
LEMMA CustodyTimer ==
    ASSUME TypeOK, Custody, TimerNext
    PROVE  Custody'
<1>1. UNCHANGED <<buffer, buffered, pending, next_id, exhausted, inbound, arrived, sent>>
  BY Zenon DEF TimerNext, brokerVars, connectionVars, appVars
<1>2. UNCHANGED <<broker, writer_ch>>
  BY Zenon DEF TimerNext, TimerStep, TimerArm, TimerCancel, TimerShutdown, TimerRecv, TimerFire
<1>3. CASE UNCHANGED cmd
  BY <1>1, <1>2, <1>3, CustodyKept, Zenon
<1>4. CASE TimerFire /\ SendCommand(ResendTimeout(Head(deadlines)))
  <2>1. Head(deadlines) \in Nat
    BY <1>4 DEF TimerFire, TypeOK, TimerTypeOK
  <2>2. ResendTimeout(Head(deadlines)) \in Command
    BY <2>1, MessageTypes, Zenon
  <2>3. ResendTimeout(Head(deadlines)).type = "ResendTimeout"
    BY Zenon DEF ResendTimeout
  <2>4. /\ Range(cmd) \subseteq Range(cmd')
        /\ Range(cmd') \subseteq Range(cmd) \cup {ResendTimeout(Head(deadlines))}
    BY <1>4, <2>2, SendEffect, Zenon
  <2> QED
    BY <1>1, <1>2, <2>3, <2>4, CustodyKept, Zenon
<1> QED
  BY <1>3, <1>4, Zenon DEF TimerNext, TimerStep, TimerArm, TimerCancel, TimerShutdown, TimerRecv, TimerFire

(* The threads of a connection move frames and ACKs, and the link may lose *)
(* them; a peer acknowledges only what arrived.                            *)
LEMMA CustodyConnection ==
    ASSUME TypeOK, Custody, NEW c \in Conn,
           SessionAdvance(c) \/ SessionEvent(c) \/ WriterNext(c) \/ EnvNext(c)
    PROVE  Custody'
<1>1. UNCHANGED <<buffer, buffered, pending, next_id, exhausted, sent>>
  BY Zenon DEF SessionAdvance, SessionEvent, WriterNext, EnvNext, brokerVars, appVars
<1>2. ASSUME NEW p \in Identity, Register(c, p)
      PROVE  Custody'
  <2>1. ConnectionUp(p, c) \in Command /\ ConnectionUp(p, c).type = "ConnectionUp"
    BY <1>2, MessageTypes, Zenon DEF ConnectionUp
  <2>2. /\ Range(cmd) \subseteq Range(cmd')
        /\ Range(cmd') \subseteq Range(cmd) \cup {ConnectionUp(p, c)}
    BY <1>2, <2>1, SendEffect, Zenon DEF Register
  <2>3. UNCHANGED <<broker, writer_ch, inbound, arrived>>
    BY <1>2, Zenon DEF Register
  <2> QED
    BY <1>1, <2>1, <2>2, <2>3, CustodyKept, Zenon
<1>3. CASE Accepted(c) \/ JoinWriter(c)
  <2>1. UNCHANGED <<cmd, broker, writer_ch, inbound, arrived>>
    BY <1>3, Zenon DEF Accepted, JoinWriter
  <2> QED
    BY <1>1, <2>1, CustodyKept, Zenon
<1>4. CASE Rejected(c) \/ WriterEnd(c, SenderDropped(c))
  <2>1. UNCHANGED <<cmd, broker, inbound, arrived>>
    BY <1>4, Zenon DEF Rejected, WriterEnd
  <2>2. \A d \in Conn : writer_ch'[d] = writer_ch[d] \/ writer_ch'[d] = <<>>
    BY <1>4, Zenon DEF Rejected, WriterEnd, TypeOK, ChannelsTypeOK
  <2>3. \A d \in Conn : Range(writer_ch'[d]) \subseteq Range(writer_ch[d])
    BY <2>2, RangeFacts, Zenon
  <2> QED
    BY <1>1, <2>1, <2>3, CustodyKept, Zenon
<1>5. CASE ReaderForward(c)
  <2> DEFINE e == Head(inbound[c])
             m == Received(peer[c], c, e)
  <2>1. /\ inbound[c] # <<>>
        /\ inbound' = [inbound EXCEPT ![c] = Tail(@)]
        /\ SendCommand(m)
        /\ phase[c] = "open"
        /\ UNCHANGED <<broker, writer_ch, arrived>>
    BY <1>5, Zenon DEF ReaderForward, Read
  <2>2. e \in Range(inbound[c]) /\ e \in InFrame
    BY <2>1, ChannelSets, Zenon
  <2>3. \A d \in Conn : Range(inbound'[d]) \subseteq Range(inbound[d])
    <3>1. \A d \in Conn : inbound'[d] = IF d = c THEN Tail(inbound[c]) ELSE inbound[d]
      BY <2>1, Zenon DEF TypeOK, ConnectionTypeOK
    <3>2. Range(Tail(inbound[c])) \subseteq Range(inbound[c])
      BY <2>1, ChannelSets, Zenon
    <3> QED
      BY <3>1, <3>2, Zenon
  <2>4. peer[c] \in Identity
    BY <2>1, Zenon DEF TypeOK, ConnectionTypeOK
  <2>5. m \in Command
    BY <2>2, <2>4, MessageTypes, Zenon
  <2>6. m.type = "Received" /\ m.envelope = e
    BY Zenon DEF Received
  <2>7. Range(cmd) \subseteq Range(cmd') /\ Range(cmd') \subseteq Range(cmd) \cup {m}
    BY <2>1, <2>5, SendEffect, Zenon
  <2> HIDE DEF e, m
  <2>8. NoSilentLoss'
    BY <1>1, <2>1, <2>7, Zenon
       DEF Custody, NoSilentLoss, at_least_once, InSendCommand, InBuffer, InBuffered, IsPending
  <2>9. CopiesAreFaithful'
    BY <1>1, <2>6, <2>7, Zenon DEF Custody, CopiesAreFaithful
  <2>10. IdsAreOld'
    BY <1>1, <2>1, <2>2, <2>3, <2>6, <2>7, Zenon DEF Custody, IdsAreOld
  <2>11. FramesMatch'
    BY <1>1, <2>1, Zenon DEF Custody, FramesMatch
  <2>12. AcksAreEarned'
    BY <1>1, <2>1, <2>2, <2>3, <2>6, <2>7, Zenon DEF Custody, AcksAreEarned
  <2> QED
    BY <2>8, <2>9, <2>10, <2>11, <2>12, Zenon DEF Custody
<1>6. CASE ReaderEnd(c)
  <2>1. peer[c] \in Identity
    BY <1>6, Zenon DEF ReaderEnd, TypeOK, ConnectionTypeOK
  <2>2. /\ ConnectionDown(peer[c], c) \in Command
        /\ ConnectionDown(peer[c], c).type = "ConnectionDown"
    BY <2>1, MessageTypes, Zenon DEF ConnectionDown
  <2>3. /\ Range(cmd) \subseteq Range(cmd')
        /\ Range(cmd') \subseteq Range(cmd) \cup {ConnectionDown(peer[c], c)}
    BY <1>6, <2>2, SendEffect, Zenon DEF ReaderEnd
  <2>4. UNCHANGED <<broker, writer_ch, inbound, arrived>>
    BY <1>6, Zenon DEF ReaderEnd
  <2> QED
    BY <1>1, <2>2, <2>3, <2>4, CustodyKept, Zenon
<1>7. CASE WriterWrite(c)
  <2> DEFINE f == Head(writer_ch[c])
  <2>1. UNCHANGED <<cmd, broker>> /\ writer_ch[c] # <<>>
    BY <1>7, Zenon DEF WriterWrite
  <2>2. f \in Range(writer_ch[c]) /\ f \in OutFrame
    BY <2>1, ChannelSets, Zenon
  <2>3. \A d \in Conn : Range(writer_ch'[d]) \subseteq Range(writer_ch[d])
    <3>1. \A d \in Conn : writer_ch'[d] = IF d = c THEN Tail(writer_ch[c]) ELSE writer_ch[d]
      BY <1>7, Zenon DEF WriterWrite, TypeOK, ChannelsTypeOK
    <3> QED
      BY <2>1, <3>1, ChannelSets
  <2>4. CASE ~(link[c] /\ f.type = "DATA_REQ")
    <3>1. inbound' = inbound /\ arrived \subseteq arrived'
      BY <1>7, <2>4, Zenon DEF WriterWrite
    <3> QED
      BY <1>1, <2>1, <2>3, <3>1, CustodyKept, Zenon
  <2>5. CASE link[c] /\ f.type = "DATA_REQ"
    <3> DEFINE a == ack(f.id)
    <3>1. /\ arrived' = arrived \cup {f.payload}
          /\ inbound' = [inbound EXCEPT ![c] = Append(@, a)]
      BY <1>7, <2>5, Zenon DEF WriterWrite
    <3>2. a \in InFrame /\ a.id = f.id
      BY <2>2, <2>5, OutFrameFields, MessageTypes, Zenon DEF ack
    <3>3. \A d \in Conn : \A g \in Range(inbound'[d]) : g \in Range(inbound[d]) \/ g = a
      <4> SUFFICES ASSUME NEW d \in Conn
                   PROVE  \A g \in Range(inbound'[d]) : g \in Range(inbound[d]) \/ g = a
        BY Zenon
      <4>1. inbound'[d] = inbound[d] \/ inbound'[d] = Append(inbound[d], a)
        BY <3>1, Zenon DEF TypeOK, ConnectionTypeOK
      <4>2. Range(Append(inbound[d], a)) = Range(inbound[d]) \cup {a}
        BY <3>2, ChannelSets, Zenon
      <4> HIDE DEF a
      <4> QED
        BY <4>1, <4>2, Zenon
    <3> HIDE DEF a
    <3>4. NoSilentLoss'
      BY <1>1, <2>1, <3>1, Zenon
         DEF Custody, NoSilentLoss, at_least_once, InSendCommand, InBuffer, InBuffered, IsPending
    <3>5. CopiesAreFaithful'
      BY <1>1, <2>1, Zenon DEF Custody, CopiesAreFaithful
    <3>6. IdsAreOld'
      BY <1>1, <2>1, <2>2, <2>3, <2>5, <3>2, <3>3, Zenon DEF Custody, IdsAreOld
    <3>7. FramesMatch'
      BY <1>1, <2>3, Zenon DEF Custody, FramesMatch
    <3>8. AcksAreEarned'
      <4>1. \A r \in pending : r.id = f.id => r.payload \in arrived'
        BY <2>2, <2>5, <3>1, Zenon DEF Custody, FramesMatch
      <4> HIDE DEF f
      <4> QED
        BY <1>1, <2>1, <3>1, <3>2, <3>3, <4>1, Zenon DEF Custody, AcksAreEarned
    <3> QED
      BY <3>4, <3>5, <3>6, <3>7, <3>8, Zenon DEF Custody
  <2> QED
    BY <2>4, <2>5, Zenon
<1>8. CASE LinkBreak(c)
  <2>1. UNCHANGED <<cmd, broker, writer_ch, inbound, arrived>>
    BY <1>8, Zenon DEF LinkBreak, channels
  <2> QED
    BY <1>1, <2>1, CustodyKept, Zenon
<1>9. CASE RemoteSend(c)
  <2> DEFINE n == <<c, remote_n[c] + 1>>
  <2>1. UNCHANGED <<cmd, broker, writer_ch, arrived>>
    BY <1>9, Zenon DEF RemoteSend, channels
  <2>2. n \in RemoteMsg
    BY DEF RemoteMsg, TypeOK, ConnectionTypeOK
  <2>3. PICK f : /\ f = data(n) \/ f = data_req(n, n)
                 /\ inbound' = [inbound EXCEPT ![c] = Append(@, f)]
    BY <1>9, Zenon DEF RemoteSend
  <2>4. f \in InFrame /\ f.type # "ACK"
    <3>1. data(n) \in InFrame /\ data_req(n, n) \in InFrame
      BY <2>2, MessageTypes, Zenon
    <3>2. data(n).type = "DATA" /\ data_req(n, n).type = "DATA_REQ"
      BY Zenon DEF data, data_req
    <3> HIDE DEF n
    <3> QED
      BY <2>3, <3>1, <3>2, Zenon
  <2>5. ASSUME NEW d \in Conn
        PROVE  \A g \in Range(inbound'[d]) : g.type = "ACK" => g \in Range(inbound[d])
    <3>1. inbound'[d] = inbound[d] \/ inbound'[d] = Append(inbound[d], f)
      BY <2>3, Zenon DEF TypeOK, ConnectionTypeOK
    <3>2. Range(Append(inbound[d], f)) = Range(inbound[d]) \cup {f}
      BY <2>4, ChannelSets, Zenon
    <3> QED
      BY <2>4, <3>1, <3>2, Zenon
  <2> QED
    BY <1>1, <2>1, <2>5, CustodyKept, Zenon
<1> QED
  BY <1>2, <1>3, <1>4, <1>5, <1>6, <1>7, <1>8, <1>9, Zenon
     DEF SessionAdvance, SessionEvent, WriterNext, EnvNext

(* send() and send_to() hand over a new message, close() none.             *)
LEMMA CustodyApp ==
    ASSUME TypeOK, Custody, AppStep
    PROVE  Custody'
<1>1. UNCHANGED <<buffer, buffered, pending, next_id, exhausted, inbound, arrived>>
  BY Zenon DEF AppStep, brokerVars, connectionVars
<1>2. CASE close
  <2>1. Close \in Command /\ Close.type = "Close"
    BY MessageTypes, Zenon DEF Close
  <2>2. Range(cmd) \subseteq Range(cmd') /\ Range(cmd') \subseteq Range(cmd) \cup {Close}
    BY <1>2, <2>1, SendEffect, Zenon DEF close
  <2>3. UNCHANGED <<broker, writer_ch, sent>>
    BY <1>2, Zenon DEF close
  <2> QED
    BY <1>1, <2>1, <2>2, <2>3, CustodyKept, Zenon
<1>3. ASSUME NEW id \in OptIdentity, dispatch(id)
      PROVE  Custody'
  <2> DEFINE k == Len(sent) + 1
             m == Send(id, k)
  <2>1. UNCHANGED <<broker, writer_ch>> /\ broker = "running"
    BY <1>3, Zenon DEF dispatch, Connected
  <2>2. /\ k \in Nat /\ DOMAIN sent' = DOMAIN sent \cup {k} /\ sent'[k] = id
        /\ \A j \in DOMAIN sent : sent'[j] = sent[j]
    BY <1>3 DEF dispatch, TypeOK
  <2>3. m \in Command /\ m.type = "Send" /\ m.payload = k /\ m.identity = id
    BY <2>2, MessageTypes, Zenon DEF Send
  <2>4. Range(cmd') = Range(cmd) \cup {m}
    <3>1. cmd' = Append(cmd, m)
      BY <1>3, Zenon DEF dispatch, SendCommand
    <3> QED
      BY <2>3, <3>1, ChannelSets, Zenon
  <2> HIDE DEF k, m
  <2>5. NoSilentLoss'
    <3> SUFFICES ASSUME NEW j \in DOMAIN sent', at_least_once(sent'[j])
                 PROVE  \/ InSendCommand(j)' \/ InBuffer(j)' \/ InBuffered(j)' \/ IsPending(j)'
                        \/ j \in arrived' \/ j \in exhausted'
      BY Zenon DEF NoSilentLoss, at_least_once
    <3>1. CASE j = k
      BY <2>3, <2>4, <3>1, Zenon DEF InSendCommand
    <3>2. CASE j # k
      <4>1. j \in DOMAIN sent /\ sent'[j] = sent[j]
        BY <2>2, <3>2, Zenon
      <4>2. \/ InSendCommand(j) \/ InBuffer(j) \/ InBuffered(j) \/ IsPending(j)
            \/ j \in arrived \/ j \in exhausted
        BY <2>1, <4>1, Zenon DEF Custody, NoSilentLoss
      <4> QED
        BY <1>1, <2>4, <4>2, Zenon DEF InSendCommand, InBuffer, InBuffered, IsPending
    <3> QED
      BY <3>1, <3>2, Zenon
  <2>6. CopiesAreFaithful'
    BY <1>1, <2>2, <2>3, <2>4, Zenon DEF Custody, CopiesAreFaithful
  <2>7. IdsAreOld'
    BY <1>1, <2>1, <2>3, <2>4, Zenon DEF Custody, IdsAreOld
  <2>8. FramesMatch'
    BY <1>1, <2>1, Zenon DEF Custody, FramesMatch
  <2>9. AcksAreEarned'
    BY <1>1, <2>3, <2>4, Zenon DEF Custody, AcksAreEarned
  <2> QED
    BY <2>5, <2>6, <2>7, <2>8, <2>9, Zenon DEF Custody
<1> QED
  BY <1>2, <1>3, Zenon DEF AppStep

(* The inductive invariant: every copy of a message and every ACK is       *)
(* accounted for.                                                          *)
THEOREM CustodyHolds == Spec => []Custody
<1>1. Init => Custody
  <2> SUFFICES ASSUME Init PROVE Custody
    BY Zenon
  <2>1. /\ cmd = <<>> /\ buffer = <<>> /\ buffered = <<>> /\ pending = {} /\ sent = <<>>
        /\ \A c \in Conn : writer_ch[c] = <<>> /\ inbound[c] = <<>>
    BY Zenon DEF Init, ChannelsInit, BrokerInit, ConnectionInit
  <2>2. Range(<<>>) = {}
    BY RangeFacts, Zenon
  <2>3. NoSilentLoss
    BY <2>1 DEF NoSilentLoss
  <2>4. CopiesAreFaithful
    BY <2>1, <2>2, Zenon DEF CopiesAreFaithful
  <2>5. IdsAreOld
    BY <2>1, <2>2, Zenon DEF IdsAreOld
  <2>6. FramesMatch /\ AcksAreEarned
    BY <2>1, Zenon DEF FramesMatch, AcksAreEarned
  <2> QED
    BY <2>3, <2>4, <2>5, <2>6, Zenon DEF Custody
<1>2. TypeOK /\ Custody /\ [Next]_vars => Custody'
  <2> SUFFICES ASSUME TypeOK, Custody, [Next]_vars PROVE Custody'
    BY Zenon
  <2>1. CASE UNCHANGED vars
    <3>1. UNCHANGED <<buffer, buffered, pending, sent, exhausted, next_id, broker,
                      cmd, writer_ch, inbound, arrived>>
      BY <2>1, Zenon DEF vars
    <3> QED
      BY <3>1, CustodyKept, Zenon
  <2> QED
    BY <2>1, CustodyApp, CustodyBroker, CustodyTimer, CustodyConnection, Zenon DEF Next, Terminated
<1> QED
  BY <1>1, <1>2, TypeCorrect, PTL DEF Spec

(* While the broker runs, a message accepted for at-least-once delivery is *)
(* queued, buffered, being flushed, pending, delivered or out of retries:  *)
(* no interleaving of sends, ACKs, timeouts, reconnections and lost links  *)
(* makes handle_send, handle_up, handle_received or handle_resend drop it. *)
THEOREM NothingLost == Spec => []NoSilentLoss
<1>1. Custody => NoSilentLoss
  BY Zenon DEF Custody
<1> QED
  BY <1>1, CustodyHolds, PTL

-----------------------------------------------------------------------------
(* The promise *)

(* Nothing reaches a peer or runs out of retries that was not sent.        *)
Known ==
    /\ \A c \in Conn : \A f \in Range(writer_ch[c]) : f.type # "ACK" => f.payload \in DOMAIN sent
    /\ arrived \subseteq DOMAIN sent
    /\ exhausted \subseteq DOMAIN sent

(* A step that adds no frame but ACKs and frames of sent messages.         *)
LEMMA KnownKept ==
    ASSUME Known, DOMAIN sent \subseteq DOMAIN sent',
           \A c \in Conn : \A f \in Range(writer_ch'[c]) :
               f.type = "ACK" \/ f \in Range(writer_ch[c]) \/ f.payload \in DOMAIN sent,
           arrived' \subseteq DOMAIN sent, exhausted' \subseteq DOMAIN sent
    PROVE  Known'
BY Zenon DEF Known

(* The frames transmit() adds carry the message it was called for.         *)
LEMMA TransmitKnown ==
    ASSUME TypeOK, NEW k \in DOMAIN sent, NEW n \in 0..MAX_RETRIES, NEW table,
           transmit(sent[k], k, n, table)
    PROVE  \A c \in Conn : \A f \in Range(writer_ch'[c]) :
               f \in Range(writer_ch[c]) \/ f.payload \in DOMAIN sent
<1>1. k \in Nat /\ sent[k] \in OptIdentity
  BY DEF TypeOK
<1>2. data_req(next_id, k).payload = k /\ data(k).payload = k
  BY Zenon DEF data_req, data
<1>3. \A c \in Conn :
        \/ Range(writer_ch'[c]) \subseteq Range(writer_ch[c]) \cup {data_req(next_id, k)}
        \/ Range(writer_ch'[c]) \subseteq Range(writer_ch[c]) \cup {data(k)}
  BY <1>1, TransmitEffect, Zenon
<1> QED
  BY <1>2, <1>3, Zenon

(* A step that moves no message in or out of the broker's custody is a     *)
(* step of the promise: at most something arrives.                         *)
LEMMA QuietStep ==
    ASSUME UNCHANGED <<sent, broker, exhausted>>, arrived \subseteq arrived',
           \A k \in Promised : InCustody(k)' <=> InCustody(k)
    PROVE  Guarantee!Next
<1>1. Promised' = Promised
  BY Zenon DEF Promised, at_least_once
<1>2. {k \in Promised : InCustody(k)}' = {k \in Promised : InCustody(k)}
  BY <1>1, Zenon
<1>3. Connected' = Connected
  BY Zenon DEF Connected
<1>4. Guarantee!Arrive
  BY <1>1, <1>2, <1>3, Zenon DEF Guarantee!Arrive
<1> QED
  BY <1>4, Zenon DEF Guarantee!Next

(* Custody is unchanged where the tables and the Send commands are.        *)
LEMMA CustodySame ==
    ASSUME UNCHANGED <<buffer, buffered, pending, broker>>,
           \A m \in Range(cmd) : m.type = "Send" => m \in Range(cmd'),
           \A m \in Range(cmd') : m.type = "Send" => m \in Range(cmd)
    PROVE  \A k : InCustody(k)' <=> InCustody(k)
<1>1. \A k : InSendCommand(k)' <=> InSendCommand(k)
  BY Zenon DEF InSendCommand
<1>2. \A k : (InBuffer(k)' <=> InBuffer(k)) /\ (InBuffered(k)' <=> InBuffered(k))
  BY Zenon DEF InBuffer, InBuffered
<1>3. \A k : IsPending(k)' <=> IsPending(k)
  BY Zenon DEF IsPending
<1> QED
  BY <1>1, <1>2, <1>3, Zenon DEF InCustody, Connected

(* A step of a thread that holds no message.                               *)
LEMMA OutsideCustody ==
    ASSUME TypeOK, Known,
           UNCHANGED <<buffer, buffered, pending, sent, broker, exhausted>>,
           arrived \subseteq arrived', arrived' \subseteq DOMAIN sent,
           \A m \in Range(cmd) : m.type = "Send" => m \in Range(cmd'),
           \A m \in Range(cmd') : m.type = "Send" => m \in Range(cmd),
           \A c \in Conn : Range(writer_ch'[c]) \subseteq Range(writer_ch[c])
    PROVE  Known' /\ Guarantee!Next
<1>1. \A k : InCustody(k)' <=> InCustody(k)
  BY CustodySame, Zenon
<1>2. Guarantee!Next
  BY <1>1, QuietStep, Zenon
<1>3. Known'
  <2>1. exhausted' \subseteq DOMAIN sent /\ DOMAIN sent \subseteq DOMAIN sent'
    BY Zenon DEF Known
  <2> QED
    BY <2>1, KnownKept, Zenon
<1> QED
  BY <1>2, <1>3, Zenon

(* timer_loop reports timeouts.                                            *)
LEMMA PromiseTimer ==
    ASSUME TypeOK, Known, TimerNext
    PROVE  Known' /\ Guarantee!Next
<1>1. UNCHANGED <<buffer, buffered, pending, exhausted, arrived, sent>>
  BY Zenon DEF TimerNext, brokerVars, connectionVars, appVars
<1>2. UNCHANGED <<broker, writer_ch>>
  BY Zenon DEF TimerNext, TimerStep, TimerArm, TimerCancel, TimerShutdown, TimerRecv, TimerFire
<1>3. arrived' \subseteq DOMAIN sent
  BY <1>1, Zenon DEF Known
<1>4. CASE UNCHANGED cmd
  BY <1>1, <1>2, <1>3, <1>4, OutsideCustody, Zenon
<1>5. CASE TimerFire /\ SendCommand(ResendTimeout(Head(deadlines)))
  <2>1. Head(deadlines) \in Nat
    BY <1>5 DEF TimerFire, TypeOK, TimerTypeOK
  <2>2. ResendTimeout(Head(deadlines)) \in Command
    BY <2>1, MessageTypes, Zenon
  <2>3. ResendTimeout(Head(deadlines)).type = "ResendTimeout"
    BY Zenon DEF ResendTimeout
  <2>4. /\ Range(cmd) \subseteq Range(cmd')
        /\ Range(cmd') \subseteq Range(cmd) \cup {ResendTimeout(Head(deadlines))}
    BY <1>5, <2>2, SendEffect, Zenon
  <2> QED
    BY <1>1, <1>2, <1>3, <2>3, <2>4, OutsideCustody, Zenon
<1> QED
  BY <1>4, <1>5, Zenon DEF TimerNext, TimerStep, TimerArm, TimerCancel, TimerShutdown, TimerRecv, TimerFire

(* The threads of a connection queue no Send, and what a writer delivers   *)
(* was sent.                                                               *)
LEMMA PromiseConnection ==
    ASSUME TypeOK, Known, NEW c \in Conn,
           SessionAdvance(c) \/ SessionEvent(c) \/ WriterNext(c) \/ EnvNext(c)
    PROVE  Known' /\ Guarantee!Next
<1>1. UNCHANGED <<buffer, buffered, pending, exhausted, sent>>
  BY Zenon DEF SessionAdvance, SessionEvent, WriterNext, EnvNext, brokerVars, appVars
<1>2. arrived \subseteq DOMAIN sent
  BY Zenon DEF Known
<1>3. ASSUME NEW m \in Command, m.type # "Send", SendCommand(m),
             UNCHANGED <<broker, writer_ch, arrived>>
      PROVE  Known' /\ Guarantee!Next
  <2>1. Range(cmd) \subseteq Range(cmd') /\ Range(cmd') \subseteq Range(cmd) \cup {m}
    BY <1>3, SendEffect, Zenon
  <2> QED
    BY <1>1, <1>2, <1>3, <2>1, OutsideCustody, Zenon
<1>4. ASSUME NEW p \in Identity, Register(c, p)
      PROVE  Known' /\ Guarantee!Next
  <2>1. ConnectionUp(p, c) \in Command /\ ConnectionUp(p, c).type # "Send"
    BY MessageTypes, Zenon DEF ConnectionUp
  <2> QED
    BY <1>3, <1>4, <2>1, Zenon DEF Register
<1>5. CASE Accepted(c) \/ JoinWriter(c) \/ LinkBreak(c) \/ RemoteSend(c)
  <2>1. UNCHANGED <<cmd, broker, writer_ch, arrived>>
    BY <1>5, Zenon DEF Accepted, JoinWriter, LinkBreak, RemoteSend, channels
  <2> QED
    BY <1>1, <1>2, <2>1, OutsideCustody, Zenon
<1>6. CASE Rejected(c) \/ WriterEnd(c, SenderDropped(c))
  <2>1. UNCHANGED <<cmd, broker, arrived>>
    BY <1>6, Zenon DEF Rejected, WriterEnd
  <2>2. \A d \in Conn : writer_ch'[d] = writer_ch[d] \/ writer_ch'[d] = <<>>
    BY <1>6, Zenon DEF Rejected, WriterEnd, TypeOK, ChannelsTypeOK
  <2>3. \A d \in Conn : Range(writer_ch'[d]) \subseteq Range(writer_ch[d])
    BY <2>2, RangeFacts, Zenon
  <2> QED
    BY <1>1, <1>2, <2>1, <2>3, OutsideCustody, Zenon
<1>7. CASE ReaderForward(c)
  <2> DEFINE e == Head(inbound[c])
  <2>1. e \in InFrame /\ peer[c] \in Identity
    BY <1>7, ChannelSets, Zenon DEF ReaderForward, Read, TypeOK, ConnectionTypeOK
  <2>2. Received(peer[c], c, e) \in Command /\ Received(peer[c], c, e).type # "Send"
    BY <2>1, MessageTypes, Zenon DEF Received
  <2> QED
    BY <1>3, <1>7, <2>2, Zenon DEF ReaderForward
<1>8. CASE ReaderEnd(c)
  <2>1. peer[c] \in Identity
    BY <1>8, Zenon DEF ReaderEnd, TypeOK, ConnectionTypeOK
  <2>2. ConnectionDown(peer[c], c) \in Command /\ ConnectionDown(peer[c], c).type # "Send"
    BY <2>1, MessageTypes, Zenon DEF ConnectionDown
  <2> QED
    BY <1>3, <1>8, <2>2, Zenon DEF ReaderEnd
<1>9. CASE WriterWrite(c)
  <2> DEFINE f == Head(writer_ch[c])
  <2>1. UNCHANGED <<cmd, broker>> /\ writer_ch[c] # <<>>
    BY <1>9, Zenon DEF WriterWrite
  <2>2. f \in Range(writer_ch[c])
    BY <2>1, ChannelSets, Zenon
  <2>3. \A d \in Conn : Range(writer_ch'[d]) \subseteq Range(writer_ch[d])
    <3>1. \A d \in Conn : writer_ch'[d] = IF d = c THEN Tail(writer_ch[c]) ELSE writer_ch[d]
      BY <1>9, Zenon DEF WriterWrite, TypeOK, ChannelsTypeOK
    <3> QED
      BY <2>1, <3>1, ChannelSets
  <2>4. arrived' = arrived \/ (f.type # "ACK" /\ arrived' = arrived \cup {f.payload})
    BY <1>9, Zenon DEF WriterWrite
  <2> HIDE DEF f
  <2>5. arrived \subseteq arrived' /\ arrived' \subseteq DOMAIN sent
    BY <1>2, <2>2, <2>4, Zenon DEF Known
  <2> QED
    BY <1>1, <2>1, <2>3, <2>5, OutsideCustody, Zenon
<1> QED
  BY <1>4, <1>5, <1>6, <1>7, <1>8, <1>9, Zenon
     DEF SessionAdvance, SessionEvent, WriterNext, EnvNext

(* send() and send_to() put a new message into custody, close() none.      *)
LEMMA PromiseApp ==
    ASSUME TypeOK, Custody, Known, AppStep
    PROVE  Known' /\ Guarantee!Next
<1>1. UNCHANGED <<buffer, buffered, pending, exhausted, arrived>>
  BY Zenon DEF AppStep, brokerVars, connectionVars
<1>2. CASE close
  <2>1. Close \in Command /\ Close.type = "Close"
    BY MessageTypes, Zenon DEF Close
  <2>2. Range(cmd) \subseteq Range(cmd') /\ Range(cmd') \subseteq Range(cmd) \cup {Close}
    BY <1>2, <2>1, SendEffect, Zenon DEF close
  <2>3. UNCHANGED <<broker, writer_ch, sent>> /\ arrived' \subseteq DOMAIN sent
    BY <1>1, <1>2, Zenon DEF close, Known
  <2> QED
    BY <1>1, <2>1, <2>2, <2>3, OutsideCustody, Zenon
<1>3. ASSUME NEW id \in OptIdentity, dispatch(id)
      PROVE  Known' /\ Guarantee!Next
  <2> DEFINE k == Len(sent) + 1
             m == Send(id, k)
  <2>1. UNCHANGED <<broker, writer_ch>> /\ Connected /\ Connected'
    BY <1>3, Zenon DEF dispatch, Connected
  <2>2. /\ k \in Nat /\ k \notin DOMAIN sent
        /\ DOMAIN sent' = DOMAIN sent \cup {k} /\ sent'[k] = id
        /\ \A j \in DOMAIN sent : sent'[j] = sent[j]
    BY <1>3 DEF dispatch, TypeOK
  <2>3. m \in Command /\ m.type = "Send" /\ m.payload = k
    BY <2>2, MessageTypes, Zenon DEF Send
  <2>4. Range(cmd') = Range(cmd) \cup {m}
    <3>1. cmd' = Append(cmd, m)
      BY <1>3, Zenon DEF dispatch, SendCommand
    <3> QED
      BY <2>3, <3>1, ChannelSets, Zenon
  <2> HIDE DEF k, m
  <2>5. \A j : InSendCommand(j)' <=> InSendCommand(j) \/ j = k
    BY <2>3, <2>4, Zenon DEF InSendCommand
  <2>6. \A j : /\ InBuffer(j)' <=> InBuffer(j)
               /\ InBuffered(j)' <=> InBuffered(j)
               /\ IsPending(j)' <=> IsPending(j)
    BY <1>1, Zenon DEF InBuffer, InBuffered, IsPending
  <2>7. \A j : InCustody(j)' <=> InCustody(j) \/ j = k
    BY <2>1, <2>5, <2>6, Zenon DEF InCustody
  <2>8. /\ Promised \subseteq Promised' /\ Promised' \ Promised \subseteq {k}
        /\ k \notin Promised
    BY <2>2, Zenon DEF Promised, at_least_once
  <2>9. {j \in Promised : InCustody(j)}' = {j \in Promised : InCustody(j)} \cup (Promised' \ Promised)
    BY <2>7, <2>8, Zenon
  <2>10. (arrived \cap Promised)' = arrived \cap Promised /\ (exhausted \cap Promised)' = exhausted \cap Promised
    BY <1>1, <2>2, <2>8, Zenon DEF Known
  <2>11. Guarantee!Accept
    BY <2>1, <2>8, <2>9, <2>10, Zenon DEF Guarantee!Accept
  <2>12. Known'
    BY <1>1, <2>1, <2>2, KnownKept, Zenon DEF Known
  <2> QED
    BY <2>11, <2>12, Zenon DEF Guarantee!Next
<1> QED
  BY <1>2, <1>3, Zenon DEF AppStep

-----------------------------------------------------------------------------
(* The broker *)

(* handle_send keeps in custody what the caller took from a queue.         *)
LEMMA PromiseHandleSend ==
    ASSUME TypeOK, Custody, Known, NEW k \in DOMAIN sent, handle_send(sent[k], k),
           UNCHANGED <<sent, arrived, exhausted, broker>>,
           InSendCommand(k) \/ InBuffered(k),
           \A j : (InSendCommand(j) \/ InBuffered(j)) => (InSendCommand(j)' \/ InBuffered(j)' \/ j = k),
           \A j : (InSendCommand(j)' \/ InBuffered(j)') => (InSendCommand(j) \/ InBuffered(j))
    PROVE  Known' /\ Guarantee!Next
<1>1. k \in Nat /\ sent[k] \in OptIdentity
  BY DEF TypeOK
<1>2. arrived' \subseteq DOMAIN sent /\ exhausted' \subseteq DOMAIN sent /\ DOMAIN sent \subseteq DOMAIN sent'
  BY Zenon DEF Known
<1>3. CASE NoConns
  <2> DEFINE new == [identity |-> sent[k], payload |-> k]
  <2>1. buffer' = Append(buffer, new) /\ UNCHANGED <<pending, writer_ch>>
    BY <1>3, Zenon DEF handle_send
  <2>2. new \in Message /\ new.payload = k
    BY <1>1, Zenon DEF Message
  <2> HIDE DEF new
  <2>3. Range(buffer') = Range(buffer) \cup {new}
    BY <2>1, <2>2, ChannelSets, Zenon
  <2>4. \A j : (InBuffer(j)' <=> InBuffer(j) \/ j = k) /\ (IsPending(j)' <=> IsPending(j))
    BY <2>1, <2>2, <2>3, Zenon DEF InBuffer, IsPending
  <2>5. \A j : InCustody(j)' <=> InCustody(j)
    BY <2>4, Zenon DEF InCustody, Connected
  <2>6. Known'
    BY <1>2, <2>1, KnownKept, Zenon
  <2> QED
    BY <2>5, <2>6, QuietStep, Zenon
<1>4. CASE ~NoConns
  <2>1. transmit(sent[k], k, MAX_RETRIES, pending) /\ UNCHANGED buffer
    BY <1>4, Zenon DEF handle_send
  <2>2. MAX_RETRIES \in 0..MAX_RETRIES
    BY MessagesAssumption
  <2>3. \A j : InBuffer(j)' <=> InBuffer(j)
    BY <2>1, Zenon DEF InBuffer
  <2>4. /\ \A j : IsPending(j) => IsPending(j)'
        /\ \A j : IsPending(j)' => IsPending(j) \/ j = k
        /\ at_least_once(sent[k]) => IsPending(k)'
    <3> DEFINE r == [id |-> next_id, identity |-> sent[k], payload |-> k, retries |-> MAX_RETRIES]
    <3>1. \/ at_least_once(sent[k]) /\ pending' = pending \cup {r}
          \/ ~at_least_once(sent[k]) /\ pending' = pending
      BY <1>1, <2>1, <2>2, TransmitEffect, Zenon
    <3>2. r.payload = k
      BY Zenon
    <3> HIDE DEF r
    <3> QED
      BY <3>1, <3>2, Zenon DEF IsPending
  <2>5. \A j \in Promised : InCustody(j)' <=> InCustody(j)
    BY <2>3, <2>4, Zenon DEF InCustody, Connected, Promised
  <2>6. Known'
    BY <1>2, <2>1, <2>2, TransmitKnown, KnownKept, Zenon
  <2> QED
    BY <2>5, <2>6, QuietStep, Zenon
<1> QED
  BY <1>3, <1>4, Zenon

(* Every arm of Broker::run: an ACK lets go of what arrived, handle_resend *)
(* of what has no retries left, Close of everything, the others of nothing.*)
LEMMA PromiseBroker ==
    ASSUME TypeOK, Custody, Known, BrokerNext
    PROVE  Known' /\ (Guarantee!Next \/ UNCHANGED Guarantee!vars)
<1>1. UNCHANGED <<inbound, arrived, sent>>
  BY Zenon DEF BrokerNext, connectionVars, appVars
<1>2. ASSUME NEW type, BrokerRecv(type)
      PROVE  /\ Head(cmd) \in Command /\ Head(cmd).type = type
             /\ Range(cmd) = {Head(cmd)} \cup Range(cmd')
             /\ Connected
  BY <1>2, ChannelSets, Zenon DEF BrokerRecv, TypeOK, ChannelsTypeOK, Connected
<1>3. arrived' \subseteq DOMAIN sent /\ exhausted \subseteq DOMAIN sent /\ DOMAIN sent \subseteq DOMAIN sent'
  BY <1>1, Zenon DEF Known
<1>4. Promised' = Promised /\ (arrived \cap Promised)' = arrived \cap Promised
  BY <1>1, Zenon DEF Promised, at_least_once
<1>5. CASE HandleSend
  <2> DEFINE k == Head(cmd).payload
  <2>1. /\ Head(cmd).type = "Send"
        /\ Range(cmd) = {Head(cmd)} \cup Range(cmd')
    BY <1>2, <1>5, Zenon DEF HandleSend
  <2>2. k \in DOMAIN sent /\ Head(cmd).identity = sent[k]
    BY <2>1, Zenon DEF Custody, CopiesAreFaithful
  <2>3. handle_send(sent[k], k) /\ UNCHANGED <<exhausted, broker, buffered>>
    BY <1>5, <2>2, Zenon DEF HandleSend
  <2>4. /\ InSendCommand(k)
        /\ \A j : (InSendCommand(j) \/ InBuffered(j)) => (InSendCommand(j)' \/ InBuffered(j)' \/ j = k)
        /\ \A j : (InSendCommand(j)' \/ InBuffered(j)') => (InSendCommand(j) \/ InBuffered(j))
    BY <2>1, <2>3, Zenon DEF InSendCommand, InBuffered
  <2> QED
    BY <1>1, <2>2, <2>3, <2>4, PromiseHandleSend, Zenon
<1>6. CASE HandleBuffered
  <2> DEFINE k == Head(buffered).payload
  <2>1. Range(buffered) = {Head(buffered)} \cup Range(buffered')
    BY <1>6, ChannelSets, Zenon DEF HandleBuffered
  <2>2. k \in DOMAIN sent /\ Head(buffered).identity = sent[k]
    BY <2>1, Zenon DEF Custody, CopiesAreFaithful
  <2>3. handle_send(sent[k], k) /\ UNCHANGED <<exhausted, broker, cmd>>
    BY <1>6, <2>2, Zenon DEF HandleBuffered
  <2>4. /\ InBuffered(k)
        /\ \A j : (InSendCommand(j) \/ InBuffered(j)) => (InSendCommand(j)' \/ InBuffered(j)' \/ j = k)
        /\ \A j : (InSendCommand(j)' \/ InBuffered(j)') => (InSendCommand(j) \/ InBuffered(j))
    BY <2>1, <2>3, Zenon DEF InSendCommand, InBuffered
  <2> QED
    BY <1>1, <2>2, <2>3, <2>4, PromiseHandleSend, Zenon
<1>7. CASE HandleUp
  <2>1. /\ Head(cmd).type = "ConnectionUp"
        /\ Range(cmd) = {Head(cmd)} \cup Range(cmd')
    BY <1>2, <1>7, Zenon DEF HandleUp
  <2>2. UNCHANGED <<writer_ch, broker, pending, exhausted>>
    BY <1>7, Zenon DEF HandleUp
  <2>3. Known'
    BY <1>3, <2>2, KnownKept, Zenon
  <2>4. CASE UNCHANGED <<buffer, buffered>>
    BY <1>1, <1>3, <2>1, <2>2, <2>4, OutsideCustody, Zenon
  <2>5. CASE buffered = <<>> /\ buffered' = buffer /\ buffer' = <<>>
    <3>1. Range(buffered) = {} /\ Range(buffer') = {} /\ Range(buffered') = Range(buffer)
      BY <2>5, RangeFacts, Zenon
    <3>2. \A j : (InBuffer(j)' \/ InBuffered(j)') <=> (InBuffer(j) \/ InBuffered(j))
      BY <3>1, Zenon DEF InBuffer, InBuffered
    <3>3. \A j : (InSendCommand(j)' <=> InSendCommand(j)) /\ (IsPending(j)' <=> IsPending(j))
      BY <2>1, <2>2, Zenon DEF InSendCommand, IsPending
    <3>4. \A j : InCustody(j)' <=> InCustody(j)
      BY <2>2, <3>2, <3>3, Zenon DEF InCustody, Connected
    <3> QED
      BY <1>1, <2>2, <2>3, <3>4, QuietStep, Zenon
  <2> QED
    BY <1>7, <2>4, <2>5, Zenon DEF HandleUp, BrokerRecv
<1>8. CASE HandleDown
  <2>1. /\ Head(cmd).type = "ConnectionDown"
        /\ Range(cmd) = {Head(cmd)} \cup Range(cmd')
    BY <1>2, <1>8, Zenon DEF HandleDown
  <2>2. UNCHANGED <<buffer, buffered, pending, exhausted, broker, writer_ch>>
    BY <1>8, Zenon DEF HandleDown
  <2> QED
    BY <1>1, <1>3, <2>1, <2>2, OutsideCustody, Zenon
<1>9. CASE HandleReceived
  <2> DEFINE e == Head(cmd).envelope
  <2>1. /\ Head(cmd) \in Command /\ Head(cmd).type = "Received" /\ Connected
        /\ Range(cmd) = {Head(cmd)} \cup Range(cmd')
    BY <1>2, <1>9, Zenon DEF HandleReceived
  <2>2. UNCHANGED <<broker, buffer, buffered, exhausted>>
    BY <1>9, Zenon DEF HandleReceived
  <2>3. CASE e.type = "DATA"
    <3>1. UNCHANGED <<writer_ch, pending>>
      BY <1>9, <2>3, Zenon DEF HandleReceived
    <3> QED
      BY <1>1, <1>3, <2>1, <2>2, <3>1, OutsideCustody, Zenon
  <2>4. CASE e.type = "DATA_REQ"
    <3>1. route(Head(cmd).identity, ack(e.id)) /\ UNCHANGED pending
      BY <1>9, <2>4, Zenon DEF HandleReceived
    <3>2. ack(e.id) \in OutFrame /\ ack(e.id).type = "ACK"
      BY <2>1, <2>4, CommandFields, InFrameFields, MessageTypes, Zenon DEF ack
    <3>3. \A c \in Conn : Range(writer_ch'[c]) \subseteq Range(writer_ch[c]) \cup {ack(e.id)}
      BY <3>1, <3>2, RouteEffect, Zenon
    <3>4. Known'
      BY <1>3, <2>2, <3>2, <3>3, KnownKept, Zenon
    <3>5. \A k : InCustody(k)' <=> InCustody(k)
      BY <2>1, <2>2, <3>1, CustodySame, Zenon
    <3> QED
      BY <1>1, <2>2, <3>4, <3>5, QuietStep, Zenon
  <2>5. CASE e.type = "ACK"
    <3>1. pending' = {r \in pending : r.id # e.id} /\ UNCHANGED writer_ch
      BY <1>9, <2>5, Zenon DEF HandleReceived
    <3>2. \A r \in pending : r \in pending' \/ r.payload \in arrived
      BY <2>1, <2>5, <3>1, Zenon DEF Custody, AcksAreEarned
    <3>3. \A j : /\ IsPending(j)' => IsPending(j)
                 /\ IsPending(j) => IsPending(j)' \/ j \in arrived
      BY <3>1, <3>2, Zenon DEF IsPending
    <3>4. \A j : /\ InSendCommand(j)' <=> InSendCommand(j)
                 /\ InBuffer(j)' <=> InBuffer(j)
                 /\ InBuffered(j)' <=> InBuffered(j)
      BY <2>1, <2>2, Zenon DEF InSendCommand, InBuffer, InBuffered
    <3>5. Connected' = Connected
      BY <2>2, Zenon DEF Connected
    <3>6. \A j : (InCustody(j)' => InCustody(j)) /\ (InCustody(j) => InCustody(j)' \/ j \in arrived)
      BY <3>3, <3>4, <3>5, Zenon DEF InCustody
    <3>7. Guarantee!Settle
      BY <1>4, <2>1, <2>2, <3>5, <3>6, Zenon DEF Guarantee!Settle
    <3>8. Known'
      BY <1>3, <2>2, <3>1, KnownKept, Zenon
    <3> QED
      BY <3>7, <3>8, Zenon DEF Guarantee!Next
  <2> QED
    BY <2>1, <2>3, <2>4, <2>5, CommandFields, InFrameFields, Zenon
<1>10. CASE HandleResend
  <2>1. /\ Head(cmd).type = "ResendTimeout" /\ Connected
        /\ Range(cmd) = {Head(cmd)} \cup Range(cmd')
    BY <1>2, <1>10, Zenon DEF HandleResend
  <2>2. UNCHANGED <<broker, buffered>> /\ Connected' = Connected
    BY <1>10, Zenon DEF HandleResend, Connected
  <2>3. \A j : (InSendCommand(j)' <=> InSendCommand(j)) /\ (InBuffered(j)' <=> InBuffered(j))
    BY <2>1, <2>2, Zenon DEF InSendCommand, InBuffered
  <2>4. CASE UNCHANGED <<pending, exhausted, buffer, writer_ch>>
    BY <1>1, <1>3, <2>1, <2>2, <2>4, OutsideCustody, Zenon
  <2>5. ASSUME NEW r \in pending,
               pending' = pending \ {r}, exhausted' = exhausted \cup {r.payload},
               UNCHANGED <<buffer, writer_ch>>
        PROVE  Known' /\ Guarantee!Next
    <3>1. r.payload \in DOMAIN sent /\ IsPending(r.payload)
      BY <2>5, Zenon DEF Custody, CopiesAreFaithful, IsPending
    <3>2. \A j : /\ IsPending(j)' => IsPending(j)
                 /\ IsPending(j) => IsPending(j)' \/ j = r.payload
                 /\ InBuffer(j)' <=> InBuffer(j)
      BY <2>5, Zenon DEF IsPending, InBuffer
    <3>3. \A j : (InCustody(j)' => InCustody(j)) /\ (InCustody(j) => InCustody(j)' \/ j = r.payload)
      BY <2>2, <2>3, <3>2, Zenon DEF InCustody
    <3>4. InCustody(r.payload)
      BY <2>1, <3>1, Zenon DEF InCustody
    <3>5. Guarantee!GiveUp
      BY <1>4, <2>1, <2>2, <2>5, <3>3, <3>4, Zenon DEF Guarantee!GiveUp
    <3>6. Known'
      BY <1>3, <2>5, <3>1, KnownKept, Zenon
    <3> QED
      BY <3>5, <3>6, Zenon DEF Guarantee!Next
  <2>6. ASSUME NEW r \in pending, pending' = pending \ {r},
               buffer' = Append(buffer, [identity |-> r.identity, payload |-> r.payload]),
               UNCHANGED <<exhausted, writer_ch>>
        PROVE  Known' /\ Guarantee!Next
    <3> DEFINE new == [identity |-> r.identity, payload |-> r.payload]
    <3>1. new \in Message /\ new.payload = r.payload
      BY Zenon DEF TypeOK, BrokerTypeOK, Pending, Message
    <3>2. Range(buffer') = Range(buffer) \cup {new}
      BY <2>6, <3>1, ChannelSets, Zenon
    <3> HIDE DEF new
    <3>3. \A j : InBuffer(j)' <=> InBuffer(j) \/ j = r.payload
      BY <3>1, <3>2, Zenon DEF InBuffer
    <3>4. \A j : (IsPending(j)' \/ j = r.payload) <=> (IsPending(j) \/ j = r.payload)
      BY <2>6, Zenon DEF IsPending
    <3>5. IsPending(r.payload)
      BY <2>6, Zenon DEF IsPending
    <3>6. \A j : InCustody(j)' <=> InCustody(j)
      BY <2>2, <2>3, <3>3, <3>4, <3>5, Zenon DEF InCustody
    <3>7. Known'
      BY <1>3, <2>6, KnownKept, Zenon
    <3> QED
      BY <1>1, <2>2, <2>6, <3>6, <3>7, QuietStep, Zenon
  <2>7. ASSUME NEW r \in pending, r.retries > 0,
               transmit(r.identity, r.payload, r.retries - 1, pending \ {r}),
               UNCHANGED <<exhausted, buffer>>
        PROVE  Known' /\ Guarantee!Next
    <3> DEFINE k == r.payload
               n == r.retries - 1
               new == [id |-> next_id, identity |-> sent[k], payload |-> k, retries |-> n]
    <3>1. k \in DOMAIN sent /\ r.identity = sent[k]
      BY <2>7, Zenon DEF Custody, CopiesAreFaithful
    <3>2. n \in 0..MAX_RETRIES
      BY <2>7, MessagesAssumption DEF TypeOK, BrokerTypeOK, Pending
    <3>3. k \in Nat /\ sent[k] \in OptIdentity
      BY <3>1 DEF TypeOK
    <3>4. transmit(sent[k], k, n, pending \ {r})
      BY <2>7, <3>1, Zenon
    <3>5. new.payload = k
      BY Zenon
    <3>6. \/ at_least_once(sent[k]) /\ pending' = (pending \ {r}) \cup {new}
          \/ ~at_least_once(sent[k]) /\ pending' = pending \ {r}
      BY <3>2, <3>3, <3>4, TransmitEffect, Zenon
    <3>7. \A c \in Conn : \A f \in Range(writer_ch'[c]) :
              f \in Range(writer_ch[c]) \/ f.payload \in DOMAIN sent
      BY <3>1, <3>2, <3>4, TransmitKnown, Zenon
    <3> HIDE DEF n, new
    <3>8. \A j : (IsPending(j)' \/ j = k) <=> (IsPending(j) \/ j = k)
      BY <2>7, <3>5, <3>6, Zenon DEF IsPending
    <3>9. IsPending(k) /\ (at_least_once(sent[k]) => IsPending(k)')
      BY <2>7, <3>5, <3>6, Zenon DEF IsPending
    <3>10. \A j : InBuffer(j)' <=> InBuffer(j)
      BY <2>7, Zenon DEF InBuffer
    <3>11. \A j \in Promised : InCustody(j)' <=> InCustody(j)
      BY <2>2, <2>3, <3>8, <3>9, <3>10, Zenon DEF InCustody, Promised
    <3>12. Known'
      BY <1>3, <2>7, <3>7, KnownKept, Zenon
    <3> QED
      BY <1>1, <2>2, <2>7, <3>11, <3>12, QuietStep, Zenon
  <2> QED
    BY <1>10, <2>4, <2>5, <2>6, <2>7, Zenon DEF HandleResend
<1>11. CASE HandleClose
  <2>1. Connected /\ ~Connected' /\ UNCHANGED <<writer_ch, exhausted>>
    BY <1>11, Zenon DEF HandleClose, Connected
  <2>2. {k \in Promised : InCustody(k)}' = {}
    BY <2>1, Zenon DEF InCustody
  <2>3. Guarantee!Stop
    BY <1>4, <2>1, <2>2 DEF Guarantee!Stop
  <2>4. Known'
    BY <1>3, <2>1, KnownKept, Zenon
  <2> QED
    BY <2>3, <2>4, Zenon DEF Guarantee!Next
<1>12. CASE BrokerExit(timer = "done")
  <2>1. ~Connected /\ ~Connected' /\ UNCHANGED <<writer_ch, exhausted>>
    BY <1>12, Zenon DEF BrokerExit, brokerVars, Connected
  <2>2. {k \in Promised : InCustody(k)}' = {} /\ {k \in Promised : InCustody(k)} = {}
    BY <2>1, Zenon DEF InCustody
  <2>3. Connected' = Connected /\ (exhausted \cap Promised)' = exhausted \cap Promised
    BY <1>4, <2>1, Zenon DEF Connected
  <2>4. UNCHANGED Guarantee!vars
    BY <1>4, <2>2, <2>3, Zenon DEF Guarantee!vars
  <2>5. Known'
    BY <1>3, <2>1, KnownKept, Zenon
  <2> QED
    BY <2>4, <2>5, Zenon
<1> QED
  BY <1>5, <1>6, <1>7, <1>8, <1>9, <1>10, <1>11, <1>12, Zenon DEF BrokerNext, BrokerStep

(* The threads of the socket, in any interleaving and whatever connections *)
(* come and go, implement AtLeastOnce: a message enters the custody of the *)
(* broker when send() or send_to() accepts it, never returns to it, and    *)
(* leaves it only because it arrived, because handle_resend found its      *)
(* retries used up, or because the socket closed.                          *)
THEOREM ImplementsAtLeastOnce == Spec => KeepsPromise
<1>1. Init => Known
  <2> SUFFICES ASSUME Init PROVE Known
    BY Zenon
  <2>1. /\ arrived = {} /\ exhausted = {}
        /\ \A c \in Conn : writer_ch[c] = <<>>
    BY Zenon DEF Init, ChannelsInit, BrokerInit, ConnectionInit
  <2> QED
    BY <2>1, RangeFacts, Zenon DEF Known
<1>2. Init => Guarantee!Init
  <2> SUFFICES ASSUME Init PROVE Guarantee!Init
    BY Zenon
  <2>1. sent = <<>> /\ arrived = {} /\ exhausted = {} /\ broker = "running"
    BY Zenon DEF Init, ChannelsInit, BrokerInit, ConnectionInit
  <2>2. Promised = {}
    BY <2>1 DEF Promised
  <2> QED
    BY <2>1, <2>2, Zenon DEF Guarantee!Init, Connected
<1>3. TypeOK /\ Custody /\ Known /\ [Next]_vars => Known' /\ [Guarantee!Next]_(Guarantee!vars)
  <2> SUFFICES ASSUME TypeOK, Custody, Known, [Next]_vars
               PROVE  Known' /\ (Guarantee!Next \/ UNCHANGED Guarantee!vars)
    BY Zenon
  <2>1. CASE UNCHANGED vars
    <3>1. UNCHANGED <<buffer, buffered, pending, sent, exhausted, broker, cmd, writer_ch, arrived>>
      BY <2>1, Zenon DEF vars
    <3>2. arrived' \subseteq DOMAIN sent
      BY <3>1, Zenon DEF Known
    <3> QED
      BY <3>1, <3>2, OutsideCustody, Zenon
  <2> QED
    BY <2>1, PromiseApp, PromiseBroker, PromiseTimer, PromiseConnection, Zenon DEF Next, Terminated
<1> QED
  BY <1>1, <1>2, <1>3, TypeCorrect, CustodyHolds, PTL DEF Spec, KeepsPromise, Guarantee!Spec
=============================================================================
