--------------------------- MODULE LifecycleProofs --------------------------
(***************************************************************************)
(* Theorems about module Lifecycle, for any number of bind and connect     *)
(* calls and of connections, and whether or not they overlap close().      *)
(***************************************************************************)
EXTENDS Lifecycle, TLAPS

InCmd(x) == \E i \in 1..Len(cmd) : cmd[i] = x

GateTypeOK ==
    /\ closer \in 0..6
    /\ handler \in [Conn -> {"none", "new", "handshake", "registering", "open", "leave", "done"}]
    /\ sock \in [Conn -> BOOLEAN]
    /\ registry = {c \in Conn : handler[c] \in {"handshake", "registering", "open", "leave"}}
    /\ cmd \in Seq(Conn \cup {Close})
    /\ accept \in [Conn -> {"empty", "true", "false"}]
    /\ broker \in {"running", "done"}

(* A connection that has not asked the broker, or never will, has no reply *)
(* and no command.                                                         *)
NotAsked(c) ==
    (handler[c] \in {"none", "new", "handshake"} \/ (handler[c] = "done" /\ sock[c])) =>
        accept[c] = "empty" /\ ~InCmd(c)

(* Close is in the channel or has been handled.                            *)
CloseSent == closer >= 2 => (broker = "done" \/ InCmd(Close))

(* A connection shutdown_all missed is not accepted and will not be.       *)
Missed(c) ==
    (closer >= 3 /\ sock[c]) =>
        /\ handler[c] # "open" /\ accept[c] # "true"
        /\ broker = "running" =>
             \A i \in 1..Len(cmd) : cmd[i] = c => \E j \in 1..i - 1 : cmd[j] = Close

(* The inductive invariant of NothingEscapes.                              *)
Gate == GateTypeOK /\ CloseSent /\ \A c \in Conn : NotAsked(c) /\ Missed(c)

-----------------------------------------------------------------------------
(* The order of close() that the argument needs.                           *)
LEMMA CloseOrder ==
    /\ Len(close_steps) = 6
    /\ close_steps[1] = "shutdown" /\ close_steps[2] = "Close"
    /\ close_steps[3] = "shutdown_all" /\ close_steps[4] = "take"
    /\ close_steps[5] = "join" /\ close_steps[6] = "join_broker"
BY Zenon DEF close_steps

(* A step of close() is the one its position names.                        *)
LEMMA StepAt ==
    ASSUME NEW s, closer \in 0..6, Step(s)
    PROVE  /\ closer' \in 0..6 /\ closer' = closer + 1
           /\ s = "Close" => closer = 1
           /\ s = "shutdown_all" => closer = 2
           /\ s \notin {"Close", "shutdown_all"} => closer # 1 /\ closer # 2
<1>1. closer \in 0..5 /\ close_steps[closer + 1] = s /\ closer' = closer + 1
  BY CloseOrder DEF Step, Returned
<1>2. closer = 0 \/ closer = 1 \/ closer = 2 \/ closer = 3 \/ closer = 4 \/ closer = 5
  BY <1>1
<1> QED
  BY <1>1, <1>2, CloseOrder

(* What appending a command changes.                                       *)
LEMMA AppendCmd ==
    ASSUME NEW x \in Conn \cup {Close}, cmd \in Seq(Conn \cup {Close}), cmd' = Append(cmd, x)
    PROVE  /\ cmd' \in Seq(Conn \cup {Close})
           /\ Len(cmd') = Len(cmd) + 1 /\ Len(cmd) \in Nat
           /\ cmd'[Len(cmd) + 1] = x
           /\ \A i \in 1..Len(cmd) : cmd'[i] = cmd[i]
OBVIOUS

(* What taking a command out changes.                                      *)
LEMMA TailCmd ==
    ASSUME cmd \in Seq(Conn \cup {Close}), cmd # <<>>, cmd' = Tail(cmd)
    PROVE  /\ cmd' \in Seq(Conn \cup {Close})
           /\ Len(cmd') = Len(cmd) - 1 /\ Len(cmd) \in Nat \ {0}
           /\ \A i \in 1..Len(cmd') : cmd'[i] = cmd[i + 1]
           /\ Head(cmd) = cmd[1] /\ Head(cmd) \in Conn \cup {Close}
OBVIOUS

LEMMA GateInit == Init => Gate
BY DEF Init, Gate, GateTypeOK, CloseSent, NotAsked, Missed, InCmd

(* A step that leaves the gate's variables alone keeps it.                 *)
LEMMA GateFrame ==
    Gate /\ UNCHANGED <<closer, handler, sock, registry, cmd, accept, broker>> => Gate'
BY DEF Gate, GateTypeOK, CloseSent, NotAsked, Missed, InCmd

(* The steps of close().                                                   *)
LEMMA GateClose == Gate /\ close => Gate'
<1> SUFFICES ASSUME Gate, close PROVE Gate'
  BY Zenon
<1> USE DEF Gate, GateTypeOK, CloseSent, NotAsked, Missed, InCmd
<1>1. CASE CloseFirst
  BY <1>1, GateFrame, Zenon DEF CloseFirst, connVars
<1>2. ASSUME NEW s, s \notin {"Close", "shutdown_all"}, Step(s),
             UNCHANGED <<handler, sock, registry, cmd, accept, broker>>
      PROVE  Gate'
  <2>1. closer' \in 0..6 /\ closer' = closer + 1 /\ closer # 1 /\ closer # 2
    BY <1>2, StepAt, Zenon
  <2> QED
    BY <1>2, <2>1
<1>3. CASE StoreShutdown
  BY <1>3, <1>2, Zenon DEF StoreShutdown, connVars
<1>4. CASE SendClose
  <2>1. closer = 1 /\ closer' = 2
    BY <1>4, StepAt DEF SendClose
  <2>2. cmd' = Append(cmd, Close) /\ UNCHANGED <<handler, sock, registry, accept, broker>>
    BY <1>4, Zenon DEF SendClose, connVars
  <2>3. /\ cmd' \in Seq(Conn \cup {Close})
        /\ Len(cmd') = Len(cmd) + 1 /\ Len(cmd) \in Nat
        /\ cmd'[Len(cmd) + 1] = Close
        /\ \A i \in 1..Len(cmd) : cmd'[i] = cmd[i]
    BY <2>2, AppendCmd, Zenon
  <2>4. CloseSent'
    BY <2>3
  <2>5. \A c \in Conn : InCmd(c)' => InCmd(c)
    BY <2>3, LifecycleAssumption
  <2>6. GateTypeOK' /\ \A c \in Conn : Missed(c)'
    BY <2>1, <2>2, <2>3
  <2>7. ASSUME NEW c \in Conn PROVE NotAsked(c)'
    BY <2>2, <2>5, Zenon
  <2> QED
    BY <2>4, <2>6, <2>7, Zenon
<1>5. CASE shutdown_all
  <2>1. closer = 2 /\ closer' = 3
    BY <1>5, StepAt DEF shutdown_all
  <2>2. /\ sock' = [c \in Conn |-> sock[c] /\ c \notin registry]
        /\ UNCHANGED <<handler, registry, cmd, accept, broker>>
    BY <1>5, Zenon DEF shutdown_all
  <2>3. ASSUME NEW c \in Conn, sock'[c]
        PROVE  sock[c] /\ c \notin registry
    BY Zenon, <2>2, <2>3
  <2>4. \A c \in Conn : NotAsked(c)'
    BY <2>2, <2>3, Zenon
  <2>5. \A c \in Conn : Missed(c)'
    <3> SUFFICES ASSUME NEW c \in Conn, sock'[c] PROVE handler[c] # "open" /\ accept[c] = "empty" /\ ~InCmd(c)
      BY <2>2, Zenon
    <3> QED
      BY <2>3
  <2> QED
    BY <2>1, <2>2, <2>4, <2>5
<1>6. CASE TakeThreads
  BY <1>6, <1>2, Zenon DEF TakeThreads, connVars
<1>7. CASE JoinThreads
  BY <1>7, <1>2, Zenon DEF JoinThreads, connVars
<1>8. CASE JoinBroker
  BY <1>8, <1>2, Zenon DEF JoinBroker, connVars
<1> QED
  BY Zenon, <1>1, <1>3, <1>4, <1>5, <1>6, <1>7, <1>8 DEF close

(* The calls and the loops; a new connection has not asked the broker.     *)
LEMMA GateLoops ==
    ASSUME NEW l \in Loop, Gate, Call(l) \/ CallStep(l) \/ LoopNext(l)
    PROVE  Gate'
<1>1. CASE Call(l) \/ CallStep(l)
  BY <1>1, GateFrame, Zenon DEF Call, CallStep, Spawn, Push, connVars
<1>2. ASSUME NEW c \in Conn, NewConn(l, c), UNCHANGED <<closer, cmd, broker>>
      PROVE  Gate'
  BY <1>2, Zenon DEF NewConn, Gate, GateTypeOK, CloseSent, NotAsked, Missed, InCmd
<1>3. ASSUME NEW p, Goto(l, p), UNCHANGED connVars
      PROVE  Gate'
  BY <1>3, GateFrame, Zenon DEF Goto, connVars, appVars
<1>4. CASE Accept(l)
  BY Zenon, <1>4, <1>2, <1>3 DEF Accept, Goto, appVars
<1>5. CASE Dial(l)
  BY <1>5, <1>2, <1>3, Zenon DEF Dial, Goto, appVars
<1>6. CASE TestShutdown(l) \/ Handled(l) \/ AfterSession(l) \/ sleep_with_shutdown(l) \/ JoinHandlers(l)
  BY <1>6, <1>3, Zenon DEF TestShutdown, Handled, AfterSession, sleep_with_shutdown, JoinHandlers
<1> QED
  BY <1>1, <1>4, <1>5, <1>6, Zenon DEF LoopNext, accept_loop, connect_loop

(* The broker; what it takes out first cannot be a missed connection.      *)
LEMMA GateBroker == Gate /\ BrokerNext => Gate'
<1> SUFFICES ASSUME Gate, BrokerNext PROVE Gate'
  BY Zenon
<1> USE DEF Gate, GateTypeOK
<1>1. cmd # <<>> /\ cmd' = Tail(cmd) /\ broker = "running" /\ UNCHANGED <<closer, handler, sock, registry>>
  BY Zenon DEF BrokerNext, appVars
<1>2. /\ cmd' \in Seq(Conn \cup {Close})
      /\ Len(cmd') = Len(cmd) - 1 /\ Len(cmd) \in Nat \ {0}
      /\ \A i \in 1..Len(cmd') : cmd'[i] = cmd[i + 1]
      /\ Head(cmd) = cmd[1] /\ Head(cmd) \in Conn \cup {Close}
  BY <1>1, TailCmd, Zenon
<1>3. \A x : InCmd(x)' => InCmd(x)
  BY <1>2 DEF InCmd
<1>4. CASE Head(cmd) = Close /\ broker' = "done" /\ UNCHANGED accept
  BY <1>1, <1>2, <1>3, <1>4, Zenon DEF CloseSent, NotAsked, Missed
<1>5. ASSUME Head(cmd) # Close, NEW r \in {"true", "false"},
             accept' = [accept EXCEPT ![Head(cmd)] = r], UNCHANGED broker
      PROVE  Gate'
  <2>1. GateTypeOK'
    BY <1>1, <1>2, <1>5, Zenon
  <2>2. CloseSent'
    <3>1. ASSUME NEW i \in 1..Len(cmd), cmd[i] = Close
          PROVE  i - 1 \in 1..Len(cmd') /\ cmd'[i - 1] = Close
      <4>1. i # 1
        BY <1>2, <1>5, <3>1, Zenon
      <4> QED
        BY <1>2, <3>1, <4>1
    <3>2. InCmd(Close) => InCmd(Close)'
      BY <3>1, Zenon DEF InCmd
    <3> QED
      BY <1>1, <1>5, <3>2, Zenon DEF CloseSent
  <2>3. ASSUME NEW c \in Conn PROVE NotAsked(c)'
    <3>1. CASE c = Head(cmd)
      BY <1>1, <1>2, <3>1 DEF NotAsked, InCmd
    <3>2. CASE c # Head(cmd)
      BY <1>1, <1>3, <1>5, <3>2, Zenon DEF NotAsked
    <3> QED
      BY <3>1, <3>2, Zenon
  <2>4. ASSUME NEW c \in Conn, closer >= 3, sock[c]
        PROVE  /\ handler[c] # "open" /\ accept'[c] # "true"
               /\ \A i \in 1..Len(cmd') : cmd'[i] = c => \E j \in 1..i - 1 : cmd'[j] = Close
    <3>1. /\ handler[c] # "open" /\ accept[c] # "true"
          /\ \A i \in 1..Len(cmd) : cmd[i] = c => \E j \in 1..i - 1 : cmd[j] = Close
      BY <1>1, <2>4, Zenon DEF Missed
    <3>2. c # Head(cmd)
      BY <1>2, <3>1
    <3>3. ASSUME NEW i \in 1..Len(cmd'), cmd'[i] = c
          PROVE  \E j \in 1..i - 1 : cmd'[j] = Close
      <4> HIDE DEF Gate, GateTypeOK
      <4>1. i + 1 \in 1..Len(cmd) /\ cmd[i + 1] = c
        <5>1. i + 1 \in 1..Len(cmd)
          BY <1>2
        <5> QED
          BY <1>2, <3>3, <5>1, Zenon
      <4>2. PICK j \in 1..i : cmd[j] = Close
        BY <3>1, <4>1
      <4>3. j # 1
        BY <1>2, <1>5, <4>2, Zenon
      <4>4. j - 1 \in 1..i - 1 /\ cmd'[j - 1] = Close
        BY <1>2, <3>3, <4>2, <4>3
      <4> QED
        BY <4>4, Zenon
    <3> QED
      BY <1>5, <3>1, <3>2, <3>3, Zenon
  <2>5. \A c \in Conn : Missed(c)'
    BY Zenon, <1>1, <2>4 DEF Missed
  <2> QED
    BY Zenon, <2>1, <2>2, <2>3, <2>5
<1> QED
  BY <1>1, <1>4, <1>5, Zenon DEF BrokerNext

(* The handlers; one that asks after Close was sent asks behind it.        *)
LEMMA GateHandlers ==
    ASSUME NEW c \in Conn, Gate, HandlerNext(c) \/ PeerGone(c)
    PROVE  Gate'
<1> USE DEF Gate, GateTypeOK
<1>1. CASE RegisterSocket(c)
  BY <1>1 DEF RegisterSocket, At, appVars, CloseSent, NotAsked, Missed, InCmd
<1>2. CASE SendUp(c)
  <2>1. CASE broker = "done" /\ At(c, "handshake", "leave") /\ UNCHANGED cmd
    BY <1>2, <2>1 DEF SendUp, At, appVars, CloseSent, NotAsked, Missed, InCmd
  <2>2. CASE broker = "running" /\ At(c, "handshake", "registering") /\ cmd' = Append(cmd, c)
    <3>1. /\ handler[c] = "handshake" /\ handler' = [handler EXCEPT ![c] = "registering"]
          /\ UNCHANGED <<closer, sock, registry, accept, broker>>
      BY <1>2, <2>2, Zenon DEF SendUp, At, appVars
    <3>2. /\ cmd' \in Seq(Conn \cup {Close})
          /\ Len(cmd') = Len(cmd) + 1 /\ Len(cmd) \in Nat
          /\ cmd'[Len(cmd) + 1] = c
          /\ \A i \in 1..Len(cmd) : cmd'[i] = cmd[i]
      BY <2>2, AppendCmd, Zenon
    <3>3. GateTypeOK'
      BY <3>1, <3>2, Zenon
    <3>4. CloseSent'
      BY <3>1, <3>2 DEF CloseSent, InCmd
    <3>5. ASSUME NEW d \in Conn PROVE NotAsked(d)'
      <4>1. CASE d = c
        BY <3>1, <4>1, Zenon DEF NotAsked
      <4>2. CASE d # c
        <5> HIDE DEF Gate, GateTypeOK
        <5>1. ASSUME NEW i \in 1..Len(cmd'), cmd'[i] = d
              PROVE  i \in 1..Len(cmd) /\ cmd[i] = d
          <6>1. i # Len(cmd) + 1
            BY <3>2, <4>2, <5>1, Zenon
          <6>2. i \in 1..Len(cmd)
            BY <3>2, <6>1
          <6> QED
            BY <3>2, <5>1, <6>2, Zenon
        <5>2. InCmd(d)' => InCmd(d)
          BY <5>1, Zenon DEF InCmd
        <5> QED
          BY <3>1, <4>2, <5>2, Zenon DEF NotAsked, Gate, GateTypeOK
      <4> QED
        BY <4>1, <4>2, Zenon
    <3>6. ASSUME NEW d \in Conn, closer >= 3, sock[d]
          PROVE  /\ handler'[d] # "open" /\ accept[d] # "true"
                 /\ \A i \in 1..Len(cmd') : cmd'[i] = d => \E j \in 1..i - 1 : cmd'[j] = Close
      <4>1. /\ handler[d] # "open" /\ accept[d] # "true"
            /\ \A i \in 1..Len(cmd) : cmd[i] = d => \E j \in 1..i - 1 : cmd[j] = Close
        BY <2>2, <3>6, Zenon DEF Missed
      <4>2. PICK k \in 1..Len(cmd) : cmd[k] = Close
        BY <2>2, <3>6 DEF CloseSent, InCmd
      <4>3. ASSUME NEW i \in 1..Len(cmd'), cmd'[i] = d
            PROVE  \E j \in 1..i - 1 : cmd'[j] = Close
        <5>1. CASE i = Len(cmd) + 1
          BY <3>2, <4>2, <5>1
        <5>2. CASE i \in 1..Len(cmd)
          <6>1. PICK j \in 1..i - 1 : cmd[j] = Close
            BY <3>2, <4>1, <4>3, <5>2, Zenon
          <6>2. j \in 1..Len(cmd)
            BY <3>2, <5>2, <6>1
          <6>3. cmd'[j] = Close
            BY <3>2, <6>1, <6>2, Zenon
          <6> QED
            BY <6>1, <6>3, Zenon
        <5> QED
          BY <3>2, <5>1, <5>2
      <4> QED
        BY <3>1, <4>1, <4>3, Zenon
    <3>7. \A d \in Conn : Missed(d)'
      BY <3>1, <3>6, Zenon DEF Missed
    <3> QED
      BY <3>3, <3>4, <3>5, <3>7, Zenon
  <2> QED
    BY <1>2, <2>1, <2>2, Zenon DEF SendUp
<1>3. CASE HandshakeFails(c)
  BY <1>3 DEF HandshakeFails, At, appVars, CloseSent, NotAsked, Missed, InCmd
<1>4. CASE Reply(c)
  BY <1>4 DEF Reply, At, appVars, CloseSent, NotAsked, Missed, InCmd
<1>5. CASE SessionEnds(c)
  BY <1>5 DEF SessionEnds, At, appVars, CloseSent, NotAsked, Missed, InCmd
<1>6. CASE Deregister(c)
  BY <1>6, Zenon DEF Deregister, At, appVars, CloseSent, NotAsked, Missed, InCmd
<1>7. CASE PeerGone(c)
  BY <1>7, Zenon DEF PeerGone, appVars, CloseSent, NotAsked, Missed, InCmd
<1> QED
  BY Zenon, <1>1, <1>2, <1>3, <1>4, <1>5, <1>6, <1>7 DEF HandlerNext

LEMMA GateStep == Gate /\ [Next]_vars => Gate'
<1> SUFFICES ASSUME Gate, [Next]_vars PROVE Gate'
  BY Zenon
<1>1. CASE close
  BY <1>1, GateClose, Zenon
<1>2. CASE BrokerNext
  BY <1>2, GateBroker, Zenon
<1>3. CASE \E l \in Loop : Call(l) \/ CallStep(l) \/ LoopNext(l)
  BY <1>3, GateLoops, Zenon
<1>4. CASE \E c \in Conn : HandlerNext(c) \/ PeerGone(c)
  BY <1>4, GateHandlers, Zenon
<1>5. CASE UNCHANGED vars
  BY <1>5, GateFrame, Zenon DEF vars
<1> QED
  BY Zenon, <1>1, <1>2, <1>3, <1>4, <1>5 DEF Next

(* No connection escapes close(): the socket of a session that is still    *)
(* open once shutdown_all has run was among those it shut down             *)
(* (lib.rs close, conn.rs handle_connection and register).                 *)
THEOREM NothingEscapes == Spec => []NoEscape
<1>1. Gate /\ [Next]_vars => Gate'
  BY GateStep, Zenon
<1>2. Gate => NoEscape
  <2> SUFFICES ASSUME Gate, Done("shutdown_all"), NEW c \in Conn, handler[c] = "open", sock[c]
               PROVE  FALSE
    BY Zenon DEF NoEscape, Gate, GateTypeOK
  <2>1. closer >= 3
    BY CloseOrder DEF Done, Gate, GateTypeOK
  <2> QED
    BY <2>1, Zenon DEF Gate, Missed
<1> QED
  BY <1>1, <1>2, GateInit, PTL DEF Spec

-----------------------------------------------------------------------------
(* What close() has stopped when it returns *)

EndTypeOK ==
    /\ closed \in BOOLEAN /\ closer \in 0..6
    /\ call \in [Loop -> {"idle", "checked", "spawned", "done"}]
    /\ loop \in [Loop -> {"none", "test", "accept", "join", "dial", "handle", "after", "sleep", "done"}]
    /\ owner \in [Conn -> Loop \cup {NoLoop}]
    /\ threads \subseteq Loop /\ taken \subseteq Loop
    /\ \A l \in AcceptLoop : loop[l] \in {"none", "test", "accept", "join", "done"}
    /\ \A l \in ConnectLoop : loop[l] \notin {"accept", "join"}

(* The handlers of l have returned.                                        *)
Quiet(l) == \A c \in Conn : owner[c] = l => handler[c] \in {"none", "done"}

(* A loop that has not started or has ended has no handler, and a          *)
(* connect loop has one only while it waits for it.                        *)
Joined ==
    /\ \A c \in Conn : handler[c] # "none" => owner[c] \in Loop
    /\ \A l \in Loop : loop[l] \in {"none", "done"} => Quiet(l)
    /\ \A l \in ConnectLoop : loop[l] # "handle" => Quiet(l)

(* close() finds the handle of every loop that was started: no call is     *)
(* half way when it begins, and none begins after.                         *)
Handles ==
    /\ closed => \A l \in Loop : call[l] \in {"idle", "done"}
    /\ closer > 0 => closed
    /\ \A l \in Loop : /\ call[l] \in {"idle", "checked"} => loop[l] = "none"
                       /\ call[l] = "done" => l \in threads \cup taken
    /\ closer <= 3 => taken = {}
    /\ closer >= 4 => threads = {}

(* The inductive invariant of StopsEverything.                             *)
Ends ==
    /\ EndTypeOK /\ Joined /\ Handles
    /\ closer >= 5 => \A l \in taken : loop[l] = "done"
    /\ closer = 6 => broker = "done"

LEMMA EndsInit == Init => Ends
<1> SUFFICES ASSUME Init PROVE Ends
  BY Zenon
<1>1. EndTypeOK
  <2>1. closer \in 0..6 /\ threads \subseteq Loop /\ taken \subseteq Loop
    BY DEF Init
  <2>4. closed \in BOOLEAN
    BY Zenon DEF Init
  <2>2. /\ call = [l \in Loop |-> "idle"] /\ loop = [l \in Loop |-> "none"]
        /\ owner = [c \in Conn |-> NoLoop]
    BY Zenon DEF Init
  <2>3. \A l \in AcceptLoop \cup ConnectLoop : loop[l] = "none"
    BY <2>2, Zenon DEF Loop
  <2> QED
    BY <2>1, <2>2, <2>3, <2>4, Zenon DEF EndTypeOK
<1>2. Joined
  BY Zenon DEF Init, Joined, Quiet, Loop
<1>3. Handles /\ closer = 0
  BY DEF Init, Handles
<1> QED
  BY <1>1, <1>2, <1>3 DEF Ends

(* A step that only a connection or the broker takes.                      *)
LEMMA EndsFrame ==
    ASSUME Ends, UNCHANGED <<appVars, loop, owner>>, broker = "done" => broker' = "done",
           \A c \in Conn : handler[c] \in {"none", "done"} => handler'[c] = handler[c]
    PROVE  Ends'
<1>1. UNCHANGED <<closed, threads, taken, closer, call, loop, owner>>
  BY Zenon DEF appVars
<1>2. EndTypeOK' /\ Handles'
  BY <1>1, Zenon DEF Ends, EndTypeOK, Handles
<1>3. \A l : Quiet(l) => Quiet(l)'
  BY <1>1, Zenon DEF Quiet
<1>4. Joined'
  <2>1. \A c \in Conn : handler'[c] # "none" => owner'[c] \in Loop
    BY <1>1, Zenon DEF Ends, Joined
  <2> QED
    BY <1>1, <1>3, <2>1, Zenon DEF Ends, Joined
<1> QED
  BY <1>1, <1>2, <1>4, Zenon DEF Ends

LEMMA EndsHandlers ==
    ASSUME Gate, Ends, BrokerNext \/ \E c \in Conn : HandlerNext(c) \/ PeerGone(c)
    PROVE  Ends'
<1>1. UNCHANGED <<appVars, loop, owner>> /\ (broker = "done" => broker' = "done")
  BY Zenon DEF BrokerNext, HandlerNext, PeerGone, RegisterSocket, SendUp, HandshakeFails, Reply,
         SessionEnds, Deregister
<1>2. CASE UNCHANGED handler
  BY <1>1, <1>2, EndsFrame, Zenon
<1>3. ASSUME NEW c \in Conn, HandlerNext(c)
      PROVE  \A d \in Conn : handler[d] \in {"none", "done"} => handler'[d] = handler[d]
  <2>1. PICK p \in {"new", "handshake", "registering", "open", "leave"},
             q \in {"handshake", "done", "registering", "leave", "open"} : At(c, p, q)
    BY <1>3, Zenon DEF HandlerNext, RegisterSocket, SendUp, HandshakeFails, Reply, SessionEnds, Deregister
  <2> QED
    BY <2>1, Zenon DEF At, Gate, GateTypeOK
<1> QED
  BY <1>1, <1>2, <1>3, EndsFrame, Zenon DEF BrokerNext, PeerGone

(* A loop moves on and leaves the connections as they are.                 *)
LEMMA EndsGoto ==
    ASSUME Ends, NEW l \in Loop, NEW p \in {"test", "accept", "join", "dial", "after", "sleep", "done"},
           loop[l] \notin {"none", "done"}, Goto(l, p), UNCHANGED <<owner, handler>>,
           l \in AcceptLoop => p \in {"test", "accept", "join", "done"},
           l \in ConnectLoop => p \notin {"accept", "join"},
           p = "done" \/ l \in ConnectLoop => Quiet(l)
    PROVE  Ends'
<1>1. /\ UNCHANGED <<closed, threads, taken, closer, call, owner, handler, broker>>
      /\ loop' = [loop EXCEPT ![l] = p]
  BY Zenon DEF Goto, appVars
<1>2. EndTypeOK'
  BY <1>1, Zenon DEF Ends, EndTypeOK, Loop
<1>3. \A k : Quiet(k)' <=> Quiet(k)
  BY <1>1, Zenon DEF Quiet
<1>4. /\ loop'[l] = p /\ \A k \in Loop : k # l => loop'[k] = loop[k]
      /\ AcceptLoop \subseteq Loop /\ ConnectLoop \subseteq Loop
  BY <1>1, Zenon DEF Ends, EndTypeOK, Loop
<1>5. Joined'
  BY <1>1, <1>3, <1>4, Zenon DEF Ends, Joined
<1>6. Handles'
  BY <1>1, <1>4, Zenon DEF Ends, Handles
<1>7. closer' >= 5 => \A k \in taken' : loop'[k] = "done"
  BY <1>1, <1>4, Zenon DEF Ends, EndTypeOK
<1> QED
  BY <1>1, <1>2, <1>5, <1>6, <1>7, Zenon DEF Ends

(* A loop takes a new connection.                                          *)
LEMMA EndsNewConn ==
    ASSUME Gate, Ends, NEW l \in Loop, NEW c \in Conn, NewConn(l, c), NEW p, Goto(l, p),
           \/ l \in AcceptLoop /\ loop[l] = "accept" /\ p = "test"
           \/ l \in ConnectLoop /\ loop[l] = "dial" /\ p = "handle"
    PROVE  Ends'
<1>1. /\ UNCHANGED <<closed, threads, taken, closer, call, broker>>
      /\ loop' = [loop EXCEPT ![l] = p]
      /\ handler[c] = "none" /\ handler' = [handler EXCEPT ![c] = "new"]
      /\ owner' = [owner EXCEPT ![c] = l]
  BY Zenon DEF Goto, NewConn, appVars
<1>2. /\ loop'[l] = p /\ \A k \in Loop : k # l => loop'[k] = loop[k]
      /\ AcceptLoop \subseteq Loop /\ ConnectLoop \subseteq Loop /\ AcceptLoop \cap ConnectLoop = {}
      /\ owner'[c] = l /\ \A d \in Conn : d # c => owner'[d] = owner[d] /\ handler'[d] = handler[d]
  BY <1>1, LifecycleAssumption, Zenon DEF Gate, GateTypeOK, Ends, EndTypeOK, Loop
<1>3. EndTypeOK'
  BY <1>1, <1>2, Zenon DEF Ends, EndTypeOK
<1>4. \A k \in Loop : k # l /\ Quiet(k) => Quiet(k)'
  BY <1>2, Zenon DEF Quiet
<1>5. Joined'
  <2>1. \A d \in Conn : handler'[d] # "none" => owner'[d] \in Loop
    BY <1>2, Zenon DEF Ends, Joined
  <2>2. \A k \in Loop : loop'[k] \in {"none", "done"} => Quiet(k)'
    BY <1>2, <1>4, Zenon DEF Ends, Joined
  <2>3. \A k \in ConnectLoop : loop'[k] # "handle" => Quiet(k)'
    BY <1>2, <1>4, Zenon DEF Ends, Joined
  <2> QED
    BY <2>1, <2>2, <2>3, Zenon DEF Joined
<1>6. Handles'
  BY <1>1, <1>2, Zenon DEF Ends, Handles
<1>7. closer' >= 5 => \A k \in taken' : loop'[k] = "done"
  BY <1>1, <1>2, Zenon DEF Ends, EndTypeOK
<1> QED
  BY <1>1, <1>3, <1>5, <1>6, <1>7, Zenon DEF Ends

LEMMA EndsLoops ==
    ASSUME Gate, Ends, NEW l \in Loop, LoopNext(l)
    PROVE  Ends'
<1>1. /\ l \in AcceptLoop \cup ConnectLoop /\ AcceptLoop \cap ConnectLoop = {}
      /\ l \in AcceptLoop => loop[l] \in {"none", "test", "accept", "join", "done"}
      /\ l \in ConnectLoop => loop[l] \notin {"accept", "join"}
      /\ l \in ConnectLoop /\ loop[l] # "handle" => Quiet(l)
  BY LifecycleAssumption, Zenon DEF Loop, Ends, EndTypeOK, Joined
<1>2. CASE TestShutdown(l)
  <2>1. UNCHANGED <<owner, handler>> /\ loop[l] = "test"
    BY <1>2, Zenon DEF TestShutdown, connVars
  <2>2. CASE l \in AcceptLoop
    <3>1. PICK p \in {"join", "accept"} : Goto(l, p)
      BY <1>2, <2>2, Zenon DEF TestShutdown
    <3>2. l \notin ConnectLoop
      BY <2>2, LifecycleAssumption, Zenon
    <3> QED
      BY <2>1, <3>1, <3>2, EndsGoto, Zenon
  <2>3. CASE l \notin AcceptLoop
    <3>1. PICK p \in {"done", "dial"} : Goto(l, p)
      BY <1>2, <2>3, Zenon DEF TestShutdown
    <3>2. l \in ConnectLoop /\ Quiet(l)
      BY <1>1, <2>1, <2>3, Zenon
    <3> QED
      BY <2>1, <2>3, <3>1, <3>2, EndsGoto, Zenon
  <2> QED
    BY <2>2, <2>3, Zenon
<1>3. CASE Accept(l)
  <2>1. l \in AcceptLoop /\ l \notin ConnectLoop /\ loop[l] = "accept" /\ Goto(l, "test")
    BY <1>1, <1>3, LifecycleAssumption, Zenon DEF Accept
  <2>2. CASE UNCHANGED connVars
    BY <2>1, <2>2, EndsGoto, Zenon DEF connVars
  <2>3. ASSUME NEW c \in Conn, NewConn(l, c)
        PROVE  Ends'
    BY <2>1, <2>3, EndsNewConn, Zenon
  <2> QED
    BY <1>3, <2>2, <2>3, Zenon DEF Accept
<1>4. CASE Dial(l)
  <2>1. l \in ConnectLoop /\ l \notin AcceptLoop /\ loop[l] = "dial" /\ Quiet(l)
    BY <1>1, <1>4, LifecycleAssumption, Zenon DEF Dial
  <2>2. CASE Goto(l, "after") /\ UNCHANGED connVars
    BY <2>1, <2>2, EndsGoto, Zenon DEF connVars
  <2>3. ASSUME NEW c \in Conn, NewConn(l, c), Goto(l, "handle")
        PROVE  Ends'
    BY <2>1, <2>3, EndsNewConn, Zenon
  <2> QED
    BY <1>4, <2>2, <2>3, Zenon DEF Dial
<1>5. CASE Handled(l)
  <2>1. /\ loop[l] = "handle" /\ Goto(l, "after") /\ UNCHANGED <<owner, handler>> /\ Quiet(l)
        /\ l \notin AcceptLoop
    BY <1>1, <1>5, Zenon DEF Handled, connVars, Quiet
  <2> QED
    BY <2>1, EndsGoto, Zenon
<1>6. CASE AfterSession(l) \/ sleep_with_shutdown(l)
  <2>1. /\ loop[l] \in {"after", "sleep"} /\ UNCHANGED <<owner, handler>>
        /\ \E p \in {"done", "sleep", "test"} : Goto(l, p)
    BY <1>6, Zenon DEF AfterSession, sleep_with_shutdown, connVars
  <2>2. l \notin AcceptLoop /\ Quiet(l)
    BY <1>1, <2>1, Zenon
  <2> QED
    BY <2>1, <2>2, EndsGoto, Zenon
<1>7. CASE JoinHandlers(l)
  <2>1. loop[l] = "join" /\ Goto(l, "done") /\ UNCHANGED <<owner, handler>> /\ Quiet(l)
    BY <1>7, Zenon DEF JoinHandlers, connVars, Quiet
  <2> QED
    BY <2>1, EndsGoto, Zenon
<1> QED
  BY <1>2, <1>3, <1>4, <1>5, <1>6, <1>7, Zenon DEF LoopNext, accept_loop, connect_loop

(* bind() and connect() that do not overlap close().                       *)
LEMMA EndsCalls ==
    ASSUME ~Overlap, Ends, NEW l \in Loop, Call(l) \/ CallStep(l)
    PROVE  Ends'
<1>1. ~closed /\ closer = 0
  BY DEF Ends, EndTypeOK, Handles, Call, CallStep, Spawn, Push
<1>2. UNCHANGED <<closed, closer, taken, owner, handler, broker>>
  BY Zenon DEF Call, CallStep, Spawn, Push, connVars
<1>3. Joined' /\ EndTypeOK'
  <2>1. \A k : Quiet(k)' <=> Quiet(k)
    BY <1>2, Zenon DEF Quiet
  <2>2. CASE UNCHANGED loop
    BY <1>2, <2>1, <2>2, Zenon DEF Ends, Joined, EndTypeOK, Call, CallStep, Spawn, Push
  <2>3. CASE Spawn(l)
    <3>1. /\ loop[l] = "none" /\ loop' = [loop EXCEPT ![l] = "test"]
          /\ AcceptLoop \subseteq Loop /\ ConnectLoop \subseteq Loop
      BY <2>3, Zenon DEF Spawn, Ends, Handles, Loop
    <3>2. /\ loop'[l] = "test" /\ Quiet(l)
          /\ \A k \in Loop : k # l => loop'[k] = loop[k]
      BY <3>1, Zenon DEF Ends, EndTypeOK, Joined
    <3>3. Joined'
      BY <1>2, <2>1, <3>1, <3>2, Zenon DEF Ends, Joined
    <3>4. EndTypeOK'
      BY <1>2, <2>3, <3>1, <3>2, Zenon DEF Ends, EndTypeOK, Spawn
    <3> QED
      BY <3>3, <3>4, Zenon
  <2> QED
    BY <2>2, <2>3, Zenon DEF Call, CallStep, Push
<1>4. Handles'
  BY <1>1, <1>2 DEF Ends, EndTypeOK, Handles, Call, CallStep, Spawn, Push
<1> QED
  BY <1>1, <1>2, <1>3, <1>4 DEF Ends

LEMMA EndsClose ==
    ASSUME ~Overlap, Ends, close
    PROVE  Ends'
<1>1. UNCHANGED <<call, loop, owner, handler, broker>>
  BY Zenon DEF close, CloseFirst, StoreShutdown, SendClose, shutdown_all, TakeThreads, JoinThreads,
         JoinBroker, connVars
<1>2. Joined'
  BY <1>1, Zenon DEF Ends, Joined, Quiet
<1>3. CASE CloseFirst
  <2>1. closed' = TRUE /\ UNCHANGED <<threads, taken, closer>> /\ \A l \in Loop : call[l] \in {"idle", "done"}
    BY <1>3, Zenon DEF CloseFirst
  <2> QED
    BY <1>1, <1>2, <2>1, Zenon DEF Ends, EndTypeOK, Handles
<1>4. ASSUME NEW s, Step(s), closed' = closed,
             IF s = "take" THEN taken' = threads /\ threads' = {} ELSE UNCHANGED <<threads, taken>>,
             s = "join" => \A l \in taken : loop[l] = "done",
             s = "join_broker" => broker = "done"
      PROVE  Ends'
  <2>1. closed /\ closer' = closer + 1 /\ closer' \in 1..6 /\ close_steps[closer'] = s /\ closer \in 0..5
    BY <1>4, CloseOrder DEF Step, Returned, Ends, EndTypeOK
  <2>2. CASE closer <= 2
    <3>1. s # "take"
      BY <2>1, <2>2, CloseOrder
    <3> QED
      BY <1>1, <1>2, <1>4, <2>1, <2>2, <3>1 DEF Ends, EndTypeOK, Handles
  <2>3. CASE closer = 3
    <3>1. s = "take"
      BY <2>1, <2>3, CloseOrder
    <3> QED
      BY <1>1, <1>2, <1>4, <2>1, <2>3, <3>1 DEF Ends, EndTypeOK, Handles
  <2>4. CASE closer = 4
    <3>1. s = "join"
      BY <2>1, <2>4, CloseOrder
    <3> QED
      BY <1>1, <1>2, <1>4, <2>1, <2>4, <3>1 DEF Ends, EndTypeOK, Handles
  <2>5. CASE closer = 5
    <3>1. s = "join_broker"
      BY <2>1, <2>5, CloseOrder
    <3> QED
      BY <1>1, <1>2, <1>4, <2>1, <2>5, <3>1 DEF Ends, EndTypeOK, Handles
  <2> QED
    BY <2>1, <2>2, <2>3, <2>4, <2>5
<1>5. CASE StoreShutdown \/ SendClose \/ shutdown_all
  BY <1>4, <1>5, Zenon DEF StoreShutdown, SendClose, shutdown_all
<1>6. CASE TakeThreads
  BY <1>4, <1>6, Zenon DEF TakeThreads
<1>7. CASE JoinThreads
  BY <1>4, <1>7, Zenon DEF JoinThreads
<1>8. CASE JoinBroker
  BY <1>4, <1>8, Zenon DEF JoinBroker
<1> QED
  BY <1>3, <1>5, <1>6, <1>7, <1>8, Zenon DEF close

(* When close() has returned everything has stopped, for any number of     *)
(* loops and connections, unless a bind() or connect() overlaps it or a    *)
(* bind() follows it: bind_with does not look at `closed`, connect_with    *)
(* only before it starts its loop and stores the handle.                   *)
THEOREM StopsEverything ==
    ASSUME ~Overlap
    PROVE  Spec => []ClosedMeansStopped
<1>1. Gate /\ [Next]_vars => Gate'
  BY GateStep, Zenon
<1>2. Gate /\ Ends /\ [Next]_vars => Ends'
  <2> SUFFICES ASSUME Gate, Ends, [Next]_vars
               PROVE  Ends'
    BY Zenon
  <2>1. CASE UNCHANGED vars
    BY <2>1, EndsFrame, Zenon DEF vars, appVars
  <2> QED
    BY <2>1, EndsHandlers, EndsLoops, EndsCalls, EndsClose, Zenon DEF Next
<1>3. Gate /\ Ends => ClosedMeansStopped
  <2> SUFFICES ASSUME Gate, Ends, Returned
               PROVE  /\ \A l \in Loop : loop[l] \in {"none", "done"}
                      /\ \A c \in Conn : handler[c] \in {"none", "done"}
                      /\ broker = "done" /\ registry = {}
    BY Zenon DEF ClosedMeansStopped
  <2>1. closer = 6 /\ broker = "done"
    BY CloseOrder, Zenon DEF Returned, Ends
  <2>2. \A l \in Loop : loop[l] \in {"none", "done"}
    BY <2>1 DEF Ends, Handles
  <2>3. \A c \in Conn : handler[c] \in {"none", "done"}
    BY <2>2, Zenon DEF Ends, Joined, Quiet
  <2> QED
    BY <2>1, <2>2, <2>3, Zenon DEF Gate, GateTypeOK
<1> QED
  BY <1>1, <1>2, <1>3, GateInit, EndsInit, PTL DEF Spec
=============================================================================
