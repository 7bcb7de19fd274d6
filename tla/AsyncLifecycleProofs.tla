------------------------ MODULE AsyncLifecycleProofs ------------------------
(***************************************************************************)
(* What close() of the tokio port has waited for when it returns, for any  *)
(* number of loops and connections.                                        *)
(*                                                                         *)
(* LoopsStopped is not inductive.  A loop that close() found done must     *)
(* stay done, so its call must be past spawn; and a loop that is done must *)
(* leave no connection behind, so a connection that a connect loop dialled *)
(* must keep the loop waiting until it has ended.                          *)
(***************************************************************************)
EXTENDS AsyncLifecycle, TLAPS

(* A loop starts once, when its call spawns it.                            *)
Started ==
    /\ closer \in 0..5
    /\ taken \subseteq Loop /\ tasks \subseteq Loop
    /\ \A l \in Loop : call[l] \in {"idle", "checked"} => loop[l] = "none"

(* What the awaits of close() have seen is still so.                       *)
Awaited ==
    /\ closer >= 4 => \A l \in taken : loop[l] = "done"
    /\ closer = 5 => broker = "done"

(* A connect loop waits for the connection it dialled.                     *)
Attended ==
    \A c \in Conn :
        /\ handler[c] = "none" => owner[c] = NoLoop
        /\ owner[c] \in ConnectLoop => handler[c] = "done" \/ loop[owner[c]] = "handle"

TableTypes ==
    /\ call \in [Loop -> {"idle", "checked", "spawned", "done"}]
    /\ loop \in [Loop -> {"none", "accept", "test", "dial", "handle", "after", "sleep", "done"}]
    /\ owner \in [Conn -> Loop \cup {NoLoop}]
    /\ handler \in [Conn -> {"none", "hello", "registering", "open", "done"}]

Stopping == TableTypes /\ Started /\ Awaited /\ Attended

(* A call of bind or connect: only Spawn touches a loop, which was not     *)
(* running.                                                                *)
LEMMA StoppingCall ==
    ASSUME Stopping, NEW l \in Loop, Call(l) \/ Spawn(l) \/ Push(l)
    PROVE  Stopping'
<1> USE DEF Stopping
<1>1. CASE Call(l) \/ Push(l)
  <2>1. UNCHANGED <<taken, closer, loop, owner, handler, broker>> /\ tasks' \subseteq Loop
    BY <1>1, Zenon DEF Call, Push, connVars, Started
  <2>2. call' \in [Loop -> {"idle", "checked", "spawned", "done"}]
    BY <1>1, Zenon DEF Call, Push, TableTypes
  <2>3. \A m \in Loop : call'[m] \in {"idle", "checked"} => call[m] \in {"idle", "checked"}
    BY <1>1, Zenon DEF Call, Push, TableTypes
  <2> QED
    BY <2>1, <2>2, <2>3, Zenon DEF TableTypes, Started, Awaited, Attended
<1>2. CASE Spawn(l)
  <2>1. UNCHANGED <<tasks, taken, closer, owner, handler, broker>> /\ call[l] = "checked"
    BY <1>2, Zenon DEF Spawn, connVars
  <2>2. /\ call' \in [Loop -> {"idle", "checked", "spawned", "done"}]
        /\ call'[l] = "spawned" /\ \A m \in Loop : m # l => call'[m] = call[m] /\ loop'[m] = loop[m]
        /\ loop' \in [Loop -> {"none", "accept", "test", "dial", "handle", "after", "sleep", "done"}]
    BY <1>2, Zenon DEF Spawn, TableTypes
  <2>3. loop[l] = "none"
    BY <2>1, Zenon DEF Started
  <2>4. Awaited'
    BY <2>1, <2>2, <2>3, Zenon DEF Started, Awaited
  <2>5. Attended'
    BY <2>1, <2>2, <2>3, Zenon DEF Attended, Loop
  <2> QED
    BY <2>1, <2>2, <2>4, <2>5, Zenon DEF TableTypes, Started
<1> QED
  BY <1>1, <1>2, Zenon

(* close(): each step is the next of its list.                             *)
LEMMA StoppingClose ==
    ASSUME Stopping, CloseFirst \/ close
    PROVE  Stopping'
<1> USE DEF Stopping
<1>1. UNCHANGED <<call, loop, owner, handler, broker>>
  BY Zenon DEF CloseFirst, close, Signal, SendClose, TakeTasks, AwaitTasks, AwaitBroker, Step, connVars
<1>2. CASE CloseFirst
  BY <1>1, <1>2, Zenon DEF CloseFirst, TableTypes, Started, Awaited, Attended
<1>3. ASSUME NEW s, Step(s)
      PROVE  closer \in 0..4 /\ closer' = closer + 1 /\ close_steps[closer + 1] = s
  BY <1>3 DEF Step, Returned, close_steps, Started
<1>4. CASE Signal \/ SendClose
  <2>1. closer \in {0, 1} /\ closer' = closer + 1 /\ UNCHANGED <<tasks, taken>>
    BY <1>3, <1>4 DEF Signal, SendClose, close_steps
  <2> QED
    BY <1>1, <2>1 DEF TableTypes, Started, Awaited, Attended
<1>5. CASE TakeTasks
  <2>1. closer = 2 /\ closer' = 3 /\ taken' = tasks /\ tasks' = {}
    BY <1>3, <1>5 DEF TakeTasks, close_steps
  <2> QED
    BY <1>1, <2>1 DEF TableTypes, Started, Awaited, Attended
<1>6. CASE AwaitTasks
  <2>1. closer = 3 /\ closer' = 4 /\ UNCHANGED <<tasks, taken>> /\ \A l \in taken : loop[l] = "done"
    BY <1>3, <1>6 DEF AwaitTasks, close_steps
  <2> QED
    BY <1>1, <2>1 DEF TableTypes, Started, Awaited, Attended
<1>7. CASE AwaitBroker
  <2>1. closer = 4 /\ closer' = 5 /\ UNCHANGED <<tasks, taken>> /\ broker = "done"
    BY <1>3, <1>7 DEF AwaitBroker, close_steps
  <2> QED
    BY <1>1, <2>1 DEF TableTypes, Started, Awaited, Attended
<1> QED
  BY <1>2, <1>4, <1>5, <1>6, <1>7, Zenon DEF close

(* A loop that runs moves on; it ends, or dials, with no connection of its *)
(* own open.                                                               *)
LEMMA StoppingLoop ==
    ASSUME Stopping, NEW l \in Loop, accept_loop(l) \/ connect_loop(l)
    PROVE  Stopping'
<1> USE DEF Stopping
<1>1. UNCHANGED <<closed, shutdown, tasks, taken, closer, call, broker>>
  BY Zenon DEF accept_loop, connect_loop, SeesSignal, Accept, TestShutdown, Dial, Handled, AfterSession,
         SleepOver, Goto, appVars
<1>2. PICK p \in {"accept", "dial", "handle", "after", "sleep", "test", "done"} : loop' = [loop EXCEPT ![l] = p]
  BY Zenon DEF accept_loop, connect_loop, SeesSignal, Accept, TestShutdown, Dial, Handled, AfterSession,
         SleepOver, Goto
<1>3. loop[l] \notin {"none", "done"}
  BY Zenon DEF accept_loop, connect_loop, SeesSignal, Accept, TestShutdown, Dial, Handled, AfterSession,
         SleepOver
<1>4. /\ loop' \in [Loop -> {"none", "accept", "test", "dial", "handle", "after", "sleep", "done"}]
      /\ \A m \in Loop : m # l => loop'[m] = loop[m]
  BY <1>2, Zenon DEF TableTypes
<1>5. Started' /\ Awaited'
  BY <1>1, <1>3, <1>4, Zenon DEF Started, Awaited
<1>6. CASE UNCHANGED connVars
  <2>1. UNCHANGED <<owner, handler>>
    BY <1>6, Zenon DEF connVars
  <2>2. \A c \in Conn : owner[c] = l /\ l \in ConnectLoop => handler[c] = "done"
    <3>1. CASE Handled(l)
      BY <3>1, Zenon DEF Handled
    <3>2. CASE loop[l] # "handle"
      BY <3>2, Zenon DEF Attended
    <3>3. CASE \E c \in Conn : NewConn(l, c)
      BY <2>1, <3>3, Zenon DEF NewConn, TableTypes
    <3> QED
      BY <3>1, <3>2, <3>3, Zenon
         DEF accept_loop, connect_loop, SeesSignal, Accept, TestShutdown, Dial, AfterSession, SleepOver
  <2>3. Attended'
    BY <1>4, <2>1, <2>2, Zenon DEF Attended, Loop
  <2> QED
    BY <1>1, <1>4, <1>5, <2>1, <2>3, Zenon DEF TableTypes
<1>7. ASSUME NEW c \in Conn, NewConn(l, c)
      PROVE  Stopping'
  <2>1. /\ handler[c] = "none" /\ handler'[c] = "hello" /\ owner'[c] = l
        /\ \A d \in Conn : d # c => handler'[d] = handler[d] /\ owner'[d] = owner[d]
    BY <1>7, Zenon DEF NewConn, TableTypes
  <2>2. l \in ConnectLoop => loop[l] = "dial" /\ loop'[l] = "handle"
    <3>1. CASE accept_loop(l)
      BY <3>1, AsyncLifecycleAssumption, Zenon DEF accept_loop
    <3>2. CASE Dial(l) /\ Goto(l, "handle")
      BY <3>2, Zenon DEF Dial, Goto, TableTypes
    <3>3. CASE UNCHANGED connVars
      BY <2>1, <3>3, Zenon DEF connVars
    <3> QED
      BY <3>1, <3>2, <3>3, Zenon
         DEF connect_loop, SeesSignal, TestShutdown, Dial, Handled, AfterSession, SleepOver
  <2>3. \A d \in Conn : owner[d] = l /\ l \in ConnectLoop => handler[d] = "done"
    BY <2>2, Zenon DEF Attended
  <2>4. Attended'
    <3> SUFFICES ASSUME NEW d \in Conn
                 PROVE  /\ handler'[d] = "none" => owner'[d] = NoLoop
                        /\ owner'[d] \in ConnectLoop => handler'[d] = "done" \/ loop'[owner'[d]] = "handle"
      BY Zenon DEF Attended
    <3>1. CASE d = c
      BY <2>1, <2>2, <3>1, Zenon
    <3>2. CASE d # c
      BY <1>4, <2>1, <2>3, <3>2 DEF Attended, Loop
    <3> QED
      BY <3>1, <3>2, Zenon
  <2>5. owner' \in [Conn -> Loop \cup {NoLoop}] /\ handler' \in [Conn -> {"none", "hello", "registering", "open", "done"}]
    BY <1>7, Zenon DEF NewConn, TableTypes
  <2> QED
    BY <1>1, <1>4, <1>5, <2>4, <2>5, Zenon DEF TableTypes
<1> QED
  BY <1>6, <1>7, Zenon DEF accept_loop, connect_loop, SeesSignal, Accept, TestShutdown, Dial, Handled,
                    AfterSession, SleepOver

(* A connection only goes forward, and nobody but its handler moves it.    *)
LEMMA StoppingConn ==
    ASSUME Stopping, NEW c \in Conn, ReadHello(c) \/ handle_connection(c) \/ PeerGone(c)
    PROVE  Stopping'
<1> USE DEF Stopping
<1>1. UNCHANGED <<tasks, taken, closer, call, loop, owner, broker>>
  BY Zenon DEF ReadHello, handle_connection, HelloFails, Reply, SessionEnds, PeerGone, At, appVars
<1>2. CASE PeerGone(c)
  BY <1>1, <1>2 DEF PeerGone, TableTypes, Started, Awaited, Attended
<1>3. CASE ReadHello(c) \/ handle_connection(c)
  <2>1. PICK q \in {"registering", "open", "done"} :
          handler[c] \in {"hello", "registering", "open"} /\ handler' = [handler EXCEPT ![c] = q]
    BY <1>3, Zenon DEF ReadHello, handle_connection, HelloFails, Reply, SessionEnds, At
  <2>2. /\ handler' \in [Conn -> {"none", "hello", "registering", "open", "done"}]
        /\ handler[c] # "done" /\ handler'[c] # "none" /\ \A d \in Conn : d # c => handler'[d] = handler[d]
    BY <2>1, Zenon DEF TableTypes
  <2> QED
    BY <1>1, <2>2, Zenon DEF TableTypes, Started, Awaited, Attended
<1> QED
  BY <1>2, <1>3, Zenon

(* close() has waited for what it says (lib.rs, comment on close): when it *)
(* has returned the broker has ended, and so has every loop whose handle   *)
(* it found, together with the connection a connect loop runs.  This holds *)
(* whatever close() overlaps with.  A loop whose handle is pushed after    *)
(* the handles were taken is not waited for.                               *)
THEOREM CloseWaited == Spec => []LoopsStopped
<1> USE DEF Stopping
<1>1. Init => Stopping
  BY AsyncLifecycleAssumption DEF Init, TableTypes, Started, Awaited, Attended, Loop
<1>2. Stopping /\ [Next]_vars => Stopping'
  <2> SUFFICES ASSUME Stopping, [Next]_vars PROVE Stopping'
    BY Zenon
  <2>1. CASE BrokerNext
    <3>1. UNCHANGED <<tasks, taken, closer, call, loop, owner, handler>> /\ broker = "running"
      BY <2>1, Zenon DEF BrokerNext, appVars
    <3>2. closer # 5
      BY <3>1, Zenon DEF Awaited
    <3> QED
      BY <3>1, <3>2, Zenon DEF TableTypes, Started, Awaited, Attended
  <2>2. CASE UNCHANGED vars
    BY <2>2, Zenon DEF vars, TableTypes, Started, Awaited, Attended
  <2> QED
    BY <2>1, <2>2, StoppingCall, StoppingClose, StoppingLoop, StoppingConn, Zenon DEF Next, CallStep
<1>3. Stopping => LoopsStopped
  <2> SUFFICES ASSUME Stopping, Returned PROVE LoopsStopped
    BY Zenon DEF LoopsStopped
  <2>1. closer = 5
    BY Zenon DEF Returned, close_steps
  <2> QED
    BY <2>1 DEF LoopsStopped, Awaited, Attended
<1> QED
  BY <1>1, <1>2, <1>3, PTL DEF Spec
=============================================================================
