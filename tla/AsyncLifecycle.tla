-------------------------- MODULE AsyncLifecycle ----------------------------
(***************************************************************************)
(* The tasks of one socket of the tokio port and how close() ends them:    *)
(* bind and connect, accept_loop, which spawns a task per connection and   *)
(* forgets it, connect_loop, which runs the connection itself, the broker  *)
(* and close().  There is no registry of sockets: tasks watch a channel.   *)
(*                                                                         *)
(* A connection is seen from outside.  It waits for a HELLO without a      *)
(* deadline and without watching the channel, registers, is open until the *)
(* signal or the end of its socket, and has ended.  The runtime has        *)
(* several threads, so that a task may run between any two steps of a call.*)
(***************************************************************************)
EXTENDS Naturals, Sequences

CONSTANTS
    AcceptLoop,     \* calls of bind() or bind_tls()
    ConnectLoop,    \* calls of connect() or connect_tls()
    Conn            \* bound: the TCP connections that come about

Loop == AcceptLoop \cup ConnectLoop

NoLoop == "none"

ASSUME AsyncLifecycleAssumption == AcceptLoop \cap ConnectLoop = {} /\ NoLoop \notin Loop

Close == "Close"

VARIABLES
    closed,     \* Inner::closed
    shutdown,   \* the value of the watch channel
    tasks,      \* Inner::tasks: the loops whose handle is stored
    taken,      \* the handles close() has taken out of `tasks`
    closer,     \* how many of close_steps close() has done
    call,       \* call[l]: the bind() or connect() that starts loop l
    loop,       \* loop[l]: where the task of loop l stands
    owner,      \* owner[c]: the loop that accepted or dialled c
    handler,    \* handler[c]: where the connection stands
    sock,       \* sock[c]: TRUE while the TCP connection works
    cmd,        \* the command channel: "Close" and connections to register
    accept,     \* accept[c]: the broker's reply
    broker      \* "running" or "done"

vars == <<closed, shutdown, tasks, taken, closer, call, loop, owner, handler,
          sock, cmd, accept, broker>>

appVars == <<closed, shutdown, tasks, taken, closer, call>>

connVars == <<owner, handler, sock, accept>>

(* Variant: nobody waits for the loops.                                    *)
close_steps_eager == <<"signal", "Close", "take", "await_broker">>

(* close() after `closed` is set.                                          *)
close_steps == <<"signal", "Close", "take", "await", "await_broker">>

Returned == closer = Len(close_steps)

Init ==
    /\ closed = FALSE /\ shutdown = FALSE
    /\ tasks = {} /\ taken = {} /\ closer = 0
    /\ call = [l \in Loop |-> "idle"]
    /\ loop = [l \in Loop |-> "none"]
    /\ owner = [c \in Conn |-> NoLoop]
    /\ handler = [c \in Conn |-> "none"]
    /\ sock = [c \in Conn |-> TRUE]
    /\ cmd = <<>>
    /\ accept = [c \in Conn |-> "empty"]
    /\ broker = "running"

-----------------------------------------------------------------------------
(* bind and connect *)

(* spawn_connect tests `closed`; bind does not.                            *)
Call(l) ==
    /\ call[l] = "idle"
    /\ l \in ConnectLoop => ~closed
    /\ call' = [call EXCEPT ![l] = "checked"]
    /\ UNCHANGED <<closed, shutdown, tasks, taken, closer, loop, connVars, cmd, broker>>

Spawn(l) ==
    /\ call[l] = "checked"
    /\ call' = [call EXCEPT ![l] = "spawned"]
    /\ loop' = [loop EXCEPT ![l] = IF l \in AcceptLoop THEN "accept" ELSE "test"]
    /\ UNCHANGED <<closed, shutdown, tasks, taken, closer, connVars, cmd, broker>>

Push(l) ==
    /\ call[l] = "spawned"
    /\ call' = [call EXCEPT ![l] = "done"]
    /\ tasks' = tasks \cup {l}
    /\ UNCHANGED <<closed, shutdown, taken, closer, loop, connVars, cmd, broker>>

-----------------------------------------------------------------------------
(* close *)

CloseFirst ==
    /\ ~closed
    /\ closed' = TRUE
    /\ UNCHANGED <<shutdown, tasks, taken, closer, call, loop, connVars, cmd, broker>>

Step(s) ==
    /\ closed /\ ~Returned
    /\ close_steps[closer + 1] = s
    /\ closer' = closer + 1
    /\ UNCHANGED <<closed, call, loop, connVars, broker>>

Signal == Step("signal") /\ shutdown' = TRUE /\ UNCHANGED <<tasks, taken, cmd>>

SendClose == Step("Close") /\ cmd' = Append(cmd, Close) /\ UNCHANGED <<shutdown, tasks, taken>>

TakeTasks == Step("take") /\ taken' = tasks /\ tasks' = {} /\ UNCHANGED <<shutdown, cmd>>

AwaitTasks ==
    /\ Step("await")
    /\ \A l \in taken : loop[l] = "done"
    /\ UNCHANGED <<shutdown, tasks, taken, cmd>>

AwaitBroker ==
    /\ Step("await_broker")
    /\ broker = "done"
    /\ UNCHANGED <<shutdown, tasks, taken, cmd>>

close == Signal \/ SendClose \/ TakeTasks \/ AwaitTasks \/ AwaitBroker

-----------------------------------------------------------------------------
(* accept_loop and connect_loop *)

Goto(l, p) ==
    /\ loop' = [loop EXCEPT ![l] = p]
    /\ UNCHANGED <<appVars, cmd, broker>>

NewConn(l, c) ==
    /\ handler[c] = "none"
    /\ handler' = [handler EXCEPT ![c] = "hello"]
    /\ owner' = [owner EXCEPT ![c] = l]
    /\ UNCHANGED <<sock, accept>>

(* One branch of a select! ends the loop, whatever else is ready.          *)
SeesSignal(l) ==
    /\ loop[l] \in {"accept", "dial", "sleep"}
    /\ shutdown
    /\ Goto(l, "done")
    /\ UNCHANGED connVars

Accept(l) ==
    /\ loop[l] = "accept"
    /\ Goto(l, "accept")
    /\ \E c \in Conn : NewConn(l, c)

TestShutdown(l) ==
    /\ loop[l] = "test"
    /\ Goto(l, IF shutdown THEN "done" ELSE "dial")
    /\ UNCHANGED connVars

(* The connection is made, or refused, or CONNECT_TIMEOUT is over.         *)
Dial(l) ==
    /\ loop[l] = "dial"
    /\ \/ Goto(l, "handle") /\ \E c \in Conn : NewConn(l, c)
       \/ Goto(l, "after") /\ UNCHANGED connVars

Handled(l) ==
    /\ loop[l] = "handle"
    /\ \A c \in Conn : owner[c] = l => handler[c] = "done"
    /\ Goto(l, "after")
    /\ UNCHANGED connVars

AfterSession(l) ==
    /\ loop[l] = "after"
    /\ Goto(l, IF shutdown THEN "done" ELSE "sleep")
    /\ UNCHANGED connVars

SleepOver(l) ==
    /\ loop[l] = "sleep"
    /\ Goto(l, "test")
    /\ UNCHANGED connVars

accept_loop(l) == l \in AcceptLoop /\ (SeesSignal(l) \/ Accept(l))

connect_loop(l) ==
    /\ l \in ConnectLoop
    /\ SeesSignal(l) \/ TestShutdown(l) \/ Dial(l) \/ Handled(l) \/ AfterSession(l) \/ SleepOver(l)

-----------------------------------------------------------------------------
(* handle_connection, after the sniff or the TLS handshake if there is one *)

At(c, p, q) ==
    /\ handler[c] = p
    /\ handler' = [handler EXCEPT ![c] = q]
    /\ UNCHANGED <<appVars, loop, owner, accept, broker>>

(* The peer's HELLO is there, and the broker; or it is another frame, or   *)
(* another version, or the broker is gone.                                 *)
ReadHello(c) ==
    /\ sock[c]
    /\ \/ broker = "running" /\ At(c, "hello", "registering") /\ cmd' = Append(cmd, c)
       \/ At(c, "hello", "done") /\ UNCHANGED cmd
    /\ UNCHANGED sock

(* The peer is gone.                                                       *)
HelloFails(c) ==
    /\ ~sock[c]
    /\ At(c, "hello", "done")
    /\ UNCHANGED <<sock, cmd>>

Reply(c) ==
    /\ \/ accept[c] = "true" /\ At(c, "registering", "open")
       \/ /\ accept[c] = "false" \/ (accept[c] = "empty" /\ broker = "done")
          /\ At(c, "registering", "done")
    /\ UNCHANGED <<sock, cmd>>

(* Variant: the reader waits for its peer only.                            *)
SessionEndsWithPeer(c) ==
    /\ ~sock[c]
    /\ At(c, "open", "done")
    /\ sock' = [sock EXCEPT ![c] = FALSE]
    /\ UNCHANGED cmd

(* The signal, or the end of the socket.  The writer is aborted and        *)
(* awaited, which module AsyncSocket shows to end.                         *)
SessionEnds(c) ==
    /\ shutdown \/ ~sock[c]
    /\ At(c, "open", "done")
    /\ sock' = [sock EXCEPT ![c] = FALSE]
    /\ UNCHANGED cmd

handle_connection(c) == HelloFails(c) \/ Reply(c) \/ SessionEnds(c)

PeerGone(c) ==
    /\ handler[c] \in {"hello", "registering", "open"}
    /\ sock[c]
    /\ sock' = [sock EXCEPT ![c] = FALSE]
    /\ UNCHANGED <<appVars, loop, owner, handler, cmd, accept, broker>>

(* The broker, as far as registration goes.                                *)
BrokerNext ==
    /\ broker = "running"
    /\ cmd # <<>>
    /\ cmd' = Tail(cmd)
    /\ \/ Head(cmd) = Close /\ broker' = "done" /\ UNCHANGED accept
       \/ /\ Head(cmd) # Close
          /\ \E r \in {"true", "false"} : accept' = [accept EXCEPT ![Head(cmd)] = r]
          /\ UNCHANGED broker
    /\ UNCHANGED <<appVars, loop, owner, handler, sock>>

-----------------------------------------------------------------------------
CallStep(l) == Spawn(l) \/ Push(l)

Next ==
    \/ CloseFirst \/ close \/ BrokerNext
    \/ \E l \in Loop : Call(l) \/ CallStep(l) \/ accept_loop(l) \/ connect_loop(l)
    \/ \E c \in Conn : ReadHello(c) \/ handle_connection(c) \/ PeerGone(c)

Spec == Init /\ [][Next]_vars

(* Every task that is ready is polled, select! takes a branch that stays   *)
(* ready, and connecting and sleeping have a time limit.  A peer owes no   *)
(* HELLO, and nobody has to call anything.                                 *)
FairSpec ==
    /\ Spec
    /\ WF_vars(close) /\ WF_vars(BrokerNext)
    /\ \A l \in Loop :
        /\ WF_vars(CallStep(l)) /\ WF_vars(connect_loop(l))
        /\ WF_vars(SeesSignal(l))
    /\ \A c \in Conn : WF_vars(handle_connection(c))

-----------------------------------------------------------------------------
(* When close() has returned, the broker and every loop whose handle close *)
(* found have ended, and with a connect loop its connection: a dialled     *)
(* connection does not outlive close() (lib.rs, comment on close).         *)
LoopsStopped ==
    Returned =>
        /\ broker = "done"
        /\ \A l \in taken : loop[l] = "done"
        /\ \A c \in Conn : owner[c] \in taken \cap ConnectLoop => handler[c] = "done"

(* A connection that waits for a HELLO.                                    *)
Greeting(c) == handler[c] = "hello" /\ sock[c]

(* close() returns, whatever it overlaps with, unless a connection that a  *)
(* connect loop runs stays without a HELLO for ever.  It never waits for   *)
(* an accepted one, whose task accept_loop has detached.                   *)
CloseWaitsForHelloOnly ==
    <>[](closed => Returned \/ \E c \in Conn : owner[c] \in taken \cap ConnectLoop /\ Greeting(c))

(* close() closes every connection (lib.rs, comment on close: "stop        *)
(* accepting/connecting, close every connection").                         *)
EveryConnectionCloses == \A c \in Conn : (closed /\ handler[c] # "none") ~> handler[c] = "done"
=============================================================================
