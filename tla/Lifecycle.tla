----------------------------- MODULE Lifecycle ------------------------------
(***************************************************************************)
(* The threads of one synchronous socket and how close() ends them: the    *)
(* bind and connect calls, accept_loop and connect_loop, the handler of    *)
(* every connection with its entry in the Registry, the broker thread, and *)
(* the steps of close() in the order of lib.rs.                            *)
(*                                                                         *)
(* A session is seen from outside: it waits for a HELLO until a deadline,  *)
(* registers with the broker, stays open while its socket is, and then     *)
(* tears down and joins its writer, which modules Socket and TlsSession    *)
(* show to end.  The command channel carries only what decides who is      *)
(* accepted, and a reply of `false` stands for any duplicate identity.     *)
(***************************************************************************)
EXTENDS Naturals, Sequences

CONSTANTS
    AcceptLoop,     \* calls of bind()
    ConnectLoop,    \* calls of connect()
    Conn,           \* bound: the TCP connections that come about
    Overlap         \* TRUE: bind() and connect() may overlap close(), and bind() follow it

Loop == AcceptLoop \cup ConnectLoop

NoLoop == "none"

Close == "Close"

ASSUME LifecycleAssumption ==
    AcceptLoop \cap ConnectLoop = {} /\ Overlap \in BOOLEAN /\ Close \notin Conn

VARIABLES
    closed,     \* Inner::closed
    shutdown,   \* Inner::shutdown
    threads,    \* Inner::threads: the loops whose handle is stored
    taken,      \* the handles close() has taken out of `threads`
    closer,     \* how many of close_steps close() has done
    call,       \* call[l]: the bind() or connect() that starts loop l
    loop,       \* loop[l]: where the thread of loop l stands
    owner,      \* owner[c]: the loop that accepted or dialled c
    handler,    \* handler[c]: where handle_connection stands
    sock,       \* sock[c]: TRUE while the TCP connection works
    registry,   \* Registry::inner: the connections close() can shut down
    cmd,        \* the command channel: "Close" and connections to register
    accept,     \* accept[c]: the broker's reply
    broker      \* "running" or "done"

vars == <<closed, shutdown, threads, taken, closer, call, loop, owner, handler,
          sock, registry, cmd, accept, broker>>

appVars == <<closed, threads, taken, closer, call>>

connVars == <<owner, handler, sock, registry, accept>>

(* Variant: sockets are shut down before the broker is told.               *)
close_steps_swapped == <<"shutdown", "shutdown_all", "Close", "take", "join", "join_broker">>

(* Variant: no socket is shut down.                                        *)
close_steps_lenient == <<"shutdown", "Close", "take", "join", "join_broker">>

(* close() after `closed` is set.                                          *)
close_steps == <<"shutdown", "Close", "shutdown_all", "take", "join", "join_broker">>

Returned == closer = Len(close_steps)

Init ==
    /\ closed = FALSE /\ shutdown = FALSE
    /\ threads = {} /\ taken = {} /\ closer = 0
    /\ call = [l \in Loop |-> "idle"]
    /\ loop = [l \in Loop |-> "none"]
    /\ owner = [c \in Conn |-> NoLoop]
    /\ handler = [c \in Conn |-> "none"]
    /\ sock = [c \in Conn |-> TRUE]
    /\ registry = {}
    /\ cmd = <<>>
    /\ accept = [c \in Conn |-> "empty"]
    /\ broker = "running"

-----------------------------------------------------------------------------
(* bind_with and connect_with *)

(* connect_with tests `closed`; bind_with binds its listener untested.     *)
Call(l) ==
    /\ call[l] = "idle"
    /\ l \in ConnectLoop => ~closed
    /\ Overlap \/ ~closed
    /\ call' = [call EXCEPT ![l] = "checked"]
    /\ UNCHANGED <<closed, shutdown, threads, taken, closer, loop, connVars, cmd, broker>>

Spawn(l) ==
    /\ call[l] = "checked"
    /\ call' = [call EXCEPT ![l] = "spawned"]
    /\ loop' = [loop EXCEPT ![l] = "test"]
    /\ UNCHANGED <<closed, shutdown, threads, taken, closer, connVars, cmd, broker>>

Push(l) ==
    /\ call[l] = "spawned"
    /\ call' = [call EXCEPT ![l] = "done"]
    /\ threads' = threads \cup {l}
    /\ UNCHANGED <<closed, shutdown, taken, closer, loop, connVars, cmd, broker>>

-----------------------------------------------------------------------------
(* close *)

(* The first caller goes on; any later one returns at once.                *)
CloseFirst ==
    /\ ~closed
    /\ Overlap \/ \A l \in Loop : call[l] \in {"idle", "done"}
    /\ closed' = TRUE
    /\ UNCHANGED <<shutdown, threads, taken, closer, call, loop, connVars, cmd, broker>>

Step(s) == closed /\ ~Returned /\ close_steps[closer + 1] = s /\ closer' = closer + 1

StoreShutdown ==
    /\ Step("shutdown")
    /\ shutdown' = TRUE
    /\ UNCHANGED <<closed, threads, taken, call, loop, connVars, cmd, broker>>

SendClose ==
    /\ Step("Close")
    /\ cmd' = Append(cmd, Close)
    /\ UNCHANGED <<closed, shutdown, threads, taken, call, loop, connVars, broker>>

shutdown_all ==
    /\ Step("shutdown_all")
    /\ sock' = [c \in Conn |-> sock[c] /\ c \notin registry]
    /\ UNCHANGED <<closed, shutdown, threads, taken, call, loop, owner, handler, registry, accept, cmd, broker>>

TakeThreads ==
    /\ Step("take")
    /\ taken' = threads
    /\ threads' = {}
    /\ UNCHANGED <<closed, shutdown, call, loop, connVars, cmd, broker>>

JoinThreads ==
    /\ Step("join")
    /\ \A l \in taken : loop[l] = "done"
    /\ UNCHANGED <<closed, shutdown, threads, taken, call, loop, connVars, cmd, broker>>

JoinBroker ==
    /\ Step("join_broker")
    /\ broker = "done"
    /\ UNCHANGED <<closed, shutdown, threads, taken, call, loop, connVars, cmd, broker>>

close == CloseFirst \/ StoreShutdown \/ SendClose \/ shutdown_all \/ TakeThreads \/ JoinThreads \/ JoinBroker

-----------------------------------------------------------------------------
(* accept_loop and connect_loop *)

Goto(l, p) ==
    /\ loop' = [loop EXCEPT ![l] = p]
    /\ UNCHANGED <<appVars, shutdown, cmd, broker>>

NewConn(l, c) ==
    /\ handler[c] = "none"
    /\ handler' = [handler EXCEPT ![c] = "new"]
    /\ owner' = [owner EXCEPT ![c] = l]
    /\ UNCHANGED <<sock, registry, accept>>

(* The top of either loop.                                                 *)
TestShutdown(l) ==
    /\ loop[l] = "test"
    /\ Goto(l, IF l \in AcceptLoop THEN (IF shutdown THEN "join" ELSE "accept")
                                   ELSE (IF shutdown THEN "done" ELSE "dial"))
    /\ UNCHANGED connVars

(* A connection is there, or none is and the loop sleeps ACCEPT_POLL.      *)
Accept(l) ==
    /\ loop[l] = "accept"
    /\ Goto(l, "test")
    /\ UNCHANGED connVars \/ \E c \in Conn : NewConn(l, c)

(* connect_timeout succeeds, and the handler runs on this thread, or not.  *)
Dial(l) ==
    /\ loop[l] = "dial"
    /\ \/ Goto(l, "handle") /\ \E c \in Conn : NewConn(l, c)
       \/ Goto(l, "after") /\ UNCHANGED connVars

Handled(l) ==
    /\ loop[l] = "handle"
    /\ \A c \in Conn : owner[c] = l => handler[c] = "done"
    /\ Goto(l, "after")
    /\ UNCHANGED connVars

(* Variant: a connection that ended is not replaced.                       *)
AfterSessionGivesUp(l) ==
    /\ loop[l] = "after"
    /\ Goto(l, "done")
    /\ UNCHANGED connVars

AfterSession(l) ==
    /\ loop[l] = "after"
    /\ Goto(l, IF shutdown THEN "done" ELSE "sleep")
    /\ UNCHANGED connVars

(* sleep_with_shutdown: over, or cut short by the flag.                    *)
sleep_with_shutdown(l) ==
    /\ loop[l] = "sleep"
    /\ Goto(l, "test")
    /\ UNCHANGED connVars

(* Variant: the handlers are detached.                                     *)
JoinNoHandlers(l) ==
    /\ loop[l] = "join"
    /\ Goto(l, "done")
    /\ UNCHANGED connVars

JoinHandlers(l) ==
    /\ loop[l] = "join"
    /\ \A c \in Conn : owner[c] = l => handler[c] = "done"
    /\ Goto(l, "done")
    /\ UNCHANGED connVars

accept_loop(l) == Accept(l) \/ JoinHandlers(l)

connect_loop(l) == Dial(l) \/ Handled(l) \/ AfterSession(l) \/ sleep_with_shutdown(l)

LoopNext(l) == TestShutdown(l) \/ accept_loop(l) \/ connect_loop(l)

-----------------------------------------------------------------------------
(* handle_connection *)

At(c, p, q) == handler[c] = p /\ handler' = [handler EXCEPT ![c] = q]

(* Registered before the handshake; if the handle cannot be cloned, the    *)
(* handler returns.                                                        *)
RegisterSocket(c) ==
    /\ \/ At(c, "new", "handshake") /\ registry' = registry \cup {c}
       \/ At(c, "new", "done") /\ UNCHANGED registry
    /\ UNCHANGED <<appVars, shutdown, loop, owner, sock, accept, cmd, broker>>

(* read_hello returned and register() queues ConnectionUp; with the broker *)
(* gone the send fails.                                                    *)
SendUp(c) ==
    /\ \/ broker = "running" /\ At(c, "handshake", "registering") /\ cmd' = Append(cmd, c)
       \/ broker = "done" /\ At(c, "handshake", "leave") /\ UNCHANGED cmd
    /\ UNCHANGED <<appVars, shutdown, loop, owner, sock, registry, accept, broker>>

(* The deadline passed, the socket ended or the HELLO was not one.         *)
HandshakeFails(c) ==
    /\ At(c, "handshake", "leave")
    /\ UNCHANGED <<appVars, shutdown, loop, owner, sock, registry, accept, cmd, broker>>

Reply(c) ==
    /\ \/ accept[c] = "true" /\ At(c, "registering", "open")
       \/ /\ accept[c] = "false" \/ (accept[c] = "empty" /\ broker = "done")
          /\ At(c, "registering", "leave")
    /\ UNCHANGED <<appVars, shutdown, loop, owner, sock, registry, accept, cmd, broker>>

SessionEnds(c) ==
    /\ ~sock[c]
    /\ At(c, "open", "leave")
    /\ UNCHANGED <<appVars, shutdown, loop, owner, sock, registry, accept, cmd, broker>>

(* The session has returned and its writer is joined.                      *)
Deregister(c) ==
    /\ At(c, "leave", "done")
    /\ registry' = registry \ {c}
    /\ sock' = [sock EXCEPT ![c] = FALSE]
    /\ UNCHANGED <<appVars, shutdown, loop, owner, accept, cmd, broker>>

(* The HELLO arrives or not; but the wait has a deadline.                  *)
HandlerNext(c) ==
    RegisterSocket(c) \/ SendUp(c) \/ HandshakeFails(c) \/ Reply(c) \/ SessionEnds(c) \/ Deregister(c)

(* The peer closes or falls silent, or the network fails.                  *)
PeerGone(c) ==
    /\ handler[c] \in {"handshake", "registering", "open"}
    /\ sock[c]
    /\ sock' = [sock EXCEPT ![c] = FALSE]
    /\ UNCHANGED <<appVars, shutdown, loop, owner, handler, registry, accept, cmd, broker>>

-----------------------------------------------------------------------------
(* The broker, as far as registration goes *)

BrokerNext ==
    /\ broker = "running"
    /\ cmd # <<>>
    /\ cmd' = Tail(cmd)
    /\ \/ Head(cmd) = Close /\ broker' = "done" /\ UNCHANGED accept
       \/ /\ Head(cmd) # Close
          /\ \E r \in {"true", "false"} : accept' = [accept EXCEPT ![Head(cmd)] = r]
          /\ UNCHANGED broker
    /\ UNCHANGED <<appVars, shutdown, loop, owner, handler, sock, registry>>

CallStep(l) == Spawn(l) \/ Push(l)

CloseStep == StoreShutdown \/ SendClose \/ shutdown_all \/ TakeThreads \/ JoinThreads \/ JoinBroker

Next ==
    \/ close \/ BrokerNext
    \/ \E l \in Loop : Call(l) \/ CallStep(l) \/ LoopNext(l)
    \/ \E c \in Conn : HandlerNext(c) \/ PeerGone(c)

Spec == Init /\ [][Next]_vars

(* Every thread runs on, also the one inside close(); accept, connect and  *)
(* the handshake return because each has a timeout.  Nobody has to call    *)
(* anything, and a peer may stay connected for ever.                       *)
FairSpec ==
    /\ Spec
    /\ WF_vars(CloseStep) /\ WF_vars(BrokerNext)
    /\ \A l \in Loop : WF_vars(CallStep(l)) /\ WF_vars(LoopNext(l))
    /\ \A c \in Conn : WF_vars(HandlerNext(c))

-----------------------------------------------------------------------------
Done(s) == \E i \in 1..closer : close_steps[i] = s

(* No connection escapes close(): once the registered sockets have been    *)
(* shut down, a session that is open is one whose socket was among them.   *)
(* A handler that registers its socket too late to be shut down also       *)
(* queues its ConnectionUp behind Close and is never accepted              *)
(* (handle_connection, register, close).                                   *)
NoEscape ==
    Done("shutdown_all") => \A c \in Conn : handler[c] = "open" => ~sock[c]

(* When close() has returned the socket has stopped: no loop, no handler   *)
(* and no broker runs, and no socket is open (lib.rs, comment on close).   *)
ClosedMeansStopped ==
    Returned =>
        /\ \A l \in Loop : loop[l] \in {"none", "done"}
        /\ \A c \in Conn : handler[c] \in {"none", "done"}
        /\ broker = "done" /\ registry = {}

(* close() closes every connection (the same comment): once it has         *)
(* returned, no handler deals with a connection.                           *)
ClosesEveryConnection == Returned => \A c \in Conn : handler[c] \in {"none", "done"}

(* close() returns, whatever connections are being accepted, dialled or    *)
(* registered when it is called, and though peers keep theirs alive.       *)
CloseReturns == closed ~> Returned

(* The connect end keeps reconnecting for the life of the socket           *)
(* (PROTOCOL.md sections 5 and 7): after a connection has ended or could   *)
(* not be made, it dials again unless the socket is being closed.          *)
Reconnects == \A l \in ConnectLoop : loop[l] = "after" ~> (loop[l] = "dial" \/ shutdown)
=============================================================================
