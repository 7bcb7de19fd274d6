# A TLA+ verification of aiomsg

aiomsg is a messaging library: a *socket* holds many TCP connections, reconnects
by itself, routes messages to its peers (publish, round-robin or by identity) and
can deliver at least once. The repository implements one wire protocol
(`PROTOCOL.md`) in a dozen languages. This project models the two Rust crates:
`rust-lib-sync`, made of threads and channels, and `rust-lib-async`, made of tokio
tasks.

File names and line numbers refer to `src/rust-lib-sync/src/` unless another path
is given; `async:` stands for `src/rust-lib-async/src/`. `PROJECT.json` maps every
definition to the lines it translates.

## 1. Inventory

| Part | Source | State | Operations | Module |
|---|---|---|---|---|
| Public API | `lib.rs` | `closed`, `shutdown`, thread handles | `send`, `send_to`, `bind`, `connect`, `close` | Socket, Lifecycle |
| Broker thread | `broker.rs:155-356` | connection map `conns`, vector `order`, cursor, `buffer`, table `pending`, id counter | one handler per `Command` | Broker |
| Resend-timer thread | `broker.rs:20-123` | deadline queue, set `armed` | `Arm`, `Cancel`, `Shutdown`, a deadline falls due | ResendTimers |
| Plain session and writer | `conn.rs:265-303, 518-585` | the phase of the connection, two threads | register, forward, tear down; write | Connection |
| Wire format, framing | `protocol.rs`, `conn.rs:239-303`, `async:protocol.rs`, `async:conn.rs` | the decoder's buffer, a frame in progress | encode, decode, `read1`, `pop`, `read_frame`, sniff, `read_hello` | Protocol, Framing |
| TLS session | `conn.rs:592-889` | rustls connection under one mutex, socket under another | reader, writer, extract-then-write | TlsSession |
| WebSocket adapter | `ws.rs` | upgrade, client frames, control frames | `accept_upgrade`, `read`, `write` | WsFrames, WsStream |
| WebSocket session | `conn.rs:396-512` | one thread, two clocks | write, beat and read in turn | WsSession |
| Accept and connect loops, registry | `conn.rs:79-235`, `lib.rs` | registered sockets, handler threads, shutdown flag | accept, dial, sleep, join | Lifecycle |
| Async broker and connections | `async:broker.rs`, `async:conn.rs` | as above, with the deadlines inside the broker | one `select!` arm each | AsyncBroker, AsyncSocket |
| Async lifecycle | `async:lib.rs`, `async:conn.rs` | watch channel, task handles | `bind`, `connect`, `close`, the loops | AsyncLifecycle |
| Async WebSocket adapter | `async:ws.rs` | outbound buffer, wakers | `poll_read`, `poll_write`, `poll_flush`, `poll_shutdown` | AsyncWs |
| Other ports | `python-lib`, `golang-lib`, `c-lib`, ... | - | - | - |

What is hard here: threads and tasks exchange messages over unbounded channels,
and most commands carry an *identity* where a *connection* is meant; a timeout, an
ACK, a reconnection and a close can all be in the command channel at once; what was
true when a command was queued need not be when it is handled. Two threads share a
TLS connection under two locks, two tasks share a WebSocket under one, and one
thread serves a WebSocket alone. The field `hazards` of `PROJECT.json` lists each
of these at its line, with the properties that would catch it.

## 2. Modules

```
Messages ──┬── Broker ───────┐
           ├── ResendTimers ─┼── Socket ── SocketPromise ── MCSocket
           └── Connection ───┘                  ┆ implements
                  ┆ relies on              AtLeastOnce
                  ┆                             ┆ is implemented by
              FrameChannel                 AsyncSocket ── AsyncBroker
                  ┆ is implemented by
Protocol ───── Framing ── MCFraming

Lifecycle      AsyncLifecycle      TlsSession ── MCTlsSession      WsSession

WsFrames ── WsClient ──┬── WsStream ── MCWsStream
                       ├── WsInputs   (both MC modules)
                       └── AsyncWs ── MCAsyncWs

Proofs:  Socket ── SocketProofs ── CustodyProofs ──┬── QueueProofs
                                                   └── OrderProofs
         Lifecycle ── LifecycleProofs      AsyncLifecycle ── AsyncLifecycleProofs
         TlsSession ── TlsProofs           WsSession ── WsProofs
```

### The synchronous socket

**Messages** declares the channels: the command channel `cmd`, the timer's
channel `timer_ch`, and per connection the writer channel and the reply channel
of a registration. An `mpsc` send fails exactly when the receiver is gone
(`SendCommand`).

**Broker** has one action per arm of `Broker::run`, each with the whole handler:
`HandleSend`, `HandleUp`, `HandleDown`, `HandleReceived`, `HandleResend`,
`HandleClose`, and `BrokerExit` for the end of `ResendTimers::drop`. `handle_up`
flushes the buffer with a loop; the part already drained is the variable
`buffered`, one message per `HandleBuffered` step, and no other command is served
meanwhile. That is finer than the code needs and exact: other threads do run
during the loop. `transmit`, `route`, `next_round_robin` and `handle_send` are
operators with the names of the functions. `pending` is a set of records, keyed
by `id`.

**ResendTimers** is `timer_loop`. Every countdown has the same length, so the
queue is in deadline order and time can be left out: the front deadline may fall
due at any moment (`TimerFire`). That includes clocks and schedulings as bad as
one likes.

**Connection** is `plain_session` from the peer's HELLO on, with `plain_writer`:
`Register`, `Accepted`, `Rejected`, `ReaderForward`, `ReaderEnd` (EOF, error, read
timeout, broker gone), `JoinWriter`, `WriterWrite`, `WriterEnd`. The environment
breaks links (`LinkBreak`) and sends (`RemoteSend`); a frame written on a working
link reaches the peer, who acknowledges a DATA_REQ, and one written on a broken
link vanishes or fails. A peer that never answers is covered: its link breaks, or
its reader ends, before the ACK is read. Connection identifiers are never reused;
a reconnection is another member of `Conn` registering the same identity.

**Socket** composes these with the application's calls and states the properties.
`sent`, `received`, `arrived` and `exhausted` are history variables: what the
application sent and received, which payloads reached a peer, which ran out of
retries. The field `conn` of a `Received` or `ConnectionDown` command is history
too: no handler reads it.

**AtLeastOnce** is the promise in the abstract: a message is accepted, is in the
socket's custody, and leaves it only because it arrived, was given up or the
socket closed. **SocketPromise** maps the threads to it (custody is the command
channel, the buffer, the part being flushed or the table), and AsyncSocket maps
the tasks.

**Lifecycle** has the calls of `bind`, `connect` and `close()` step by step, both
loops, a handler per connection and the registry; `close_steps` is the order of
`close()`. With `Overlap` a call may be anywhere between its test of `closed`, where
it has one, and its push of the handle while `close()` runs, and a `bind` may follow.

**Protocol** is the wire format of `protocol.rs`, byte by byte, with the number of
byte values and the widths of the fields as parameters. **Framing** is the
inbound byte stream: TCP may cut it anywhere, the session finds the HELLO with a
`FrameDecoder`, registers, drains the decoder, and then reads on. The constant
`Readers` says how: through the decoder (TLS, WebSocket), with `read_frame` (plain
TCP), or as the async crate does, whose sniff takes a byte off the stream and puts it
back and whose `read_frame` asks for exactly what it needs. **FrameChannel** is the
promise: the peer's envelopes, in order, nothing lost or invented, until the
connection ends. `Framing` is checked against it through a refinement mapping
(`ChannelSpec`), and `Connection` uses it: its variable `inbound` is a queue of
whole envelopes.

**TlsSession** joins two ends by two pipes of `CAP` records. Each end has a reader
and a writer thread, the mutexes `conn` and `write_sock`, and a scratch buffer per
thread. A write of several records blocks between any two. rustls is external: it
numbers the records it encrypts, refuses one out of order, and may be asked for an
answer, which it queues until somebody flushes it.

**WsFrames** is the upgrade's decision and the parsing of client frames, common to
both crates; **WsClient** is a client: its frames as bytes, and what RFC 6455 and
`PROTOCOL.md` section 10 say of them (`StreamOf`, `AnswersOf`, `Verdict`).
**WsStream** is the adapter of `ws.rs` with its loops, a step per turn, over a
stream cut anywhere. **WsSession** is `ws_session` from outside: what arrives is a
message that ends an aiomsg frame, one that does not, or bytes that complete no
message, any number of each. Time is counted in ticks, since the properties are about
two clocks read by one thread.

### The asynchronous socket

**AsyncBroker** is the broker task. A handler does not await, so it is a function
from one state record to the next, with the frames it sends collected in `out`;
`fire_due_resends` takes off any number of due deadlines, of which those of
acknowledged or superseded messages are stale. **AsyncSocket** adds the
application, the connection tasks and their writer tasks; an action is what a task
does between two awaits. **AsyncLifecycle** has no registry: tasks watch a channel,
accepted connections are detached, and `connect_loop` runs its connection itself.

**AsyncWs** is the adapter whose two halves belong to two tasks. A poll is one step
(a turn of the loop for `poll_read`). What is sent are units, two per frame, so that
a frame can go out in part. A pending task runs again when its waker is called, and
the connection has one place for a waker per direction, owned by the latest pending
call, which is how tokio's `TcpStream` behaves.

Operators under a comment that begins with *Variant* are not part of the model.
Each is a definition with a plausible mistake in it; put in place of the original
it makes TLC refute one property (the list `mutants`).

## 3. What is model-checked

| Run | Instance | Distinct states | Properties |
|---|---|---|---|
| `socket_reliable` | 2 identities, 2 connections, at-least-once round-robin and by identity, 1 send, 1 retry | 338 000 | `TypeOK`, `OneCustodian`, `PendingIsTimed`, `DownMatchesConn`, `KeepsPromise` |
| `socket_order` | 2 identities, 2 connections, publish, at-most-once, 2 messages in all, sent or received | 343 000 | `OrderMatchesConns`, `BufferedMeansNoPeer`, `NothingOvertakes`, `AckOnSameConnection`, `ReceiveInOrder` |
| `socket_live` | 1 identity, 2 connections, 1 send, 1 retry, fair | 242 000 | `MessagesSettle`, `PendingDrains`, `NobodyWaits` |
| `framing` | 3 frames of 5 kinds, any cutting, the three readers, fair | 290 000 | `ChannelSpec`, `EverythingForwarded` |
| `tls_session` | pipes of 1 record, 1 frame of 2 records each way, one request for an answer, fair | 228 000 | `RecordsInOrder`, `NotWedged`, `FramesDelivered`, `SessionEnds` |
| `lifecycle` | 1 bind, 1 connect, 2 connections, fair | 146 000 | `NoEscape`, `ClosedMeansStopped`, `CloseReturns`, `Reconnects` |
| `ws_stream` | 12 requests, 2 client frames of 15 kinds, any cutting, 1 server frame | 546 000 | `PayloadIntact`, `AnswersInOrder`, `HeadersParse`, `NothingHeldBack` |
| `ws_session` | intervals of 1, 2 and 5 ticks, 2 routed frames, any arrivals, fair | 507 000 | `BeatsOnTime`, `SilentPeerDropped`, `NoStaleEntry`, `QueuedGoesOut` |
| `async_socket` | both send modes, 1 identity, 3 inputs (up to 2 connections, messages sent and received), 1 retry, fair | 274 000 | `PendingHasDeadline`, `KeepsCustody`, `SendsSettle` |
| `async_lifecycle` | 1 bind, 1 connect, 2 connections, overlapping `close()`, fair | 391 000 | `LoopsStopped`, `CloseWaitsForHelloOnly` |
| `async_ws` | 12 requests, 2 client frames, any cutting, a connection that holds half a frame, 1 write, fair | 64 000 | `BytesIntact`, `WholeFrames`, `FlushesOut`, `ReadsOn` |

The run `framing_handover` refutes a statement of the repository (section 4).

In words:

- **Registration.** A `ConnectionDown` names an identity only, yet it always
  finds the connection that ended (`DownMatchesConn`): a peer that reconnects is
  refused as a duplicate until the Down of its old connection has been handled. For
  the same reason an ACK routed by identity goes out on the connection its DATA_REQ
  came in on (`AckOnSameConnection`). `order` and `conns` stay in step
  (`OrderMatchesConns`), so round-robin never picks an identity that is gone.
- **Delivery.** The broker never holds two copies of a message (`OneCustodian`), and
  each entry of the table has a countdown on its way, running or reported
  (`PendingIsTimed`), or a deadline of its own among stale ones
  (`PendingHasDeadline`). Every message comes to rest (`MessagesSettle`,
  `SendsSettle`) and retransmission stops (`PendingDrains`). Both sockets implement
  AtLeastOnce, so that no message they accepted is silently lost (`KeepsPromise`,
  `KeepsCustody`).
- **Order.** Messages wait in the buffer only while nobody is connected
  (`BufferedMeansNoPeer`), nothing overtakes under at-most-once delivery
  (`NothingOvertakes`), and the merged receive stream keeps the order of each
  connection (`ReceiveInOrder`).
- **Shutdown.** A registration is always answered, also when it races `close()`,
  and `close()` ends the broker and the timer thread, although each may be waiting
  for or sending to the other (`NobodyWaits`). `close()` returns, everything has
  stopped by then (`CloseReturns`, `ClosedMeansStopped`), and a connection that
  registers too late for `shutdown_all` is not accepted (`NoEscape`). Until then the
  connect loop goes on dialling (`Reconnects`). The async `close()` has stopped the
  loops and the dialled connections when it returns (`LoopsStopped`), and returns
  unless the peer of a dialled connection owes its HELLO (`CloseWaitsForHelloOnly`).
- **Framing.** Each reader turns every cutting of the stream into the peer's
  envelopes (`ChannelSpec`), and none waits for bytes that may never come
  (`EverythingForwarded`); for `plain_session` this holds unless it abandons a
  partial frame with its decoder.
- **TLS.** Records reach the far end in the order of their encryption, whichever
  thread wrote them (`RecordsInOrder`). Two ends that write at once through full
  pipes go on (`NotWedged`, `FramesDelivered`) as long as at most one of them is
  asked for an answer. A session whose reader has ended is not left waiting in
  `join()`: its writer ends, also when it is parked in a write (`SessionEnds`).
- **WebSocket.** However requests and frames are cut, the payloads come out intact,
  control frames are answered in turn, and the first violation closes with its code;
  each server header reads back as its length, and nothing that has arrived waits for
  more (`NothingHeldBack`). The single thread beats and drops a client that completes
  no message, late by one call of `read()` at most (`BeatsOnTime`,
  `SilentPeerDropped`); such a call lasts `POLL_INTERVAL`, or as long as bytes that
  complete no message keep coming within `POLL_INTERVAL` of each other. What is routed
  is written (`QueuedGoesOut`) unless one call is fed like that for ever, which the
  code does not rule out and the property says. The two async tasks never cut or
  repeat a frame, nothing stays queued while there is room, and reading does not wait
  for a client that does not read.

**Bounds.** `MaxSends`, `MaxRemoteSends`, `MaxInputs`, `MaxFrames`, `MaxWrites`,
`MaxQueued`, the set `Conn` (each connection is used once) and `MAX_RETRIES` bound the
runs, and in `socket_order` the constraint `Few`: two messages in all. Three inputs in
`async_socket` are two messages on one connection, whose deadlines are then queued
together among stale ones, or one message and a reconnection; its connections are
numbers and are used in that order, since nothing tells fresh ones apart. `CursorMod`
replaces 2^64 as the modulus of the round-robin cursor, small enough for it to wrap.
Two connections allow a reconnection, a duplicate and two peers at a time, which are
the cases in which identity and connection can be confused. One retry is enough for a
resend, a resend into the buffer and an exhausted message; two messages are needed for
order. What these bounds leave open for the synchronous socket the theorems of section
5 settle. In `Framing` a byte has 6 values and a prefix 2 bytes, so a read can end
inside a prefix; payloads of zeros read as a prefix, and a DATA_REQ may have an empty
payload. In `TlsSession` a pipe of one record and frames of two make every frame
block. The WebSocket runs use real bytes; two frames are enough for a fragment with a
control frame behind it or a frame behind a close. Client frames come in every form of
length and every violation; lengths of server frames are both sides of 126 and 65536.
The ticks of `WsSession` keep the order of the three intervals, arrivals are unbounded
(two at a time wait to be read), and a clock stops at `Limit`, beyond which no
comparison of the code changes. `socket_reliable` and `socket_order` use symmetry in
identities and connections; `KeepsPromise` speaks of single steps and treats the
symmetric values alike. The socket's runs check deadlock, and `Terminated` is the only
state in which everything has stopped; the other modules run without, because what
they model really ends.

**Fairness.** Weak fairness of every thread and task of the program in its own
steps: they are OS threads in loops that block only on channels, locks and sockets,
or tokio tasks that the runtime polls when they are woken. A deadline that has been
reached is noticed (`recv_timeout`, `select!` on a sleep, the deadline of
`read_hello`). Locks are not assumed to be fair: a thread that waits for a mutex may
lose it to the other thread whenever it becomes free. Nobody is obliged to call
`send`, to connect, to answer or to break a link, and a reader is obliged to end only
after its link broke. `WsSession` also has fairness of the clock and of a
client that reads, without which a write may block for ever. In `AsyncWs` a task that waits runs only when it is
woken, however fair the runtime; this is the point of its liveness properties.

## 4. Where the code and its documents disagree

The first has a run. Each of the others has a definition that states what the
document says, and the change to a run's configuration with which TLC refutes it.

1. **A partial frame behind the HELLO is lost on plain TCP**
   (`framing_handover`). `plain_session` drains complete frames from the decoder
   (`conn.rs:542`) and then reads the socket with `read_frame` (`conn.rs:544`). If
   the read that completed the HELLO also returned the beginning of the next
   frame, that beginning stays in the decoder and the rest is taken for a length
   prefix. `PROTOCOL.md:33` and `PROTOCOL.md:91-95` rule this out. The TLS and
   WebSocket sessions, which keep their decoder, are right, so is `plain_session`
   whenever nothing partial is left, and so is the async crate, which has no
   decoder (`framing`).
2. **The retry count is not bounded per message** (invariant
   `Socket!BoundedRetries` on the instance of `socket_live`).
   `PROTOCOL.md:137` promises a bounded retry count. A resend that finds nobody
   connected puts the message in the buffer without its remaining retries
   (`broker.rs:350`), and the flush starts again with `MAX_RETRIES`
   (`broker.rs:230`), once per reconnection. The async handler is the same.
3. **Two TLS readers can be wedged by control traffic** (`NotWedged` in
   `tls_session` with `MaxAsks <- BothAsk` and `MaxFrames = 2`). The
   comments at `conn.rs:22-24` and `conn.rs:833-835` say that the reader can always
   keep reading. It flushes queued TLS answers under `write_sock` (`conn.rs:749`),
   which a blocked writer holds. If both ends have something to answer while both
   writers are blocked, nobody reads. With answers at one end only this cannot
   happen, which is proved (`WritesNeverWedge`).
4. **A `bind` that overlaps `close()` outlives it** (invariant
   `Lifecycle!ClosesEveryConnection` in `lifecycle` with `Overlap = TRUE`).
   `close()` closes "every connection" (`lib.rs:308-309`), but `bind_with` pushes its
   handle without looking at `closed` (`lib.rs:212`), after `close()` may have taken
   the handles. Without overlap this cannot happen, which is proved
   (`StopsEverything`).
5. **A WebSocket read is not bounded by `POLL_INTERVAL`** (invariant
   `WsSession!ReadIsBounded` in `ws_session`), contrary to `conn.rs:52-54`:
   `WsStream::read` reads again after anything that is not payload (`ws.rs:332`).
   Pings or pieces of a message that keep coming hold off heartbeats and queued
   frames, in the limit for ever: without its first disjunct TLC refutes
   `QueuedGoesOut`.
6. **A WebSocket client that stops reading is not found silent**
   (`SilentPeerDropped` in `ws_session` with `Prompt = FALSE`).
   `PROTOCOL.md:107-108` requires the tear-down; the thread that looks at the timeout
   is in a write without one (`conn.rs:435`).
7. **A connection without HELLO survives the async `close()`** (property
   `AsyncLifecycle!EveryConnectionCloses` in `async_lifecycle` with no bind and one
   connection), contrary to `async:lib.rs:333-334`: the HELLO is awaited without
   deadline and without the signal (`async:conn.rs:174`). If the connection was
   dialled, `close()` does not return.
8. **The async WebSocket writer can lose its wake-up** (property
   `AsyncWs!WriterResumes` in `async_ws` with `Traffic <- Pings` and
   `MaxFrames = 1`). The comment at `async:ws.rs:250-252` says that `split` works.
   `poll_read` flushes with the reader's waker (`async:ws.rs:407`), which replaces
   the writer's in the connection's only slot; the writer then sleeps although there
   is room, until something else wakes it. Nothing queued is stuck by that
   (`FlushesOut`), because the reader is woken and flushes; frames that the writer
   has yet to take are.

## 5. What is proved

With TLAPS, for all values of the constants. The assumptions are named in the
modules that declare them and evaluated by TLC in the runs: `MessagesAssumption` (the
two "none" values are not members of their sets, the send mode and the guarantee
are one of two, `MAX_RETRIES` is a natural number, `CursorMod` a positive one),
`BoundsAssumption` (the bounds are natural numbers), `LifecycleAssumption`,
`AsyncLifecycleAssumption`, `TlsAssumption` and `WsSessionAssumption`.

The socket:

- `SocketProofs!TypeCorrect`: `Spec => []TypeOK`. One lemma per group of steps,
  one step per action. What is not obvious in it: a command's fields depend on its
  type, so a handler must be shown to find them, and a session that forwards a frame
  must have an identity (the third conjunct of `ConnectionTypeOK`).
- `SocketProofs!DownHitsItsOwn`: `Spec => []DownMatchesConn`. The inductive invariant
  `Registration` says that an accepted connection has the entry of its identity until
  its ConnectionDown is handled, and `SpeaksInTurn` that this is the last the broker
  hears of it: in the command channel neither a ConnectionUp nor a ConnectionDown is
  followed by a command of the same connection.
- `SocketProofs!OrderInStep`: `Spec => []OrderMatchesConns`, inductive with the types
  and with what `RemoveFirst` does to a sequence without repetitions
  (`RemoveFirstFacts`).
- `SocketProofs!BufferWaitsForPeer`: `Spec => [](BufferedMeansNoPeer /\ FlushHasPeer)`.
  The second conjunct, that `handle_up` flushes to somebody, makes the first
  inductive: otherwise a flushed message might go back to the buffer.
- `CustodyProofs!NothingLost`: `Spec => []NoSilentLoss`: while the broker runs, a
  message accepted for at-least-once delivery is queued, buffered, being flushed,
  pending, delivered or out of retries. This is not inductive: an ACK removes an
  entry from the table, so one must know that an ACK in transit means that its
  message arrived (`AcksAreEarned`). The peer sends it in answer to a DATA_REQ, so a
  DATA_REQ in a writer channel must carry the payload that its id stands for in the
  table (`FramesMatch`). A new entry must not be met by an old ACK or an old frame,
  so every id in use must be below `next_id` (`IdsAreOld`). And a copy that is moved
  must keep its identity, or it might come to be handled as a message that needs no
  tracking (`CopiesAreFaithful`). `Custody` is the conjunction (`CustodyHolds`).
- `CustodyProofs!ImplementsAtLeastOnce`: `Spec => KeepsPromise`, the refinement.
  Each step of the socket is shown to be a step of AtLeastOnce or a stutter under
  `TypeOK`, `Custody` and `Known` (nothing arrives or is given up that was not sent).
  Most steps move nothing in or out of custody; an ACK releases a message, which is
  allowed because `Custody` says that it arrived; `handle_send` moves it between
  places of custody.
- `QueueProofs!AcksGoBack`: `Spec => []AckOnSameConnection`, from `Registration` and
  `AcksReturn`: a DATA_REQ names the connection it came by, with the reader and in the
  command channel.
- `QueueProofs!NothingForgotten`: `Spec => []PendingIsTimed`. `Timed` adds that ids
  are not shared, that a Cancel on its way names an id that is not and will not again
  be pending, and that the timer thread is not told to stop before the broker stops.
- `QueueProofs!NoSecondCopy`: `Spec => []OneCustodian`, from `Single`: no queue holds a
  message twice and no two of the four places hold the same one.
- `OrderProofs!NoOvertaking`: `Spec => []NothingOvertakes`. `InLine` lines up the
  queues: each writer channel is in the order of the calls and ahead of the part
  being flushed, which is ahead of the buffer, which is ahead of the command channel.
  When somebody is connected `handle_send` goes past the buffer; that it is empty
  then is `BufferWaitsForPeer`.
- `OrderProofs!ReceivedInOrder`: `Spec => []ReceiveInOrder`. `InTurn` says that each
  message of a peer is with the reader, with the broker or with the application, that
  the stages hold them in order, and that no number is missing while the broker runs.

The other parts:

- `LifecycleProofs!NothingEscapes`: `Spec => []NoEscape`, with calls that overlap
  `close()` or not. The inductive invariant `Gate` says why the order of `close()` is
  right: once `Close` has been queued it is in the channel or handled (`CloseSent`),
  and a connection that `shutdown_all` missed has no positive reply and only commands
  behind `Close` (`Missed`), since a handler registers its socket before it asks the
  broker (`NotAsked`).
- `LifecycleProofs!StopsEverything`: `~Overlap` implies `Spec => []ClosedMeansStopped`.
  `Ends` says that `close()` finds the handle of every loop that was started
  (`Handles`), and that a loop that has ended has joined its handlers (`Joined`). The
  hypothesis is needed: see the fourth disagreement.
- `AsyncLifecycleProofs!CloseWaited`: `Spec => []LoopsStopped`, whatever `close()`
  overlaps with. `Stopping` says that a loop starts once (`Started`), so that one
  which was awaited stays done (`Awaited`), and that a connect loop waits for the
  connection it dialled (`Attended`).
- `TlsProofs!RecordsStayInOrder`: `Spec => []RecordsInOrder`. The inductive
  invariant `Order` says that the far reader's chunk, the pipe, the scratch buffer
  and the queue of the TLS connection continue one another up to the next number
  (`Continues`), which needs that only the holder of `write_sock` has anything in its
  scratch buffer (`OneHolder`) and that a chunk is read after the one before it was
  decrypted (`OneChunk`).
- `TlsProofs!WritesNeverWedge`: `Spec => []NotWedged` for every pair of ends of which
  one, `q`, has no handshake leftover and is never asked anything by the other.
  `Mutexes` says that who holds a mutex stands where it holds it, `Ended` that a
  thread ends only after a socket was shut down, and `Quiet(q)` that the reader of `q`
  never has anything to write. If all four threads waited, the reader of `q` would be
  at its socket with nothing to read, so the writer of the other end would have room.
  The hypothesis is needed: see the third disagreement.
- `WsProofs!EntryRemoved`: `Spec => []NoStaleEntry`. `Entry` says that the channel has
  at most one command of the connection, and that the broker knows the connection
  only between the two.
- `WsProofs!HeartbeatsOnTime` and `WsProofs!SilentPeerGivenUp`: `Prompt` implies
  `Spec => []BeatsOnTime` and `Spec => []SilentPeerDropped`, for every interval and
  whatever arrives. `Clocks` says that a call of `read()` began when neither deadline
  had passed, so that each clock has run less than its interval and the length of the
  call, and that a call which was fed nothing lasts one `POLL_INTERVAL` at most. The
  hypothesis is needed for the second: see the sixth
  disagreement.

A leaf that needs no arithmetic cites Zenon, which keeps the proofs fast: a module
takes between a few seconds and five minutes from scratch.

**Only model-checked:** liveness under fairness, which the prover does not handle;
`PendingHasDeadline` and `KeepsCustody`, because the async broker flushes its buffer
and fires its deadlines with folds, and what a fold computes needs induction over
sequences; `ChannelSpec`, for the same reason (a length prefix is a fold over its
bytes, and the expected envelopes are a `SelectSeq`); and the invariants of `WsStream`
and `AsyncWs`, which have both and the exclusive or of the mask, which the prover
cannot use.

## 6. What is not modelled

- Wall-clock time outside `WsSession`: timeouts are steps that may happen, so the
  length of `RESEND_TIMEOUT` and of the heartbeat is immaterial. Heartbeats are left
  out of `Socket` and `AsyncSocket`.
- The wrap of the 64-bit id counter, and the random salt of an id.
- Process crashes: nothing is persistent, and a restarted process is a new socket
  with a new identity.
- `recv`, `messages` and their timeouts, in both crates: they consume what
  `received` records and change nothing else.
- The TLS handshake before the session's threads exist, certificates and
  configuration: rustls, driven by one thread. Its HELLO is in `Framing`.
- The wording of HTTP responses, the case-insensitive comparison of header text,
  and SHA-1 and base64, pure functions that the crates' tests check against the
  example of RFC 6455. A key is the number of bytes it decodes to, which is what the
  upgrade's decision depends on.
- In `Socket`, reading bytes: the reader keeps the promise of `FrameChannel`, which
  for plain TCP is the case the first disagreement leaves.
- The composition of a whole TLS or WebSocket session with the broker's tables:
  `Socket` has plain sessions, and the other two meet the broker through the same
  three commands (`WsSession` has them, `TlsSession` forwards and drops).
- The ports in other languages, which implement the same protocol, and the
  tests, examples and builders of the Rust crates.
