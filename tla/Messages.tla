------------------------------ MODULE Messages ------------------------------
(***************************************************************************)
(* What the threads of one synchronous socket (rust-lib-sync) say to each  *)
(* other, and the channels they say it on: the frames of protocol.rs, the  *)
(* Command and TimerMsg enums of broker.rs, the broker's command channel,  *)
(* the timer's channel and one writer channel per connection.              *)
(*                                                                         *)
(* Payloads and message ids are numbers.  The application's k-th send has  *)
(* payload k.  A message id is the counter of next_msg_id; its other half, *)
(* the salt, is fixed for the life of a broker and only tells this         *)
(* broker's ids from those of other processes.  What the remote end of     *)
(* connection c sends is the pair <<c, n>>, n = 1, 2, ...                  *)
(***************************************************************************)
EXTENDS Integers, Sequences

CONSTANTS
    Identity,       \* identities of remote sockets
    Conn,           \* connections, one per accept() or connect(); never reused
    NoIdentity,     \* the None of Option<Identity>
    NoConn,         \* absent from the broker's connection map
    SendMode,       \* "RoundRobin" or "Publish"
    Delivery,       \* "AtMostOnce" or "AtLeastOnce"
    MAX_RETRIES,    \* broker.rs: 5
    CursorMod       \* 2^w, w the width of usize

ASSUME MessagesAssumption ==
    /\ NoIdentity \notin Identity
    /\ NoConn \notin Conn
    /\ SendMode \in {"RoundRobin", "Publish"}
    /\ Delivery \in {"AtMostOnce", "AtLeastOnce"}
    /\ MAX_RETRIES \in Nat
    /\ CursorMod \in Nat \ {0}

VARIABLES
    cmd,        \* the command channel: every thread sends, the broker receives
    timer_ch,   \* the timer channel: the broker sends, the timer thread receives
    writer_ch,  \* writer_ch[c]: the broker sends, the writer thread of c receives
    accept,     \* accept[c]: the one-shot reply channel of register()
    broker,     \* "running", "dropping" (joining the timer) or "done"
    writer      \* writer[c]: "idle" (not spawned), "running" or "done"

channels == <<cmd, timer_ch, writer_ch, accept>>

-----------------------------------------------------------------------------
(* Frames.  Envelopes the remote end sends and envelopes this socket sends. *)

RemoteMsg == Conn \X Nat

data(payload) == [type |-> "DATA", payload |-> payload]

data_req(id, payload) == [type |-> "DATA_REQ", id |-> id, payload |-> payload]

ack(id) == [type |-> "ACK", id |-> id]

OutFrame ==
    [type : {"DATA"}, payload : Nat]
      \cup [type : {"DATA_REQ"}, id : Nat, payload : Nat]
      \cup [type : {"ACK"}, id : RemoteMsg]

InFrame ==
    [type : {"DATA"}, payload : RemoteMsg]
      \cup [type : {"DATA_REQ"}, id : RemoteMsg, payload : RemoteMsg]
      \cup [type : {"ACK"}, id : Nat]

-----------------------------------------------------------------------------
(* Commands.  The field conn of ConnectionUp stands for its two senders,   *)
(* writer and accept.  In ConnectionDown and Received it only records      *)
(* which connection spoke: the code's commands carry the identity alone,   *)
(* and no handler reads it.                                                *)

OptIdentity == Identity \cup {NoIdentity}

Send(id, d) == [type |-> "Send", identity |-> id, payload |-> d]

ConnectionUp(p, c) == [type |-> "ConnectionUp", identity |-> p, conn |-> c]

ConnectionDown(p, c) == [type |-> "ConnectionDown", identity |-> p, conn |-> c]

Received(p, c, e) == [type |-> "Received", identity |-> p, conn |-> c, envelope |-> e]

ResendTimeout(id) == [type |-> "ResendTimeout", id |-> id]

Close == [type |-> "Close"]

Command ==
    [type : {"Send"}, identity : OptIdentity, payload : Nat]
      \cup [type : {"ConnectionUp", "ConnectionDown"}, identity : Identity, conn : Conn]
      \cup [type : {"Received"}, identity : Identity, conn : Conn, envelope : InFrame]
      \cup [type : {"ResendTimeout"}, id : Nat]
      \cup {Close}

Arm(id) == [type |-> "Arm", id |-> id]

Cancel(id) == [type |-> "Cancel", id |-> id]

Shutdown == [type |-> "Shutdown"]

TimerMsg == [type : {"Arm", "Cancel"}, id : Nat] \cup {Shutdown}

(* cmd_tx.send: succeeds exactly while the broker holds the receiver.      *)
Connected == broker = "running"

SendCommand(c) == cmd' = IF Connected THEN Append(cmd, c) ELSE cmd

ChannelsTypeOK ==
    /\ cmd \in Seq(Command)
    /\ timer_ch \in Seq(TimerMsg)
    /\ writer_ch \in [Conn -> Seq(OutFrame)]
    /\ accept \in [Conn -> {"empty", "true", "false"}]
    /\ broker \in {"running", "dropping", "done"}
    /\ writer \in [Conn -> {"idle", "running", "done"}]

ChannelsInit ==
    /\ cmd = <<>>
    /\ timer_ch = <<>>
    /\ writer_ch = [c \in Conn |-> <<>>]
    /\ accept = [c \in Conn |-> "empty"]
    /\ broker = "running"
    /\ writer = [c \in Conn |-> "idle"]
=============================================================================
