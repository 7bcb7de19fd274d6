----------------------------- MODULE TlsSession -----------------------------
(***************************************************************************)
(* Two synchronous sockets joined by one TLS connection, once both sides   *)
(* are registered: tls_reader, tls_writer and the write_pending they       *)
(* share.  Each end has a reader and a writer thread, one rustls           *)
(* Connection behind the mutex conn, and one write handle behind the mutex *)
(* write_sock.  A TCP direction holds at most CAP records, so a write can  *)
(* block until the far reader reads.                                       *)
(*                                                                         *)
(* rustls is external: it numbers the records it encrypts, refuses one     *)
(* that is not the next in number, may ask the peer for an answer, and     *)
(* answers when it is asked (alerts, key updates), queueing the answer     *)
(* until somebody calls write_tls.                                         *)
(***************************************************************************)
EXTENDS Integers, Sequences, FiniteSets

CONSTANTS
    CAP,            \* records the kernel holds for one direction
    FrameRecords,   \* records that carry one frame
    MaxFrames,      \* bound: frames a writer takes from its channel
    Leftover,       \* the ends whose handshake leaves a record to be flushed
    MaxAsks         \* bound: MaxAsks[e] records of end e ask for an answer

End == {"bind", "connect"}

ASSUME TlsAssumption ==
    /\ CAP \in Nat \ {0} /\ FrameRecords \in Nat \ {0} /\ MaxFrames \in Nat
    /\ Leftover \subseteq End
    /\ MaxAsks \in [End -> Nat]

Other(e) == CHOOSE x \in End : x # e

Thread == {"reader", "writer"}

VARIABLES
    pc,         \* pc[e][t]: where thread t of end e stands
    conn,       \* conn[e]: the holder of the mutex on the rustls Connection
    write_sock, \* write_sock[e]: the holder of the mutex on the write handle
    tls,        \* tls[e]: the Connection: next number out, next in, queued records
    cipher,     \* cipher[e][t]: CIPHER, the thread's scratch of records to write
    raw,        \* raw[e]: the chunk the reader has read
    pipe,       \* pipe[e]: the records end e wrote and the far end has not read
    link,       \* link[e]: FALSE once the socket of end e is shut down
    dropped,    \* dropped[e]: the broker dropped the sender of the writer's channel
    taken,      \* taken[e]: frames the writer took from its channel
    asked,      \* asked[e]: records of end e that asked for an answer
    decoded,    \* decoded[e]: data records the reader put into its decoder
    forwarded   \* forwarded[e]: frames the reader sent on to the broker

vars == <<pc, conn, write_sock, tls, cipher, raw, pipe, link, dropped, taken, asked, decoded, forwarded>>

Nobody == "nobody"

Kind == {"data", "ask", "answer"}

Record == [seq : Nat, kind : Kind]

(* tls_session hands over: the writer is spawned before tls_reader starts. *)
Init ==
    /\ pc = [e \in End |-> [t \in Thread |-> IF t = "reader" THEN "start" ELSE "recv"]]
    /\ conn = [e \in End |-> Nobody]
    /\ write_sock = [e \in End |-> Nobody]
    /\ tls = [e \in End |-> IF e \in Leftover
                              THEN [enc |-> 1, dec |-> 0, out |-> <<[seq |-> 0, kind |-> "answer"]>>]
                              ELSE [enc |-> 0, dec |-> 0, out |-> <<>>]]
    /\ cipher = [e \in End |-> [t \in Thread |-> <<>>]]
    /\ raw = [e \in End |-> <<>>]
    /\ pipe = [e \in End |-> <<>>]
    /\ link = [e \in End |-> TRUE]
    /\ dropped = [e \in End |-> FALSE]
    /\ taken = [e \in End |-> 0]
    /\ asked = [e \in End |-> 0]
    /\ decoded = [e \in End |-> 0]
    /\ forwarded = [e \in End |-> 0]

Goto(e, t, l) == pc' = [pc EXCEPT ![e][t] = l]

-----------------------------------------------------------------------------
(* write_pending, for the frame of the writer or the control records of    *)
(* the reader                                                              *)

LockSock(e, t) ==
    /\ pc[e][t] = "lock"
    /\ write_sock[e] = Nobody
    /\ write_sock' = [write_sock EXCEPT ![e] = t]
    /\ Goto(e, t, "extract")
    /\ UNCHANGED <<conn, tls, cipher, raw, pipe, link, dropped, taken, asked, decoded, forwarded>>

Numbered(kinds, first) == [i \in DOMAIN kinds |-> [seq |-> first + i - 1, kind |-> kinds[i]]]

(* What the writer's frame becomes; rustls may put a request before it.    *)
Encrypted(e, asks) ==
    Numbered((IF asks THEN <<"ask">> ELSE <<>>) \o [i \in 1..FrameRecords |-> "data"], tls[e].enc)

(* Under the mutex conn: encrypt the frame, chunk by chunk, and move       *)
(* everything queued into the scratch buffer.                              *)
Extract(e, t) ==
    /\ pc[e][t] = "extract"
    /\ conn[e] = Nobody
    /\ conn' = [conn EXCEPT ![e] = t]
    /\ \E asks \in {FALSE} \cup {a \in {TRUE} : t = "writer" /\ asked[e] < MaxAsks[e]} :
        LET new == IF t = "writer" THEN Encrypted(e, asks) ELSE <<>> IN
        /\ cipher' = [cipher EXCEPT ![e][t] = tls[e].out \o new]
        /\ tls' = [tls EXCEPT ![e].enc = @ + Len(new), ![e].out = <<>>]
        /\ asked' = [asked EXCEPT ![e] = IF asks THEN @ + 1 ELSE @]
    /\ Goto(e, t, "unlock")
    /\ UNCHANGED <<write_sock, raw, pipe, link, dropped, taken, decoded, forwarded>>

(* Variant: the mutex conn stays locked during the write.                  *)
UnlockConnLate(e, t) ==
    /\ pc[e][t] = "unlock"
    /\ Goto(e, t, "write")
    /\ UNCHANGED <<conn, write_sock, tls, cipher, raw, pipe, link, dropped, taken, asked, decoded, forwarded>>

(* Variant: the lock on the write handle is taken for the write alone.     *)
UnlockConnBoth(e, t) ==
    /\ pc[e][t] = "unlock"
    /\ conn' = [conn EXCEPT ![e] = Nobody]
    /\ write_sock' = [write_sock EXCEPT ![e] = Nobody]
    /\ Goto(e, t, "write")
    /\ UNCHANGED <<tls, cipher, raw, pipe, link, dropped, taken, asked, decoded, forwarded>>

UnlockConn(e, t) ==
    /\ pc[e][t] = "unlock"
    /\ conn' = [conn EXCEPT ![e] = Nobody]
    /\ Goto(e, t, "write")
    /\ UNCHANGED <<write_sock, tls, cipher, raw, pipe, link, dropped, taken, asked, decoded, forwarded>>

(* write_all blocks while the direction is full.                           *)
WriteRecord(e, t) ==
    /\ pc[e][t] = "write"
    /\ cipher[e][t] # <<>>
    /\ link[e]
    /\ Len(pipe[e]) < CAP
    /\ pipe' = [pipe EXCEPT ![e] = Append(@, Head(cipher[e][t]))]
    /\ cipher' = [cipher EXCEPT ![e][t] = Tail(@)]
    /\ UNCHANGED <<pc, conn, write_sock, tls, raw, link, dropped, taken, asked, decoded, forwarded>>

Written(e, t) ==
    /\ pc[e][t] = "write"
    /\ cipher[e][t] = <<>>
    /\ write_sock' = [write_sock EXCEPT ![e] = Nobody]
    /\ Goto(e, t, IF t = "writer" THEN "recv" ELSE "forward")
    /\ UNCHANGED <<conn, tls, cipher, raw, pipe, link, dropped, taken, asked, decoded, forwarded>>

(* The socket was shut down at either end.  The writer returns; the reader *)
(* ignores the error and goes on to its next read.                         *)
WriteFails(e, t) ==
    /\ pc[e][t] = "write"
    /\ cipher[e][t] # <<>>
    /\ ~link[e] \/ ~link[Other(e)]
    /\ cipher' = [cipher EXCEPT ![e][t] = <<>>]
    /\ write_sock' = [write_sock EXCEPT ![e] = Nobody]
    /\ Goto(e, t, IF t = "writer" THEN "done" ELSE "forward")
    /\ UNCHANGED <<conn, tls, raw, pipe, link, dropped, taken, asked, decoded, forwarded>>

write_pending(e, t) ==
    LockSock(e, t) \/ Extract(e, t) \/ UnlockConn(e, t)
      \/ WriteRecord(e, t) \/ Written(e, t) \/ WriteFails(e, t)

-----------------------------------------------------------------------------
(* tls_writer *)

(* A queued frame, or a heartbeat when the channel has been idle.          *)
RecvFrame(e) ==
    /\ pc[e]["writer"] = "recv"
    /\ taken[e] < MaxFrames
    /\ taken' = [taken EXCEPT ![e] = @ + 1]
    /\ Goto(e, "writer", "lock")
    /\ UNCHANGED <<conn, write_sock, tls, cipher, raw, pipe, link, dropped, asked, decoded, forwarded>>

RecvDisconnected(e) ==
    /\ pc[e]["writer"] = "recv"
    /\ dropped[e]
    /\ Goto(e, "writer", "done")
    /\ UNCHANGED <<conn, write_sock, tls, cipher, raw, pipe, link, dropped, taken, asked, decoded, forwarded>>

-----------------------------------------------------------------------------
(* tls_reader, and the end of tls_session *)

(* What the handshake buffered goes to the decoder, and what it left       *)
(* unsent is flushed as after a chunk.                                     *)
drain_plaintext(e) ==
    /\ pc[e]["reader"] = "start"
    /\ conn[e] = Nobody
    /\ conn' = [conn EXCEPT ![e] = "reader"]
    /\ Goto(e, "reader", "release")
    /\ UNCHANGED <<write_sock, tls, cipher, raw, pipe, link, dropped, taken, asked, decoded, forwarded>>

(* One read of the socket, with no lock held.                              *)
ReadSock(e) ==
    /\ pc[e]["reader"] = "read"
    /\ link[e]
    /\ \E n \in 1..Len(pipe[Other(e)]) :
        /\ raw' = [raw EXCEPT ![e] = SubSeq(pipe[Other(e)], 1, n)]
        /\ pipe' = [pipe EXCEPT ![Other(e)] = SubSeq(@, n + 1, Len(@))]
    /\ Goto(e, "reader", "decrypt")
    /\ UNCHANGED <<conn, write_sock, tls, cipher, link, dropped, taken, asked, decoded, forwarded>>

Count(records, k) == Cardinality({i \in DOMAIN records : records[i].kind = k})

(* Feed the chunk to rustls and drain its plaintext into the decoder;      *)
(* every request in the chunk queues an answer.                            *)
Decrypt(e) ==
    /\ pc[e]["reader"] = "decrypt"
    /\ conn[e] = Nobody
    /\ conn' = [conn EXCEPT ![e] = "reader"]
    /\ LET answers == Numbered([i \in 1..Count(raw[e], "ask") |-> "answer"], tls[e].enc) IN
        tls' = [tls EXCEPT ![e].dec = @ + Len(raw[e]),
                           ![e].enc = @ + Len(answers),
                           ![e].out = @ \o answers]
    /\ decoded' = [decoded EXCEPT ![e] = @ + Count(raw[e], "data")]
    /\ raw' = [raw EXCEPT ![e] = <<>>]
    /\ Goto(e, "reader", "release")
    /\ UNCHANGED <<write_sock, cipher, pipe, link, dropped, taken, asked, forwarded>>

(* Variant: only a flush is followed by forward_frames.                    *)
ReleaseContinues(e) ==
    /\ pc[e]["reader"] = "release"
    /\ conn' = [conn EXCEPT ![e] = Nobody]
    /\ Goto(e, "reader", IF tls[e].out # <<>> THEN "lock" ELSE "read")
    /\ UNCHANGED <<write_sock, tls, cipher, raw, pipe, link, dropped, taken, asked, decoded, forwarded>>

(* wants_write is tested before the lock is released, and acted on after.  *)
Release(e) ==
    /\ pc[e]["reader"] = "release"
    /\ conn' = [conn EXCEPT ![e] = Nobody]
    /\ Goto(e, "reader", IF tls[e].out # <<>> THEN "lock" ELSE "forward")
    /\ UNCHANGED <<write_sock, tls, cipher, raw, pipe, link, dropped, taken, asked, decoded, forwarded>>

(* forward_frames: the complete frames in the decoder.                     *)
Forward(e) ==
    /\ pc[e]["reader"] = "forward"
    /\ forwarded' = [forwarded EXCEPT ![e] = decoded[e] \div FrameRecords]
    /\ Goto(e, "reader", "read")
    /\ UNCHANGED <<conn, write_sock, tls, cipher, raw, pipe, link, dropped, taken, asked, decoded>>

(* The socket was shut down here, or the far end closed and all is read.   *)
ReadEnds(e) ==
    /\ pc[e]["reader"] = "read"
    /\ ~link[e] \/ (~link[Other(e)] /\ pipe[Other(e)] = <<>>)
    /\ Goto(e, "reader", "down")
    /\ UNCHANGED <<conn, write_sock, tls, cipher, raw, pipe, link, dropped, taken, asked, decoded, forwarded>>

(* Variant: the writer is joined first and the socket shut down after.     *)
DownJoinsFirst(e) ==
    /\ pc[e]["reader"] = "down"
    /\ Goto(e, "reader", "join")
    /\ UNCHANGED <<conn, write_sock, tls, cipher, raw, pipe, link, dropped, taken, asked, decoded, forwarded>>

(* ConnectionDown to the broker, then shutdown_sock.shutdown(Both).        *)
Down(e) ==
    /\ pc[e]["reader"] = "down"
    /\ link' = [link EXCEPT ![e] = FALSE]
    /\ Goto(e, "reader", "join")
    /\ UNCHANGED <<conn, write_sock, tls, cipher, raw, pipe, dropped, taken, asked, decoded, forwarded>>

JoinWriter(e) ==
    /\ pc[e]["reader"] = "join"
    /\ pc[e]["writer"] = "done"
    /\ Goto(e, "reader", "done")
    /\ UNCHANGED <<conn, write_sock, tls, cipher, raw, pipe, link, dropped, taken, asked, decoded, forwarded>>

-----------------------------------------------------------------------------
(* The environment *)

(* handle_down drops the sender of the writer's channel.                   *)
BrokerDrops(e) ==
    /\ pc[e]["reader"] = "join"
    /\ ~dropped[e]
    /\ dropped' = [dropped EXCEPT ![e] = TRUE]
    /\ UNCHANGED <<pc, conn, write_sock, tls, cipher, raw, pipe, link, taken, asked, decoded, forwarded>>

(* close() shuts the registered socket down.                               *)
CloseSocket(e) ==
    /\ link[e]
    /\ link' = [link EXCEPT ![e] = FALSE]
    /\ UNCHANGED <<pc, conn, write_sock, tls, cipher, raw, pipe, dropped, taken, asked, decoded, forwarded>>

(* A read timeout or I/O error, a fatal TLS error, or a broker that is     *)
(* gone when the first, the second or a later forward_frames has a frame.  *)
ReaderGivesUp(e) ==
    /\ \/ pc[e]["reader"] = "start"
       \/ pc[e]["reader"] = "read" /\ pipe[Other(e)] = <<>>
       \/ pc[e]["reader"] = "decrypt" /\ conn[e] = Nobody
       \/ pc[e]["reader"] = "forward"
    /\ Goto(e, "reader", "down")
    /\ UNCHANGED <<conn, write_sock, tls, cipher, raw, pipe, link, dropped, taken, asked, decoded, forwarded>>

-----------------------------------------------------------------------------
ReaderNext(e) ==
    \/ write_pending(e, "reader")
    \/ drain_plaintext(e) \/ ReadSock(e) \/ Decrypt(e) \/ Release(e) \/ Forward(e)
    \/ ReadEnds(e) \/ Down(e) \/ JoinWriter(e)

WriterNext(e) == write_pending(e, "writer") \/ RecvDisconnected(e)

Next ==
    \E e \in End :
        \/ ReaderNext(e) \/ WriterNext(e) \/ BrokerDrops(e)
        \/ RecvFrame(e) \/ CloseSocket(e) \/ ReaderGivesUp(e)

Spec == Init /\ [][Next]_vars

(* Every thread keeps running and the broker serves its channel; nobody is *)
(* obliged to send, to close or to give up.                                *)
FairSpec ==
    /\ Spec
    /\ \A e \in End : WF_vars(ReaderNext(e)) /\ WF_vars(WriterNext(e)) /\ WF_vars(BrokerDrops(e))

-----------------------------------------------------------------------------
InFlight(e) == raw[Other(e)] \o pipe[e]

(* TLS records reach the peer in the order they were encrypted, whichever  *)
(* of the two threads extracts and writes them (write_pending): each       *)
(* record in the pipe or in the far reader's chunk has the number the far  *)
(* Connection expects next, as long as the far socket is open.             *)
RecordsInOrder ==
    \A e \in End : link[Other(e)] => \A i \in DOMAIN InFlight(e) :
        InFlight(e)[i].seq = tls[Other(e)].dec + i - 1

(* Thread t of end e cannot take a step of its own.                        *)
Blocked(e, t) ==
    CASE pc[e][t] = "lock" -> write_sock[e] # Nobody
      [] pc[e][t] \in {"start", "extract", "decrypt"} -> conn[e] # Nobody
      [] pc[e][t] = "write" -> cipher[e][t] # <<>> /\ Len(pipe[e]) = CAP
      [] pc[e][t] = "read" -> pipe[Other(e)] = <<>>
      [] pc[e][t] = "recv" -> TRUE
      [] OTHER -> FALSE

(* A backpressured write cannot wedge the readers against the writers      *)
(* (conn.rs, module comment and write_pending): while both sockets are     *)
(* open, it never happens that every thread is blocked and some write is   *)
(* not finished.                                                           *)
NotWedged ==
    (\A e \in End : link[e]) =>
        \/ \E e \in End, t \in Thread : ~Blocked(e, t)
        \/ \A e \in End, t \in Thread : pc[e][t] # "write"

(* Every frame a writer takes reaches the far broker, however the threads  *)
(* block each other, unless a socket is shut down or a reader gives up.    *)
FramesDelivered ==
    <>[](\A e \in End : forwarded[Other(e)] >= taken[e] \/ \E x \in End : ~link[x])

(* tls_session returns once its reader has ended, wherever its writer is   *)
(* then: the shutdown of the third handle needs no lock and unblocks a     *)
(* writer parked in write_all, the broker drops the channel of one that    *)
(* waits for a frame, and so the join of the writer never waits for good.  *)
SessionEnds == <>[](\A e \in End : pc[e]["reader"] \notin {"down", "join"})
=============================================================================
