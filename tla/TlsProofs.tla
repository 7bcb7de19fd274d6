------------------------------ MODULE TlsProofs -----------------------------
(***************************************************************************)
(* Theorems about module TlsSession, for all buffer sizes, frame sizes and *)
(* bounds: records reach the far end in the order of their encryption,     *)
(* whatever the TLS control traffic, and two ends that write at once do    *)
(* not wedge each other unless both have control records to write.         *)
(***************************************************************************)
EXTENDS TlsSession, FiniteSetTheorems, TLAPS

(* The records of s are numbered consecutively from first on.              *)
Run(s, first) == \A i \in 1..Len(s) : s[i].seq = first + i - 1

Place == {"start", "read", "decrypt", "release", "forward", "down", "join", "done",
          "recv", "lock", "extract", "unlock", "write"}

OrderTypeOK ==
    /\ pc \in [End -> [Thread -> Place]]
    /\ write_sock \in [End -> Thread \cup {Nobody}]
    /\ tls \in [End -> [enc : Nat, dec : Nat, out : Seq(Record)]]
    /\ cipher \in [End -> [Thread -> Seq(Record)]]
    /\ raw \in [End -> Seq(Record)]
    /\ pipe \in [End -> Seq(Record)]
    /\ link \in [End -> BOOLEAN]

(* Only the holder of write_sock has records in its scratch buffer.        *)
OneHolder ==
    \A e \in End : \A t \in Thread :
        /\ pc[e][t] \in {"extract", "unlock", "write"} => write_sock[e] = t
        /\ pc[e][t] \notin {"unlock", "write"} => cipher[e][t] = <<>>

(* A chunk is read only after the one before it was decrypted.             *)
OneChunk ==
    \A e \in End : pc[e]["reader"] \notin {"decrypt", "down", "join", "done"} => raw[e] = <<>>

(* The first number that end e has not yet put into its socket.            *)
Unsent(e) == tls[Other(e)].dec + Len(raw[Other(e)]) + Len(pipe[e])

Extracted(e) == Len(cipher[e]["reader"]) + Len(cipher[e]["writer"])

(* The far reader's chunk, the pipe, the scratch buffer and the queue of   *)
(* the Connection continue one another, up to the next number to be used.  *)
Continues(e) ==
    link[Other(e)] =>
        /\ Run(raw[Other(e)], tls[Other(e)].dec)
        /\ Run(pipe[e], tls[Other(e)].dec + Len(raw[Other(e)]))
        /\ link[e] => /\ \A t \in Thread : Run(cipher[e][t], Unsent(e))
                      /\ Run(tls[e].out, Unsent(e) + Extracted(e))
                      /\ tls[e].enc = Unsent(e) + Extracted(e) + Len(tls[e].out)

Order == OrderTypeOK /\ OneHolder /\ OneChunk /\ \A e \in End : Continues(e)

-----------------------------------------------------------------------------
(* Consecutive numbers under the operations on sequences                   *)

(* One record more at the end (write_all, into the pipe).                  *)
LEMMA RunAppend ==
    ASSUME NEW s \in Seq(Record), NEW r \in Record, NEW a \in Nat,
           Run(s, a), r.seq = a + Len(s)
    PROVE  Run(Append(s, r), a) /\ Append(s, r) \in Seq(Record) /\ Len(Append(s, r)) = Len(s) + 1
<1>1. Append(s, r) \in Seq(Record) /\ Len(Append(s, r)) = Len(s) + 1 /\ Len(s) \in Nat
  OBVIOUS
<1>2. /\ \A i \in 1..Len(s) : Append(s, r)[i] = s[i]
      /\ Append(s, r)[Len(s) + 1] = r
  OBVIOUS
<1>3. a + Len(s) = a + (Len(s) + 1) - 1
  BY <1>1
<1>4. \A i \in 1..(Len(s) + 1) : i \in 1..Len(s) \/ i = Len(s) + 1
  BY <1>1
<1> QED
  BY <1>1, <1>2, <1>3, <1>4, Zenon DEF Run

(* One record less at the front (write_all, from the scratch buffer).      *)
LEMMA RunTail ==
    ASSUME NEW s \in Seq(Record), NEW a \in Nat, s # <<>>, Run(s, a)
    PROVE  /\ Head(s) \in Record /\ Head(s).seq = a
           /\ Tail(s) \in Seq(Record) /\ Len(Tail(s)) = Len(s) - 1 /\ Run(Tail(s), a + 1)
<1>1. Len(s) \in Nat \ {0} /\ Head(s) = s[1] /\ Head(s) \in Record
  OBVIOUS
<1>2. Head(s).seq = a
  BY <1>1 DEF Run
<1>3. Tail(s) \in Seq(Record) /\ Len(Tail(s)) = Len(s) - 1
  BY <1>1
<1>4. \A i \in 1..Len(Tail(s)) : Tail(s)[i] = s[i + 1]
  BY <1>1, <1>3
<1>5. Run(Tail(s), a + 1)
  BY <1>1, <1>3, <1>4 DEF Run
<1> QED
  BY <1>1, <1>2, <1>3, <1>5, Zenon

(* Two sequences that continue each other.                                 *)
LEMMA RunCat ==
    ASSUME NEW s \in Seq(Record), NEW u \in Seq(Record), NEW a \in Nat,
           Run(s, a), Run(u, a + Len(s))
    PROVE  Run(s \o u, a) /\ s \o u \in Seq(Record) /\ Len(s \o u) = Len(s) + Len(u)
<1>1. Len(s) \in Nat /\ Len(u) \in Nat /\ s \o u \in Seq(Record) /\ Len(s \o u) = Len(s) + Len(u)
  OBVIOUS
<1>2. SUFFICES ASSUME NEW i \in 1..Len(s \o u) PROVE (s \o u)[i].seq = a + i - 1
  BY <1>1, Zenon DEF Run
<1>3. CASE i <= Len(s)
  BY <1>1, <1>3 DEF Run
<1>4. CASE i > Len(s)
  <2>1. i - Len(s) \in 1..Len(u) /\ (s \o u)[i] = u[i - Len(s)]
    BY <1>1, <1>4
  <2>2. u[i - Len(s)].seq = a + Len(s) + (i - Len(s)) - 1
    BY <1>1, <2>1, Zenon DEF Run
  <2> QED
    BY <1>1, <2>1, <2>2
<1> QED
  BY <1>1, <1>3, <1>4

(* A sequence cut in two (one read of the socket).                         *)
LEMMA RunCut ==
    ASSUME NEW s \in Seq(Record), NEW a \in Nat, NEW n \in 1..Len(s), Run(s, a)
    PROVE  /\ SubSeq(s, 1, n) \in Seq(Record) /\ Len(SubSeq(s, 1, n)) = n /\ Run(SubSeq(s, 1, n), a)
           /\ SubSeq(s, n + 1, Len(s)) \in Seq(Record) /\ Len(SubSeq(s, n + 1, Len(s))) = Len(s) - n
           /\ Run(SubSeq(s, n + 1, Len(s)), a + n)
<1>1. Len(s) \in Nat /\ n \in Nat /\ n <= Len(s)
  OBVIOUS
<1>2. SubSeq(s, 1, n) \in Seq(Record) /\ Len(SubSeq(s, 1, n)) = n
  BY <1>1
<1>3. \A i \in 1..n : SubSeq(s, 1, n)[i] = s[i]
  BY <1>1
<1>4. SubSeq(s, n + 1, Len(s)) \in Seq(Record) /\ Len(SubSeq(s, n + 1, Len(s))) = Len(s) - n
  BY <1>1
<1>5. \A i \in 1..(Len(s) - n) : SubSeq(s, n + 1, Len(s))[i] = s[n + i]
  BY <1>1
<1>6. Run(SubSeq(s, 1, n), a)
  BY <1>1, <1>2, <1>3 DEF Run
<1>7. Run(SubSeq(s, n + 1, Len(s)), a + n)
  <2>1. \A i \in 1..(Len(s) - n) : n + i \in 1..Len(s) /\ s[n + i].seq = a + (n + i) - 1
    BY <1>1 DEF Run
  <2> QED
    BY <1>1, <1>4, <1>5, <2>1 DEF Run
<1> QED
  BY <1>2, <1>4, <1>6, <1>7, Zenon

(* rustls numbers what it encrypts.                                        *)
LEMMA NumberedRun ==
    ASSUME NEW kinds \in Seq(Kind), NEW a \in Nat
    PROVE  Numbered(kinds, a) \in Seq(Record) /\ Len(Numbered(kinds, a)) = Len(kinds) /\ Run(Numbered(kinds, a), a)
<1>1. Len(kinds) \in Nat /\ DOMAIN kinds = 1..Len(kinds) /\ \A i \in 1..Len(kinds) : kinds[i] \in Kind
  OBVIOUS
<1>2. Numbered(kinds, a) = [i \in 1..Len(kinds) |-> [seq |-> a + i - 1, kind |-> kinds[i]]]
  BY <1>1, Zenon DEF Numbered
<1>3. \A i \in 1..Len(kinds) : [seq |-> a + i - 1, kind |-> kinds[i]] \in Record
  BY <1>1 DEF Record
<1>4. Numbered(kinds, a) \in Seq(Record) /\ Len(Numbered(kinds, a)) = Len(kinds)
  BY <1>1, <1>2, <1>3
<1> QED
  BY <1>1, <1>2, <1>4 DEF Run

(* The other end is the other end.                                         *)
LEMMA Ends ==
    ASSUME NEW e \in End
    PROVE  /\ Other(e) \in End /\ Other(e) # e /\ Other(Other(e)) = e
           /\ \A x \in End : x = e \/ x = Other(e)
<1>1. \A z \in End : Other(z) \in End /\ Other(z) # z
  <2> SUFFICES ASSUME NEW z \in End PROVE Other(z) \in End /\ Other(z) # z
    BY Zenon
  <2>1. \E x \in End : x # z
    BY Zenon DEF End
  <2> QED
    BY <2>1, Zenon DEF Other
<1> QED
  BY <1>1, Zenon DEF End

-----------------------------------------------------------------------------
(* Steps                                                                   *)

flow == <<tls, cipher, raw, pipe, link>>

(* A thread moves on, the others stay where they are.                      *)
LEMMA GotoEffect ==
    ASSUME OrderTypeOK, NEW e \in End, NEW t \in Thread, NEW l \in Place, Goto(e, t, l)
    PROVE  /\ pc' \in [End -> [Thread -> Place]]
           /\ pc'[e][t] = l
           /\ \A x \in End : \A u \in Thread : x # e \/ u # t => pc'[x][u] = pc[x][u]
<1>1. pc[e] \in [Thread -> Place]
  BY Zenon DEF OrderTypeOK
<1>2. pc' = [pc EXCEPT ![e] = [pc[e] EXCEPT ![t] = l]]
  BY Zenon DEF Goto
<1>3. [pc[e] EXCEPT ![t] = l] \in [Thread -> Place]
  BY <1>1, Zenon
<1> QED
  BY <1>1, <1>2, <1>3, Zenon DEF OrderTypeOK

(* What moves no record and closes no socket leaves the numbers alone.     *)
LEMMA FlowKept ==
    ASSUME Order, UNCHANGED flow, OrderTypeOK', OneHolder', OneChunk'
    PROVE  Order'
<1>1. \A e \in End : Continues(e)'
  BY Zenon DEF Order, Continues, Unsent, Extracted, flow
<1> QED
  BY <1>1, Zenon DEF Order

(* write_pending around its write: taking write_sock, leaving conn, and    *)
(* giving write_sock back.                                                 *)
LEMMA LockSteps ==
    ASSUME Order, NEW e \in End, NEW t \in Thread,
           LockSock(e, t) \/ UnlockConn(e, t) \/ Written(e, t)
    PROVE  Order'
<1>1. UNCHANGED flow
  BY Zenon DEF LockSock, UnlockConn, Written, flow
<1>2. PICK l \in {"extract", "write", "recv", "forward"} : Goto(e, t, l)
  BY Zenon DEF LockSock, UnlockConn, Written
<1>3. /\ pc' \in [End -> [Thread -> Place]]
      /\ pc'[e][t] = l
      /\ \A x \in End : \A u \in Thread : x # e \/ u # t => pc'[x][u] = pc[x][u]
  BY <1>2, GotoEffect DEF Order, Place
<1>4. write_sock' \in [End -> Thread \cup {Nobody}]
  BY Zenon DEF LockSock, UnlockConn, Written, Order, OrderTypeOK
<1>5. OrderTypeOK'
  BY <1>1, <1>3, <1>4, Zenon DEF Order, OrderTypeOK, flow
<1>6. OneChunk'
  <2>1. pc[e][t] \in {"lock", "unlock", "write"}
    BY Zenon DEF LockSock, UnlockConn, Written
  <2> QED
    BY <1>1, <1>3, <2>1, Zenon DEF Order, OneChunk, flow, Thread
<1>7. OneHolder'
  <2>1. CASE LockSock(e, t)
    <3>1. pc'[e][t] = "extract" /\ pc[e][t] = "lock"
      BY <1>3, <2>1, GotoEffect, Zenon DEF LockSock, Order, Place
    <3>2. write_sock[e] = Nobody /\ write_sock'[e] = t /\ \A x \in End : x # e => write_sock'[x] = write_sock[x]
      BY <2>1, Zenon DEF LockSock, Order, OrderTypeOK
    <3> QED
      BY <1>1, <1>3, <3>1, <3>2 DEF Order, OneHolder, flow, Thread, Nobody
  <2>2. CASE UnlockConn(e, t)
    <3>1. pc'[e][t] = "write" /\ pc[e][t] = "unlock" /\ UNCHANGED write_sock
      BY <1>3, <2>2, GotoEffect, Zenon DEF UnlockConn, Order, Place
    <3> QED
      BY <1>1, <1>3, <3>1, Zenon DEF Order, OneHolder, flow
  <2>3. CASE Written(e, t)
    <3>1. /\ pc'[e][t] \notin {"extract", "unlock", "write"}
          /\ pc[e][t] = "write" /\ cipher[e][t] = <<>>
      BY <1>3, <2>3, GotoEffect, Zenon DEF Written, Order, Place
    <3>2. write_sock[e] = t /\ \A x \in End : x # e => write_sock'[x] = write_sock[x]
      BY <2>3, <3>1, Zenon DEF Written, Order, OrderTypeOK, OneHolder
    <3> QED
      BY <1>1, <1>3, <3>1, <3>2 DEF Order, OneHolder, flow
  <2> QED
    BY <2>1, <2>2, <2>3, Zenon
<1> QED
  BY <1>1, <1>5, <1>6, <1>7, FlowKept, Zenon

(* The other steps that only move a thread on.                             *)
LEMMA ControlSteps ==
    ASSUME Order, NEW e \in End,
           \/ drain_plaintext(e) \/ Release(e) \/ Forward(e) \/ ReadEnds(e) \/ JoinWriter(e)
           \/ RecvFrame(e) \/ RecvDisconnected(e) \/ BrokerDrops(e) \/ ReaderGivesUp(e)
    PROVE  Order'
<1>1. UNCHANGED flow /\ UNCHANGED write_sock
  BY Zenon DEF flow, drain_plaintext, Release, Forward, ReadEnds, JoinWriter, RecvFrame, RecvDisconnected,
         BrokerDrops, ReaderGivesUp
<1>2. CASE UNCHANGED pc
  <2>1. OrderTypeOK' /\ OneHolder' /\ OneChunk'
    BY <1>1, <1>2, Zenon DEF Order, OrderTypeOK, OneHolder, OneChunk, flow
  <2> QED
    BY <1>1, <2>1, FlowKept, Zenon
<1>3. CASE \E l \in {"release", "lock", "forward", "read", "down", "done"} :
             /\ Goto(e, "reader", l)
             /\ pc[e]["reader"] \in {"start", "release", "read", "forward", "decrypt", "join"}
             /\ l \in {"down", "done"} \/ pc[e]["reader"] \notin {"decrypt", "join"}
  <2>1. PICK l \in {"release", "lock", "forward", "read", "down", "done"} :
             /\ Goto(e, "reader", l)
             /\ pc[e]["reader"] \in {"start", "release", "read", "forward", "decrypt", "join"}
             /\ l \in {"down", "done"} \/ pc[e]["reader"] \notin {"decrypt", "join"}
    BY <1>3, Zenon
  <2>2. "reader" \in Thread /\ l \in Place
    BY Zenon DEF Thread, Place
  <2>3. /\ pc' \in [End -> [Thread -> Place]]
        /\ pc'[e]["reader"] = l
        /\ \A x \in End : \A u \in Thread : x # e \/ u # "reader" => pc'[x][u] = pc[x][u]
    BY <2>1, <2>2, GotoEffect DEF Order, Place
  <2>4. OrderTypeOK'
    BY <1>1, <2>3, Zenon DEF Order, OrderTypeOK, flow
  <2>5. OneChunk'
    BY <1>1, <2>1, <2>2, <2>3, Zenon DEF Order, OneChunk, flow
  <2>6. OneHolder'
    BY <1>1, <2>1, <2>2, <2>3, Zenon DEF Order, OneHolder, flow
  <2> QED
    BY <1>1, <2>4, <2>5, <2>6, FlowKept, Zenon
<1>4. CASE \E l \in {"lock", "done"} : Goto(e, "writer", l) /\ pc[e]["writer"] = "recv"
  <2>1. PICK l \in {"lock", "done"} : Goto(e, "writer", l) /\ pc[e]["writer"] = "recv"
    BY <1>4, Zenon
  <2>2. "writer" \in Thread /\ "reader" \in Thread /\ l \in Place
    BY Zenon DEF Thread, Place
  <2>3. /\ pc' \in [End -> [Thread -> Place]]
        /\ pc'[e]["writer"] = l
        /\ \A x \in End : \A u \in Thread : x # e \/ u # "writer" => pc'[x][u] = pc[x][u]
    BY <2>1, <2>2, GotoEffect DEF Order, Place
  <2>4. OrderTypeOK'
    BY <1>1, <2>3, Zenon DEF Order, OrderTypeOK, flow
  <2>5. OneChunk'
    BY <1>1, <2>1, <2>2, <2>3, Zenon DEF Order, OneChunk, flow
  <2>6. OneHolder'
    BY <1>1, <2>1, <2>2, <2>3, Zenon DEF Order, OneHolder, flow
  <2> QED
    BY <1>1, <2>4, <2>5, <2>6, FlowKept, Zenon
<1> QED
  BY <1>2, <1>3, <1>4, Zenon DEF drain_plaintext, Release, Forward, ReadEnds, JoinWriter, RecvFrame,
         RecvDisconnected, BrokerDrops, ReaderGivesUp

(* A socket that is shut down sends nothing more; what is under way stays  *)
(* in order.                                                               *)
LEMMA ShutdownSteps ==
    ASSUME Order, NEW e \in End, Down(e) \/ CloseSocket(e)
    PROVE  Order'
<1>1. /\ UNCHANGED <<tls, cipher, raw, pipe, write_sock>>
      /\ link' = [link EXCEPT ![e] = FALSE]
  BY Zenon DEF Down, CloseSocket
<1>2. /\ pc' \in [End -> [Thread -> Place]]
      /\ \A x \in End : \A u \in Thread :
           pc'[x][u] = pc[x][u] \/ (u = "reader" /\ pc[x][u] = "down" /\ pc'[x][u] = "join")
  <2>1. CASE UNCHANGED pc
    BY <2>1, Zenon DEF Order, OrderTypeOK
  <2>2. CASE pc[e]["reader"] = "down" /\ Goto(e, "reader", "join")
    <3>1. "reader" \in Thread
      BY Zenon DEF Thread
    <3> QED
      BY <2>2, <3>1, GotoEffect DEF Order, Place
  <2> QED
    BY <2>1, <2>2, Zenon DEF Down, CloseSocket
<1>3. OrderTypeOK' /\ OneChunk' /\ OneHolder'
  <2>1. OrderTypeOK'
    BY <1>1, <1>2, Zenon DEF Order, OrderTypeOK
  <2>2. OneChunk'
    BY <1>1, <1>2, Zenon DEF Order, OneChunk, Thread
  <2>3. OneHolder'
    BY <1>1, <1>2 DEF Order, OneHolder
  <2> QED
    BY <2>1, <2>2, <2>3, Zenon
<1>4. \A x \in End : Continues(x)'
  <2> SUFFICES ASSUME NEW x \in End PROVE Continues(x)'
    BY Zenon
  <2>1. Other(x) \in End
    BY Ends, Zenon
  <2>2. (link'[Other(x)] => link[Other(x)]) /\ (link'[x] => link[x])
    BY <1>1, <2>1, Zenon DEF Order, OrderTypeOK
  <2> QED
    BY <1>1, <2>2, Zenon DEF Order, Continues, Unsent, Extracted
<1> QED
  BY <1>3, <1>4, Zenon DEF Order

(* A write fails only when one of the sockets is shut down: the records    *)
(* that are lost are the last ones that were to be sent.                   *)
LEMMA WriteFailsStep ==
    ASSUME Order, NEW e \in End, NEW t \in Thread, WriteFails(e, t)
    PROVE  Order'
<1>1. /\ UNCHANGED <<tls, raw, pipe, link>>
      /\ cipher' = [cipher EXCEPT ![e][t] = <<>>]
      /\ write_sock' = [write_sock EXCEPT ![e] = Nobody]
      /\ pc[e][t] = "write"
      /\ ~link[e] \/ ~link[Other(e)]
  BY Zenon DEF WriteFails
<1>2. PICK l \in {"done", "forward"} : Goto(e, t, l) /\ (t = "reader" => l = "forward")
  BY Zenon DEF WriteFails
<1>3. /\ pc' \in [End -> [Thread -> Place]]
      /\ pc'[e][t] = l
      /\ \A x \in End : \A u \in Thread : x # e \/ u # t => pc'[x][u] = pc[x][u]
  BY <1>2, GotoEffect DEF Order, Place
<1>4. /\ cipher' \in [End -> [Thread -> Seq(Record)]]
      /\ cipher'[e][t] = <<>>
      /\ \A x \in End : \A u \in Thread : x # e \/ u # t => cipher'[x][u] = cipher[x][u]
  <2>1. <<>> \in Seq(Record)
    OBVIOUS
  <2>2. /\ OrderTypeOK /\ cipher[e] \in [Thread -> Seq(Record)]
        /\ cipher' = [cipher EXCEPT ![e] = [cipher[e] EXCEPT ![t] = <<>>]]
    BY <1>1, Zenon DEF Order, OrderTypeOK
  <2>3. [cipher[e] EXCEPT ![t] = <<>>] \in [Thread -> Seq(Record)]
    BY <2>1, <2>2, Zenon
  <2> QED
    BY <2>2, <2>3, Zenon DEF OrderTypeOK
<1>5. OrderTypeOK'
  BY <1>1, <1>3, <1>4, Zenon DEF Order, OrderTypeOK
<1>6. OneChunk'
  BY <1>1, <1>2, <1>3, Zenon DEF Order, OneChunk, Thread
<1>7. OneHolder'
  <2>1. write_sock[e] = t /\ \A x \in End : x # e => write_sock'[x] = write_sock[x]
    BY <1>1, Zenon DEF Order, OrderTypeOK, OneHolder
  <2>2. pc'[e][t] \notin {"extract", "unlock", "write"}
    BY <1>2, <1>3, Zenon
  <2>3. \A u \in Thread : u # t => pc[e][u] \notin {"extract", "unlock", "write"}
    BY <2>1, Zenon DEF Order, OneHolder
  <2> QED
    BY <1>1, <1>3, <1>4, <2>1, <2>2, <2>3 DEF Order, OneHolder
<1>8. \A x \in End : Continues(x)'
  <2>1. Continues(e)'
    BY <1>1, Zenon DEF Order, Continues
  <2>2. Continues(Other(e))'
    <3>1. cipher'[Other(e)] = cipher[Other(e)] /\ Other(e) \in End
      BY <1>1, Ends, Zenon DEF Order, OrderTypeOK
    <3> QED
      BY <1>1, <3>1, Zenon DEF Order, Continues, Unsent, Extracted
  <2> QED
    BY <2>1, <2>2, Ends, Zenon
<1> QED
  BY <1>5, <1>6, <1>7, <1>8, Zenon DEF Order

(* An empty sequence continues anything.                                   *)
LEMMA RunEmpty ==
    ASSUME NEW a \in Nat
    PROVE  Run(<<>>, a) /\ Len(<<>>) = 0 /\ <<>> \in Seq(Record)
BY DEF Run

(* What a step at end e leaves alone of the other direction.               *)
LEMMA OtherDirection ==
    ASSUME Order, NEW x \in End,
           tls'[x] = tls[x], cipher'[x] = cipher[x], pipe'[x] = pipe[x], link' = link,
           raw'[Other(x)] = raw[Other(x)], tls'[Other(x)].dec = tls[Other(x)].dec
    PROVE  Continues(x)'
BY Zenon DEF Order, Continues, Unsent, Extracted

(* The records of an end are those of one thread when the other has none.  *)
LEMMA OneThread ==
    ASSUME NEW f \in [Thread -> Seq(Record)], NEW t \in Thread,
           \A u \in Thread : u # t => Len(f[u]) = 0
    PROVE  Len(f["reader"]) + Len(f["writer"]) = Len(f[t])
<1> Len(f[t]) \in Nat
  OBVIOUS
<1>1. CASE t = "reader"
  <2>1. "writer" \in Thread /\ "writer" # t
    BY <1>1, Zenon DEF Thread
  <2>2. Len(f["writer"]) = 0
    BY <2>1, Zenon
  <2> QED
    BY <1>1, <2>2
<1>2. CASE t = "writer"
  <2>1. "reader" \in Thread /\ "reader" # t
    BY <1>2, Zenon DEF Thread
  <2>2. Len(f["reader"]) = 0
    BY <2>1, Zenon
  <2> QED
    BY <1>2, <2>2
<1> QED
  BY <1>1, <1>2, Zenon DEF Thread

(* The holder of write_sock has all the extracted records of its end.      *)
LEMMA HolderHasAll ==
    ASSUME Order, NEW e \in End, NEW t \in Thread, pc[e][t] \in {"extract", "unlock", "write"}
    PROVE  /\ \A u \in Thread : u # t => cipher[e][u] = <<>> /\ Len(cipher[e][u]) = 0
           /\ Extracted(e) = Len(cipher[e][t])
           /\ Len(cipher[e][t]) \in Nat /\ Unsent(e) \in Nat
<1>1. \A u \in Thread : u # t => cipher[e][u] = <<>>
  BY Zenon DEF Order, OneHolder
<1>2. Len(cipher[e][t]) \in Nat
  BY DEF Order, OrderTypeOK
<1>3. Unsent(e) \in Nat
  <2>1. Other(e) \in End
    BY Ends, Zenon
  <2>2. tls[Other(e)].dec \in Nat /\ raw[Other(e)] \in Seq(Record) /\ pipe[e] \in Seq(Record)
    BY <2>1, Zenon DEF Order, OrderTypeOK
  <2>3. Len(raw[Other(e)]) \in Nat /\ Len(pipe[e]) \in Nat
    BY <2>2
  <2> QED
    BY <2>2, <2>3 DEF Unsent
<1>4. Extracted(e) = Len(cipher[e][t])
  <2>1. \A u \in Thread : u # t => Len(cipher[e][u]) = 0
    BY <1>1, RunEmpty, Zenon
  <2>2. cipher[e] \in [Thread -> Seq(Record)]
    BY Zenon DEF Order, OrderTypeOK
  <2> QED
    BY <2>1, <2>2, OneThread, Zenon DEF Extracted
<1> QED
  BY <1>1, <1>2, <1>3, <1>4

(* write_all puts the next record into the pipe.                           *)
LEMMA WriteRecordStep ==
    ASSUME Order, NEW e \in End, NEW t \in Thread, WriteRecord(e, t)
    PROVE  Order'
<1> DEFINE o == Other(e)
           c == cipher[e][t]
<1>1. /\ pc[e][t] = "write" /\ c # <<>> /\ link[e]
      /\ pipe' = [pipe EXCEPT ![e] = Append(pipe[e], Head(c))]
      /\ cipher' = [cipher EXCEPT ![e][t] = Tail(c)]
      /\ UNCHANGED <<pc, write_sock, tls, raw, link>>
  BY Zenon DEF WriteRecord
<1>2. /\ o \in End /\ o # e /\ Other(o) = e
      /\ \A x \in End : x = e \/ x = o
  BY Ends, Zenon
<1>3. c \in Seq(Record) /\ pipe[e] \in Seq(Record) /\ raw[o] \in Seq(Record) /\ tls[o].dec \in Nat
  BY <1>2, Zenon DEF Order, OrderTypeOK
<1>4. Head(c) \in Record /\ Tail(c) \in Seq(Record) /\ Append(pipe[e], Head(c)) \in Seq(Record)
  BY <1>1, <1>3
<1>5. /\ cipher' \in [End -> [Thread -> Seq(Record)]]
      /\ cipher'[e][t] = Tail(c)
      /\ \A x \in End : \A u \in Thread : x # e \/ u # t => cipher'[x][u] = cipher[x][u]
  <2>1. PICK rest : rest = Tail(c)
    BY Zenon
  <2>2. /\ OrderTypeOK /\ cipher[e] \in [Thread -> Seq(Record)] /\ rest \in Seq(Record)
        /\ cipher' = [cipher EXCEPT ![e] = [cipher[e] EXCEPT ![t] = rest]]
    BY <1>1, <1>4, <2>1, Zenon DEF Order, OrderTypeOK
  <2>3. [cipher[e] EXCEPT ![t] = rest] \in [Thread -> Seq(Record)]
    BY <2>2, Zenon
  <2>4. /\ cipher' \in [End -> [Thread -> Seq(Record)]]
        /\ cipher'[e][t] = rest
        /\ \A x \in End : \A u \in Thread : x # e \/ u # t => cipher'[x][u] = cipher[x][u]
    BY <2>2, <2>3, Zenon DEF OrderTypeOK
  <2> QED
    BY <2>1, <2>4, Zenon
<1>6. OrderTypeOK'
  BY <1>1, <1>4, <1>5, Zenon DEF Order, OrderTypeOK
<1>7. OneChunk'
  BY <1>1, Zenon DEF Order, OneChunk
<1>8. OneHolder'
  BY <1>1, <1>5 DEF Order, OneHolder
<1>9. /\ \A u \in Thread : u # t => cipher[e][u] = <<>> /\ Len(cipher[e][u]) = 0
      /\ Extracted(e) = Len(c) /\ Unsent(e) \in Nat
  BY <1>1, HolderHasAll, Zenon
<1>10. Continues(e)'
  <2> SUFFICES ASSUME link[o] PROVE Continues(e)'
    BY <1>1, Zenon DEF Continues
  <2>1. /\ Run(raw[o], tls[o].dec) /\ Run(pipe[e], tls[o].dec + Len(raw[o]))
        /\ Run(c, Unsent(e)) /\ Run(tls[e].out, Unsent(e) + Len(c))
        /\ tls[e].enc = Unsent(e) + Len(c) + Len(tls[e].out)
    BY <1>1, <1>9, Zenon DEF Order, Continues
  <2>2. /\ Head(c).seq = Unsent(e) /\ Len(Tail(c)) = Len(c) - 1 /\ Run(Tail(c), Unsent(e) + 1)
    BY <1>1, <1>3, <1>9, <2>1, RunTail, Zenon
  <2>3. tls[o].dec + Len(raw[o]) \in Nat /\ Unsent(e) = tls[o].dec + Len(raw[o]) + Len(pipe[e])
    BY <1>3 DEF Unsent
  <2>4. /\ Run(Append(pipe[e], Head(c)), tls[o].dec + Len(raw[o]))
        /\ Len(Append(pipe[e], Head(c))) = Len(pipe[e]) + 1
    <3>1. PICK b \in Nat : b = tls[o].dec + Len(raw[o])
      BY <2>3, Zenon
    <3>2. Run(pipe[e], b) /\ Head(c).seq = b + Len(pipe[e])
      BY <2>1, <2>2, <2>3, <3>1, Zenon
    <3>3. Run(Append(pipe[e], Head(c)), b) /\ Len(Append(pipe[e], Head(c))) = Len(pipe[e]) + 1
      BY <1>3, <1>4, <3>2, RunAppend, Zenon
    <3> QED
      BY <3>1, <3>3, Zenon
  <2>5. pipe'[e] = Append(pipe[e], Head(c))
    BY <1>1, Zenon DEF Order, OrderTypeOK
  <2>6. Len(pipe[e]) \in Nat /\ Len(c) \in Nat
    BY <1>3
  <2>7. Unsent(e)' = Unsent(e) + 1
    BY <1>1, <2>3, <2>4, <2>5, <2>6 DEF Unsent
  <2>8. Extracted(e)' = Len(c) - 1
    <3>1. \A u \in Thread : u # t => Len(cipher'[e][u]) = 0
      BY <1>5, <1>9, Zenon
    <3>2. Len(cipher'[e][t]) = Len(c) - 1
      BY <1>5, <2>2, Zenon
    <3>3. cipher'[e] \in [Thread -> Seq(Record)]
      BY <1>5, Zenon
    <3> QED
      BY <3>1, <3>2, <3>3, OneThread, Zenon DEF Extracted
  <2>9. \A u \in Thread : Run(cipher'[e][u], Unsent(e) + 1)
    BY <1>5, <1>9, <2>2, RunEmpty
  <2>10. Unsent(e) + 1 + (Len(c) - 1) = Unsent(e) + Len(c)
    BY <1>9, <2>6
  <2>11. /\ Run(tls'[e].out, Unsent(e)' + Extracted(e)')
         /\ tls'[e].enc = Unsent(e)' + Extracted(e)' + Len(tls'[e].out)
    BY <1>1, <2>1, <2>7, <2>8, <2>10, Zenon
  <2>12. /\ Run(raw'[o], tls'[o].dec)
         /\ Run(pipe'[e], tls'[o].dec + Len(raw'[o]))
    BY <1>1, <2>1, <2>4, <2>5, Zenon
  <2> QED
    BY <2>7, <2>9, <2>11, <2>12, Zenon DEF Continues
<1>11. Continues(o)'
  <2>1. cipher'[o] = cipher[o] /\ pipe'[o] = pipe[o]
    BY <1>1, <1>2, Zenon DEF Order, OrderTypeOK
  <2> QED
    BY <1>1, <1>2, <2>1, OtherDirection, Zenon
<1>12. \A x \in End : Continues(x)'
  BY <1>2, <1>10, <1>11, Zenon
<1> QED
  BY <1>6, <1>7, <1>8, <1>12, Zenon DEF Order

(* What the writer's frame becomes is numbered from the next number on.    *)
LEMMA EncryptedRun ==
    ASSUME NEW e \in End, NEW asks \in BOOLEAN, tls[e].enc \in Nat
    PROVE  Encrypted(e, asks) \in Seq(Record) /\ Run(Encrypted(e, asks), tls[e].enc)
<1> DEFINE front == IF asks THEN <<"ask">> ELSE <<>>
           rest == [i \in 1..FrameRecords |-> "data"]
<1>1. FrameRecords \in Nat
  BY TlsAssumption, Zenon
<1>2. rest \in Seq(Kind)
  BY <1>1 DEF Kind
<1>3. front \in Seq(Kind)
  <2>1. <<"ask">> \in Seq(Kind) /\ <<>> \in Seq(Kind)
    BY DEF Kind
  <2> QED
    BY <2>1, Zenon
<1> HIDE DEF front, rest
<1>4. front \o rest \in Seq(Kind)
  BY <1>2, <1>3
<1>5. Encrypted(e, asks) = Numbered(front \o rest, tls[e].enc)
  BY Zenon DEF Encrypted, front, rest
<1> QED
  BY <1>4, <1>5, NumberedRun, Zenon

(* Extraction moves the queue of the Connection, and behind it the new     *)
(* records, into the empty scratch buffer.                                 *)
LEMMA ExtractStep ==
    ASSUME Order, NEW e \in End, NEW t \in Thread, Extract(e, t)
    PROVE  Order'
<1> DEFINE o == Other(e)
           q == tls[e].out
<1>1. /\ pc[e][t] = "extract" /\ Goto(e, t, "unlock")
      /\ UNCHANGED <<write_sock, raw, pipe, link>>
  BY Zenon DEF Extract
<1>2. /\ o \in End /\ o # e /\ Other(o) = e
      /\ \A x \in End : x = e \/ x = o
  BY Ends, Zenon
<1>3. q \in Seq(Record) /\ tls[e].enc \in Nat /\ tls[e].dec \in Nat
      /\ tls[e] \in [enc : Nat, dec : Nat, out : Seq(Record)]
  BY Zenon DEF Order, OrderTypeOK
<1>4. PICK new : /\ new \in Seq(Record) /\ Run(new, tls[e].enc)
                 /\ cipher' = [cipher EXCEPT ![e][t] = q \o new]
                 /\ tls' = [tls EXCEPT ![e].enc = tls[e].enc + Len(new), ![e].out = <<>>]
  <2>1. PICK asks \in BOOLEAN :
            LET new == IF t = "writer" THEN Encrypted(e, asks) ELSE <<>> IN
            /\ cipher' = [cipher EXCEPT ![e][t] = q \o new]
            /\ tls' = [tls EXCEPT ![e].enc = tls[e].enc + Len(new), ![e].out = <<>>]
    BY Zenon DEF Extract
  <2>2. Encrypted(e, asks) \in Seq(Record) /\ Run(Encrypted(e, asks), tls[e].enc)
    BY <1>3, EncryptedRun, Zenon
  <2>3. <<>> \in Seq(Record) /\ Run(<<>>, tls[e].enc)
    BY <1>3, RunEmpty, Zenon
  <2>4. CASE t = "writer"
    BY <2>1, <2>2, <2>4, Zenon
  <2>5. CASE t # "writer"
    BY <2>1, <2>3, <2>5, Zenon
  <2> QED
    BY <2>4, <2>5, Zenon
<1>5. q \o new \in Seq(Record) /\ Len(q \o new) = Len(q) + Len(new) /\ Len(q) \in Nat /\ Len(new) \in Nat
  BY <1>3, <1>4
<1>6. /\ pc' \in [End -> [Thread -> Place]]
      /\ pc'[e][t] = "unlock"
      /\ \A x \in End : \A u \in Thread : x # e \/ u # t => pc'[x][u] = pc[x][u]
  BY <1>1, GotoEffect, Zenon DEF Order, Place
<1>7. /\ cipher' \in [End -> [Thread -> Seq(Record)]]
      /\ cipher'[e][t] = q \o new
      /\ \A x \in End : \A u \in Thread : x # e \/ u # t => cipher'[x][u] = cipher[x][u]
  <2>0. PICK put : put = q \o new
    BY Zenon
  <2>1. OrderTypeOK /\ put \in Seq(Record) /\ cipher' = [cipher EXCEPT ![e][t] = put]
    BY <1>4, <1>5, <2>0, Zenon DEF Order
  <2>3. cipher[e] \in [Thread -> Seq(Record)] /\ cipher' = [cipher EXCEPT ![e] = [cipher[e] EXCEPT ![t] = put]]
    BY <2>1, Zenon DEF OrderTypeOK
  <2>4. [cipher[e] EXCEPT ![t] = put] \in [Thread -> Seq(Record)]
    BY <2>1, <2>3, Zenon
  <2>2. /\ cipher' \in [End -> [Thread -> Seq(Record)]]
        /\ cipher'[e][t] = put
        /\ \A x \in End : \A u \in Thread : x # e \/ u # t => cipher'[x][u] = cipher[x][u]
    BY <2>1, <2>3, <2>4 DEF OrderTypeOK
  <2> QED
    BY <2>0, <2>2, Zenon
<1>8. /\ tls' \in [End -> [enc : Nat, dec : Nat, out : Seq(Record)]]
      /\ tls'[e].enc = tls[e].enc + Len(new) /\ tls'[e].dec = tls[e].dec /\ tls'[e].out = <<>>
      /\ tls'[o] = tls[o]
  <2>1. tls' = [tls EXCEPT ![e] = [tls[e] EXCEPT !.enc = tls[e].enc + Len(new), !.out = <<>>]]
    BY <1>4, Zenon DEF Order, OrderTypeOK
  <2>2. tls'[e] = [tls[e] EXCEPT !.enc = tls[e].enc + Len(new), !.out = <<>>] /\ tls'[o] = tls[o]
    BY <1>2, <2>1, Zenon DEF Order, OrderTypeOK
  <2>3. tls'[e].enc = tls[e].enc + Len(new) /\ tls'[e].dec = tls[e].dec /\ tls'[e].out = <<>>
    BY <1>3, <2>2, Zenon
  <2>4. tls'[e] \in [enc : Nat, dec : Nat, out : Seq(Record)]
    <3>1. tls[e].enc + Len(new) \in Nat /\ <<>> \in Seq(Record)
      BY <1>3, <1>5
    <3> QED
      BY <1>3, <2>2, <3>1, Zenon
  <2> QED
    BY <1>2, <2>1, <2>2, <2>3, <2>4, Zenon DEF Order, OrderTypeOK
<1>9. OrderTypeOK'
  BY <1>1, <1>6, <1>7, <1>8, Zenon DEF Order, OrderTypeOK
<1>10. OneChunk'
  BY <1>1, <1>6, Zenon DEF Order, OneChunk, Thread
<1>11. OneHolder'
  <2>1. write_sock[e] = t
    BY <1>1, Zenon DEF Order, OneHolder
  <2> SUFFICES ASSUME NEW x \in End, NEW u \in Thread
               PROVE  /\ pc'[x][u] \in {"extract", "unlock", "write"} => write_sock'[x] = u
                      /\ pc'[x][u] \notin {"unlock", "write"} => cipher'[x][u] = <<>>
    BY Zenon DEF OneHolder
  <2>2. CASE x = e /\ u = t
    BY <1>1, <1>6, <2>1, <2>2, Zenon
  <2>3. CASE x # e \/ u # t
    <3>1. pc'[x][u] = pc[x][u] /\ cipher'[x][u] = cipher[x][u] /\ write_sock' = write_sock
      BY <1>1, <1>6, <1>7, <2>3, Zenon
    <3> QED
      BY <3>1, Zenon DEF Order, OneHolder
  <2> QED
    BY <2>2, <2>3, Zenon
<1>12. /\ \A u \in Thread : u # t => cipher[e][u] = <<>> /\ Len(cipher[e][u]) = 0
       /\ Extracted(e) = 0 /\ Unsent(e) \in Nat
  <2>1. cipher[e][t] = <<>>
    BY <1>1, Zenon DEF Order, OneHolder
  <2> QED
    BY <1>1, <2>1, HolderHasAll, RunEmpty, Zenon
<1>13. Continues(e)'
  <2> SUFFICES ASSUME link[o] PROVE Continues(e)'
    BY <1>1, Zenon DEF Continues
  <2>1. /\ Run(raw'[o], tls'[o].dec)
        /\ Run(pipe'[e], tls'[o].dec + Len(raw'[o]))
    BY <1>1, <1>8, Zenon DEF Order, Continues
  <2>2. Unsent(e)' = Unsent(e)
    BY <1>1, <1>8, Zenon DEF Unsent
  <2>3. Extracted(e)' = Len(q) + Len(new)
    <3>1. \A u \in Thread : u # t => Len(cipher'[e][u]) = 0
      BY <1>7, <1>12, Zenon
    <3>2. Len(cipher'[e][t]) = Len(q) + Len(new)
      BY <1>5, <1>7, Zenon
    <3>3. cipher'[e] \in [Thread -> Seq(Record)]
      BY <1>7, Zenon
    <3> QED
      BY <3>1, <3>2, <3>3, OneThread, Zenon DEF Extracted
  <2>4. CASE ~link[e]
    BY <1>1, <2>1, <2>4, Zenon DEF Continues
  <2>5. CASE link[e]
    <3>1. Run(q, Unsent(e)) /\ tls[e].enc = Unsent(e) + Len(q)
      BY <1>3, <1>12, <2>5 DEF Order, Continues
    <3>2. Run(q \o new, Unsent(e))
      BY <1>3, <1>4, <1>12, <3>1, RunCat, Zenon
    <3>3. \A u \in Thread : Run(cipher'[e][u], Unsent(e))
      BY <1>7, <1>12, <3>2, RunEmpty, Zenon
    <3>4. tls'[e].enc = Unsent(e) + (Len(q) + Len(new)) + 0
      <4>1. tls'[e].enc = tls[e].enc + Len(new)
        BY <1>8, Zenon
      <4>2. Unsent(e) + Len(q) + Len(new) = Unsent(e) + (Len(q) + Len(new)) + 0
        <5>1. \A a, b, d \in Nat : a + b + d = a + (b + d) + 0
          OBVIOUS
        <5> QED
          BY <1>5, <1>12, <5>1, Zenon
      <4> QED
        BY <3>1, <4>1, <4>2, Zenon
    <3>5. Unsent(e) + (Len(q) + Len(new)) \in Nat
      <4>1. \A a, b, d \in Nat : a + (b + d) \in Nat
        OBVIOUS
      <4> QED
        BY <1>5, <1>12, <4>1, Zenon
    <3>6. Run(tls'[e].out, Unsent(e) + (Len(q) + Len(new))) /\ Len(tls'[e].out) = 0
      BY <1>8, <3>5, RunEmpty, Zenon
    <3> QED
      BY <2>1, <2>2, <2>3, <3>3, <3>4, <3>6, Zenon DEF Continues
  <2> QED
    BY <1>1, <2>4, <2>5, Zenon DEF Order, OrderTypeOK
<1>14. Continues(o)'
  <2>1. cipher'[o] = cipher[o] /\ pipe'[o] = pipe[o] /\ tls'[e].dec = tls[e].dec
    BY <1>1, <1>2, <1>4, <1>8, Zenon DEF Order, OrderTypeOK
  <2> QED
    BY <1>1, <1>2, <1>8, <2>1, OtherDirection, Zenon
<1>15. \A x \in End : Continues(x)'
  BY <1>2, <1>13, <1>14, Zenon
<1> QED
  BY <1>9, <1>10, <1>11, <1>15, Zenon DEF Order

(* The reader takes a part of the pipe as its next chunk.                  *)
LEMMA ReadSockStep ==
    ASSUME Order, NEW e \in End, ReadSock(e)
    PROVE  Order'
<1> DEFINE o == Other(e)
           a == tls[e].dec
<1>1. /\ pc[e]["reader"] = "read" /\ Goto(e, "reader", "decrypt")
      /\ UNCHANGED <<write_sock, tls, cipher, link>>
  BY Zenon DEF ReadSock
<1>2. PICK n \in 1..Len(pipe[o]) :
          /\ raw' = [raw EXCEPT ![e] = SubSeq(pipe[o], 1, n)]
          /\ pipe' = [pipe EXCEPT ![o] = SubSeq(pipe[o], n + 1, Len(pipe[o]))]
  BY Zenon DEF ReadSock
<1>3. /\ o \in End /\ o # e /\ Other(o) = e
      /\ \A x \in End : x = e \/ x = o
      /\ "reader" \in Thread
  BY Ends, Zenon DEF Thread
<1>4. /\ pc' \in [End -> [Thread -> Place]]
      /\ pc'[e]["reader"] = "decrypt"
      /\ \A x \in End : \A u \in Thread : x # e \/ u # "reader" => pc'[x][u] = pc[x][u]
  BY <1>1, <1>3, GotoEffect, Zenon DEF Order, Place
<1>5. raw[e] = <<>> /\ Len(raw[e]) = 0
  BY <1>1, RunEmpty, Zenon DEF Order, OneChunk
<1>6. pipe[o] \in Seq(Record) /\ a \in Nat /\ Len(pipe[o]) \in Nat /\ n \in Nat
  BY <1>3 DEF Order, OrderTypeOK
<1>7. SubSeq(pipe[o], 1, n) \in Seq(Record) /\ SubSeq(pipe[o], n + 1, Len(pipe[o])) \in Seq(Record)
  BY <1>6
<1>8. /\ raw'[e] = SubSeq(pipe[o], 1, n) /\ raw'[o] = raw[o]
      /\ pipe'[o] = SubSeq(pipe[o], n + 1, Len(pipe[o])) /\ pipe'[e] = pipe[e]
  BY <1>2, <1>3, Zenon DEF Order, OrderTypeOK
<1>9. OrderTypeOK'
  BY <1>1, <1>2, <1>3, <1>4, <1>7, Zenon DEF Order, OrderTypeOK
<1>10. OneChunk'
  BY <1>3, <1>4, <1>8, Zenon DEF Order, OneChunk
<1>11. OneHolder'
  BY <1>1, <1>3, <1>4, Zenon DEF Order, OneHolder
<1>12. Continues(e)'
  BY <1>1, <1>8, OtherDirection, Zenon
<1>13. Continues(o)'
  <2> SUFFICES ASSUME link[e] PROVE Continues(o)'
    BY <1>1, <1>3, Zenon DEF Continues
  <2>1. /\ Run(pipe[o], a + Len(raw[e]))
        /\ link[o] => /\ \A t \in Thread : Run(cipher[o][t], Unsent(o))
                      /\ Run(tls[o].out, Unsent(o) + Extracted(o))
                      /\ tls[o].enc = Unsent(o) + Extracted(o) + Len(tls[o].out)
    BY <1>3, Zenon DEF Order, Continues
  <2>2. Run(pipe[o], a)
    BY <1>5, <1>6, <2>1
  <2>3. /\ Len(raw'[e]) = n /\ Run(raw'[e], a)
        /\ Len(pipe'[o]) = Len(pipe[o]) - n /\ Run(pipe'[o], a + n)
    BY <1>6, <1>8, <2>2, RunCut
  <2>4. Unsent(o)' = Unsent(o)
    <3>1. a + n + (Len(pipe[o]) - n) = a + 0 + Len(pipe[o])
      <4>1. \A x, y, z \in Nat : x + y + (z - y) = x + 0 + z
        OBVIOUS
      <4> QED
        BY <1>6, <4>1, Zenon
    <3> QED
      BY <1>1, <1>3, <1>5, <2>3, <3>1, Zenon DEF Unsent
  <2>5. Extracted(o)' = Extracted(o)
    BY <1>1, Zenon DEF Extracted
  <2> QED
    BY <1>1, <1>3, <2>1, <2>3, <2>4, <2>5, Zenon DEF Continues
<1>14. \A x \in End : Continues(x)'
  BY <1>3, <1>12, <1>13, Zenon
<1> QED
  BY <1>9, <1>10, <1>11, <1>14, Zenon DEF Order

(* The Connection takes in the chunk and queues its answers.               *)
LEMMA DecryptStep ==
    ASSUME Order, NEW e \in End, Decrypt(e)
    PROVE  Order'
<1> DEFINE o == Other(e)
           q == tls[e].out
<1>1. /\ Goto(e, "reader", "release")
      /\ raw' = [raw EXCEPT ![e] = <<>>]
      /\ UNCHANGED <<write_sock, cipher, pipe, link>>
  BY Zenon DEF Decrypt
<1>2. /\ o \in End /\ o # e /\ Other(o) = e
      /\ \A x \in End : x = e \/ x = o
      /\ "reader" \in Thread
  BY Ends, Zenon DEF Thread
<1>3. /\ q \in Seq(Record) /\ tls[e].enc \in Nat /\ tls[e].dec \in Nat
      /\ raw[e] \in Seq(Record) /\ Len(raw[e]) \in Nat /\ Len(q) \in Nat
      /\ tls[e] \in [enc : Nat, dec : Nat, out : Seq(Record)]
  BY DEF Order, OrderTypeOK
<1>4. PICK new : /\ new \in Seq(Record) /\ Run(new, tls[e].enc)
                 /\ tls' = [tls EXCEPT ![e].dec = tls[e].dec + Len(raw[e]),
                                       ![e].enc = tls[e].enc + Len(new),
                                       ![e].out = q \o new]
  <2> DEFINE n == Count(raw[e], "ask")
             kinds == [i \in 1..n |-> "answer"]
  <2>1. n \in Nat
    <3>1. IsFiniteSet(1..Len(raw[e]))
      <4>1. 1 \in Int /\ Len(raw[e]) \in Int
        BY <1>3
      <4> QED
        BY <4>1, FS_Interval, Zenon
    <3>2. {i \in DOMAIN raw[e] : raw[e][i].kind = "ask"} \subseteq 1..Len(raw[e])
      BY <1>3
    <3>3. IsFiniteSet({i \in DOMAIN raw[e] : raw[e][i].kind = "ask"})
      BY <3>1, <3>2, FS_Subset, Zenon
    <3> QED
      BY <3>3, FS_CardinalityType, Zenon DEF Count
  <2> HIDE DEF n
  <2>2. kinds \in Seq(Kind)
    BY <2>1 DEF Kind
  <2>3. Numbered(kinds, tls[e].enc) \in Seq(Record) /\ Run(Numbered(kinds, tls[e].enc), tls[e].enc)
    BY <1>3, <2>2, NumberedRun, Zenon
  <2>4. tls' = [tls EXCEPT ![e].dec = tls[e].dec + Len(raw[e]),
                           ![e].enc = tls[e].enc + Len(Numbered(kinds, tls[e].enc)),
                           ![e].out = q \o Numbered(kinds, tls[e].enc)]
    BY Zenon DEF Decrypt, n
  <2> QED
    BY <2>3, <2>4, Zenon
<1>5. q \o new \in Seq(Record) /\ Len(q \o new) = Len(q) + Len(new) /\ Len(new) \in Nat
  BY <1>3, <1>4
<1>6. /\ pc' \in [End -> [Thread -> Place]]
      /\ pc'[e]["reader"] = "release"
      /\ \A x \in End : \A u \in Thread : x # e \/ u # "reader" => pc'[x][u] = pc[x][u]
  BY <1>1, <1>2, GotoEffect, Zenon DEF Order, Place
<1>7. /\ tls' \in [End -> [enc : Nat, dec : Nat, out : Seq(Record)]]
      /\ tls'[e].enc = tls[e].enc + Len(new) /\ tls'[e].dec = tls[e].dec + Len(raw[e])
      /\ tls'[e].out = q \o new /\ tls'[o] = tls[o]
  <2>1. tls' = [tls EXCEPT ![e] = [tls[e] EXCEPT !.dec = tls[e].dec + Len(raw[e]),
                                               !.enc = tls[e].enc + Len(new), !.out = q \o new]]
    BY <1>4, Zenon DEF Order, OrderTypeOK
  <2>2. tls'[e] = [tls[e] EXCEPT !.dec = tls[e].dec + Len(raw[e]),
                                 !.enc = tls[e].enc + Len(new), !.out = q \o new]
        /\ tls'[o] = tls[o]
    BY <1>2, <2>1, Zenon DEF Order, OrderTypeOK
  <2>3. /\ tls'[e].enc = tls[e].enc + Len(new) /\ tls'[e].dec = tls[e].dec + Len(raw[e])
        /\ tls'[e].out = q \o new
    BY <1>3, <2>2, Zenon
  <2>4. tls'[e] \in [enc : Nat, dec : Nat, out : Seq(Record)]
    <3>1. tls[e].enc + Len(new) \in Nat /\ tls[e].dec + Len(raw[e]) \in Nat
      BY <1>3, <1>5
    <3> QED
      BY <1>3, <1>5, <2>2, <3>1, Zenon
  <2>5. tls' \in [End -> [enc : Nat, dec : Nat, out : Seq(Record)]]
    <3>1. PICK r \in [enc : Nat, dec : Nat, out : Seq(Record)] : r = tls'[e]
      BY <2>4, Zenon
    <3>2. tls' = [tls EXCEPT ![e] = r]
      BY <2>1, <2>2, <3>1, Zenon
    <3>3. tls \in [End -> [enc : Nat, dec : Nat, out : Seq(Record)]]
      BY Zenon DEF Order, OrderTypeOK
    <3> QED
      BY <3>2, <3>3, Zenon
  <2> QED
    BY <2>2, <2>3, <2>5, Zenon
<1>8. raw' \in [End -> Seq(Record)] /\ raw'[e] = <<>> /\ raw'[o] = raw[o] /\ Len(raw'[e]) = 0
  BY <1>1, <1>2, RunEmpty, Zenon DEF Order, OrderTypeOK
<1>9. OrderTypeOK'
  BY <1>1, <1>6, <1>7, <1>8, Zenon DEF Order, OrderTypeOK
<1>10. OneChunk'
  BY <1>2, <1>6, <1>8, Zenon DEF Order, OneChunk
<1>11. OneHolder'
  <2>1. pc[e]["reader"] = "decrypt"
    BY Zenon DEF Decrypt
  <2> QED
    BY <1>1, <1>2, <1>6, <2>1, Zenon DEF Order, OneHolder
<1>12. Continues(e)'
  <2> SUFFICES ASSUME link[o] PROVE Continues(e)'
    BY <1>1, Zenon DEF Continues
  <2>1. /\ Run(raw'[o], tls'[o].dec)
        /\ Run(pipe'[e], tls'[o].dec + Len(raw'[o]))
    BY <1>1, <1>7, <1>8, Zenon DEF Order, Continues
  <2>2. Unsent(e)' = Unsent(e) /\ Extracted(e)' = Extracted(e)
    BY <1>1, <1>7, <1>8, Zenon DEF Unsent, Extracted
  <2>3. Unsent(e) \in Nat /\ Extracted(e) \in Nat
    <3>1. /\ tls[o].dec \in Nat /\ Len(raw[o]) \in Nat /\ Len(pipe[e]) \in Nat
          /\ \A t \in Thread : Len(cipher[e][t]) \in Nat
      BY <1>2 DEF Order, OrderTypeOK
    <3>2. Len(cipher[e]["reader"]) \in Nat /\ Len(cipher[e]["writer"]) \in Nat
      BY <3>1, Zenon DEF Thread
    <3>3. Unsent(e) \in Nat
      <4>1. \A a, b, d \in Nat : a + b + d \in Nat
        OBVIOUS
      <4> QED
        BY <3>1, <4>1, Zenon DEF Unsent
    <3>4. Extracted(e) \in Nat
      <4>1. \A a, b \in Nat : a + b \in Nat
        OBVIOUS
      <4> QED
        BY <3>2, <4>1, Zenon DEF Extracted
    <3> QED
      BY <3>3, <3>4, Zenon
  <2>4. CASE ~link[e]
    BY <1>1, <2>1, <2>4, Zenon DEF Continues
  <2>5. CASE link[e]
    <3>1. /\ \A t \in Thread : Run(cipher[e][t], Unsent(e))
          /\ Run(q, Unsent(e) + Extracted(e))
          /\ tls[e].enc = Unsent(e) + Extracted(e) + Len(q)
      BY <2>5, Zenon DEF Order, Continues
    <3>2. Run(q \o new, Unsent(e) + Extracted(e))
      <4>1. PICK b \in Nat : b = Unsent(e) + Extracted(e)
        BY <2>3
      <4>2. Run(q, b) /\ Run(new, b + Len(q))
        BY <1>4, <3>1, <4>1, Zenon
      <4>3. Run(q \o new, b)
        BY <1>3, <1>4, <4>2, RunCat, Zenon
      <4> QED
        BY <4>1, <4>3, Zenon
    <3>3. tls'[e].enc = Unsent(e) + Extracted(e) + Len(q \o new)
      <4>2. Unsent(e) + Extracted(e) + Len(q) + Len(new) = Unsent(e) + Extracted(e) + (Len(q) + Len(new))
        <5>1. /\ Unsent(e) \in Nat /\ Extracted(e) \in Nat
              /\ Len(q) \in Nat /\ Len(new) \in Nat
          BY <1>3, <1>5, <2>3, Zenon
        <5> HIDE DEF q
        <5> QED
          BY <5>1
      <4> QED
        BY <1>5, <1>7, <3>1, <4>2, Zenon
    <3> QED
      BY <1>1, <1>7, <2>1, <2>2, <3>1, <3>2, <3>3, Zenon DEF Continues
  <2> QED
    BY <1>1, <2>4, <2>5, Zenon DEF Order, OrderTypeOK
<1>13. Continues(o)'
  <2> SUFFICES ASSUME link[e] PROVE Continues(o)'
    BY <1>1, <1>2, Zenon DEF Continues
  <2>1. /\ Run(pipe[o], tls[e].dec + Len(raw[e]))
        /\ link[o] => /\ \A t \in Thread : Run(cipher[o][t], Unsent(o))
                      /\ Run(tls[o].out, Unsent(o) + Extracted(o))
                      /\ tls[o].enc = Unsent(o) + Extracted(o) + Len(tls[o].out)
    BY <1>2, Zenon DEF Order, Continues
  <2>2. tls'[e].dec + Len(raw'[e]) = tls[e].dec + Len(raw[e])
    BY <1>3, <1>7, <1>8
  <2>3. Run(raw'[e], tls'[e].dec)
    <3>1. tls'[e].dec \in Nat
      BY <1>3, <1>7, Zenon
    <3> QED
      BY <1>8, <3>1, RunEmpty, Zenon
  <2>4. Unsent(o)' = Unsent(o) /\ Extracted(o)' = Extracted(o)
    BY <1>1, <1>2, <2>2, Zenon DEF Unsent, Extracted
  <2> QED
    BY <1>1, <1>2, <1>7, <2>1, <2>2, <2>3, <2>4, Zenon DEF Continues
<1>14. \A x \in End : Continues(x)'
  BY <1>2, <1>12, <1>13, Zenon
<1> QED
  BY <1>9, <1>10, <1>11, <1>14, Zenon DEF Order

-----------------------------------------------------------------------------
(* Order is an invariant: one step per step of a thread.                   *)
LEMMA OrderHolds == Spec => []Order
<1>1. Init => Order
  <2> SUFFICES ASSUME Init PROVE Order
    BY Zenon
  <2> USE DEF Init
  <2>1. <<[seq |-> 0, kind |-> "answer"]>> \in Seq(Record) /\ <<>> \in Seq(Record)
    BY DEF Record, Kind
  <2>2. OrderTypeOK
    <3>1. tls \in [End -> [enc : Nat, dec : Nat, out : Seq(Record)]]
      BY <2>1, Zenon
    <3> QED
      BY <2>1, <3>1, Zenon DEF OrderTypeOK, Place
  <2>3. OneHolder
    BY Zenon DEF OneHolder
  <2>4. OneChunk
    BY Zenon DEF OneChunk
  <2>5. \A e \in End : Continues(e)
    <3> SUFFICES ASSUME NEW e \in End PROVE Continues(e)
      BY Zenon
    <3>1. Other(e) \in End
      BY Ends, Zenon
    <3>2. /\ raw[Other(e)] = <<>> /\ pipe[e] = <<>> /\ tls[Other(e)].dec = 0
          /\ \A t \in Thread : cipher[e][t] = <<>>
      BY <3>1, Zenon
    <3>3. cipher[e]["reader"] = <<>> /\ cipher[e]["writer"] = <<>>
      BY <3>2, Zenon DEF Thread
    <3>4. Unsent(e) = 0 /\ Extracted(e) = 0
      <4>1. Len(<<>>) = 0
        BY Zenon
      <4>2. Unsent(e) = 0
        BY <3>2, <4>1 DEF Unsent
      <4>3. 0 + 0 = 0
        OBVIOUS
      <4>4. Extracted(e) = 0
        BY <3>3, <4>1, <4>3, Zenon DEF Extracted
      <4> QED
        BY <4>2, <4>4, Zenon
    <3>5. Run(tls[e].out, 0) /\ tls[e].enc = Len(tls[e].out)
      BY DEF Run
    <3>6. Run(<<>>, 0) /\ Len(<<>>) = 0
      BY RunEmpty, Zenon
    <3> QED
      BY <2>2, <3>2, <3>4, <3>5, <3>6 DEF Continues, OrderTypeOK
  <2> QED
    BY <2>2, <2>3, <2>4, <2>5, Zenon DEF Order
<1>2. Order /\ [Next]_vars => Order'
  <2> SUFFICES ASSUME Order, [Next]_vars PROVE Order'
    BY Zenon
  <2>1. CASE UNCHANGED vars
    <3>1. UNCHANGED flow /\ UNCHANGED <<pc, write_sock>>
      BY <2>1, Zenon DEF vars, flow
    <3>2. OrderTypeOK' /\ OneHolder' /\ OneChunk'
      BY <3>1, Zenon DEF Order, OrderTypeOK, OneHolder, OneChunk, flow
    <3> QED
      BY <3>1, <3>2, FlowKept, Zenon
  <2>2. ASSUME NEW e \in End, NEW t \in Thread, write_pending(e, t)
        PROVE  Order'
    BY <2>2, LockSteps, ExtractStep, WriteRecordStep, WriteFailsStep, Zenon DEF write_pending
  <2>3. "reader" \in Thread /\ "writer" \in Thread
    BY Zenon DEF Thread
  <2>4. ASSUME NEW e \in End, ReaderNext(e)
        PROVE  Order'
    BY <2>2, <2>3, <2>4, ControlSteps, ReadSockStep, DecryptStep, ShutdownSteps, Zenon DEF ReaderNext
  <2>5. ASSUME NEW e \in End, WriterNext(e)
        PROVE  Order'
    BY <2>2, <2>3, <2>5, ControlSteps, Zenon DEF WriterNext
  <2> QED
    BY <2>1, <2>4, <2>5, ControlSteps, ShutdownSteps, Zenon DEF Next
<1> QED
  BY <1>1, <1>2, PTL DEF Spec

(* TLS records reach the peer in the order they were encrypted             *)
(* (write_pending), whatever the two threads of each end interleave, how   *)
(* little the kernel buffers, and whatever the TLS layers have to tell     *)
(* each other: write_sock is taken before the extraction and held until    *)
(* the last byte is written, so no thread writes between another's two     *)
(* steps.                                                                  *)
THEOREM RecordsStayInOrder == Spec => []RecordsInOrder
<1>1. Order => RecordsInOrder
  <2> SUFFICES ASSUME Order, NEW e \in End, link[Other(e)], NEW i \in DOMAIN InFlight(e)
               PROVE  InFlight(e)[i].seq = tls[Other(e)].dec + i - 1
    BY Zenon DEF RecordsInOrder
  <2>1. /\ raw[Other(e)] \in Seq(Record) /\ pipe[e] \in Seq(Record) /\ tls[Other(e)].dec \in Nat
        /\ Run(raw[Other(e)], tls[Other(e)].dec)
        /\ Run(pipe[e], tls[Other(e)].dec + Len(raw[Other(e)]))
    BY Ends, Zenon DEF Order, OrderTypeOK, Continues
  <2>2. Run(InFlight(e), tls[Other(e)].dec) /\ InFlight(e) \in Seq(Record)
    BY <2>1, RunCat, Zenon DEF InFlight
  <2>3. i \in 1..Len(InFlight(e))
    BY <2>2
  <2> QED
    BY <2>2, <2>3, Zenon DEF Run
<1> QED
  BY <1>1, OrderHolds, PTL

-----------------------------------------------------------------------------
(* No wedge                                                                *)

(* A mutex is held by a thread that stands where it holds it.              *)
Mutexes ==
    /\ conn \in [End -> Thread \cup {Nobody}]
    /\ \A e \in End : \A t \in Thread :
        /\ conn[e] = t => pc[e][t] \in {"unlock", "release"}
        /\ write_sock[e] = t => pc[e][t] \in {"extract", "unlock", "write"}

(* A thread ends only after a socket was shut down.                        *)
Ended ==
    \A e \in End :
        /\ pc[e]["reader"] # "recv"
        /\ pc[e]["reader"] \in {"join", "done"} \/ dropped[e] => ~link[e]
        /\ pc[e]["writer"] = "done" => ~link[e] \/ ~link[Other(e)]

NoAsk(s) == \A i \in 1..Len(s) : s[i].kind # "ask"

(* End q is never asked anything, and its reader has nothing to write.     *)
Quiet(q) ==
    /\ asked[Other(q)] = 0
    /\ NoAsk(tls[Other(q)].out) /\ NoAsk(pipe[Other(q)]) /\ NoAsk(raw[q])
    /\ \A t \in Thread : NoAsk(cipher[Other(q)][t])
    /\ tls[q].out = <<>>
    /\ pc[q]["reader"] \notin {"lock", "extract", "unlock", "write"}

(* A step moves at most one thread on.                                     *)
LEMMA OneMoves ==
    ASSUME Order, NEW e \in End, NEW t \in Thread, NEW l \in Place, Goto(e, t, l)
    PROVE  /\ pc'[e][t] = l
           /\ \A x \in End : \A u \in Thread : x # e \/ u # t => pc'[x][u] = pc[x][u]
  BY GotoEffect, Zenon DEF Order

(* The mutexes change hands as the threads move.                           *)
LEMMA MutexesKept ==
    ASSUME Order, Mutexes, [Next]_vars
    PROVE  Mutexes'
<1> USE DEF Mutexes
<1>1. "reader" \in Thread /\ "writer" \in Thread /\ Nobody \notin Thread
  BY Zenon DEF Thread, Nobody
<1>2. pc \in [End -> [Thread -> Place]] /\ write_sock \in [End -> Thread \cup {Nobody}]
  BY Zenon DEF Order, OrderTypeOK
<1>3. ASSUME NEW e \in End, NEW t \in Thread, write_pending(e, t)
      PROVE  Mutexes'
  <2>1. CASE LockSock(e, t)
    <3>1. pc[e][t] = "lock" /\ UNCHANGED conn /\ write_sock' = [write_sock EXCEPT ![e] = t]
      BY <2>1, Zenon DEF LockSock
    <3>2. pc'[e][t] = "extract" /\ \A x \in End : \A u \in Thread : x # e \/ u # t => pc'[x][u] = pc[x][u]
      BY <2>1, OneMoves, Zenon DEF LockSock, Place
    <3> QED
      BY <1>1, <1>2, <3>1, <3>2
  <2>2. CASE Extract(e, t)
    <3>1. pc[e][t] = "extract" /\ UNCHANGED write_sock /\ conn' = [conn EXCEPT ![e] = t]
      BY <2>2, Zenon DEF Extract
    <3>2. pc'[e][t] = "unlock" /\ \A x \in End : \A u \in Thread : x # e \/ u # t => pc'[x][u] = pc[x][u]
      BY <2>2, OneMoves, Zenon DEF Extract, Place
    <3> QED
      BY <1>1, <1>2, <3>1, <3>2
  <2>3. CASE UnlockConn(e, t)
    <3>1. pc[e][t] = "unlock" /\ UNCHANGED write_sock /\ conn' = [conn EXCEPT ![e] = Nobody]
      BY <2>3, Zenon DEF UnlockConn
    <3>2. pc'[e][t] = "write" /\ \A x \in End : \A u \in Thread : x # e \/ u # t => pc'[x][u] = pc[x][u]
      BY <2>3, OneMoves, Zenon DEF UnlockConn, Place
    <3> QED
      BY <1>1, <1>2, <3>1, <3>2
  <2>4. CASE WriteRecord(e, t)
    BY <2>4 DEF WriteRecord
  <2>5. CASE Written(e, t) \/ WriteFails(e, t)
    <3>1. pc[e][t] = "write" /\ UNCHANGED conn /\ write_sock' = [write_sock EXCEPT ![e] = Nobody]
      BY <2>5, Zenon DEF Written, WriteFails
    <3>2. \A x \in End : \A u \in Thread : x # e \/ u # t => pc'[x][u] = pc[x][u]
      <4>1. PICK l \in Place : Goto(e, t, l)
        BY <2>5, Zenon DEF Written, WriteFails, Place
      <4> QED
        BY <4>1, OneMoves
    <3> QED
      BY <1>1, <1>2, <3>1, <3>2
  <2> QED
    BY <1>3, <2>1, <2>2, <2>3, <2>4, <2>5, Zenon DEF write_pending
<1>4. ASSUME NEW e \in End, drain_plaintext(e) \/ Decrypt(e)
      PROVE  Mutexes'
  <2>1. /\ pc[e]["reader"] \in {"start", "decrypt"} /\ UNCHANGED write_sock
        /\ conn' = [conn EXCEPT ![e] = "reader"]
    BY <1>4, Zenon DEF drain_plaintext, Decrypt
  <2>2. /\ pc'[e]["reader"] = "release"
        /\ \A x \in End : \A u \in Thread : x # e \/ u # "reader" => pc'[x][u] = pc[x][u]
    <3>1. Goto(e, "reader", "release") /\ "release" \in Place
      BY <1>4, Zenon DEF drain_plaintext, Decrypt, Place
    <3> QED
      BY <1>1, <3>1, OneMoves
  <2> QED
    BY <1>1, <1>2, <2>1, <2>2
<1>5. ASSUME NEW e \in End, Release(e)
      PROVE  Mutexes'
  <2>1. pc[e]["reader"] = "release" /\ UNCHANGED write_sock /\ conn' = [conn EXCEPT ![e] = Nobody]
    BY <1>5, Zenon DEF Release
  <2>2. \A x \in End : \A u \in Thread : x # e \/ u # "reader" => pc'[x][u] = pc[x][u]
    <3>1. PICK l \in Place : Goto(e, "reader", l)
      BY <1>5, Zenon DEF Release, Place
    <3> QED
      BY <1>1, <3>1, OneMoves
  <2> QED
    BY <1>1, <1>2, <2>1, <2>2
<1>6. ASSUME NEW e \in End, NEW t \in Thread, NEW l \in Place, Goto(e, t, l), UNCHANGED <<conn, write_sock>>,
             pc[e][t] \in {"start", "recv", "read", "decrypt", "forward", "down", "join"}
      PROVE  Mutexes'
  <2>1. \A x \in End : \A u \in Thread : x # e \/ u # t => pc'[x][u] = pc[x][u]
    BY <1>6, OneMoves
  <2> QED
    BY <1>2, <1>6, <2>1
<1>7. ASSUME NEW e \in End, ReadSock(e) \/ Forward(e) \/ ReadEnds(e) \/ Down(e) \/ JoinWriter(e) \/ ReaderGivesUp(e)
      PROVE  Mutexes'
  <2>1. PICK l \in Place : Goto(e, "reader", l)
    BY <1>7, Zenon DEF ReadSock, Forward, ReadEnds, Down, JoinWriter, ReaderGivesUp, Place
  <2>2. /\ UNCHANGED <<conn, write_sock>>
        /\ pc[e]["reader"] \in {"start", "read", "decrypt", "forward", "down", "join"}
    BY <1>7, Zenon DEF ReadSock, Forward, ReadEnds, Down, JoinWriter, ReaderGivesUp
  <2> QED
    BY <1>1, <1>6, <2>1, <2>2, Zenon
<1>8. ASSUME NEW e \in End, RecvFrame(e) \/ RecvDisconnected(e)
      PROVE  Mutexes'
  <2>1. PICK l \in Place : Goto(e, "writer", l)
    BY <1>8, Zenon DEF RecvFrame, RecvDisconnected, Place
  <2>2. UNCHANGED <<conn, write_sock>> /\ pc[e]["writer"] = "recv"
    BY <1>8, Zenon DEF RecvFrame, RecvDisconnected
  <2> QED
    BY <1>1, <1>6, <2>1, <2>2, Zenon
<1>9. ASSUME UNCHANGED <<pc, conn, write_sock>>
      PROVE  Mutexes'
  BY <1>9, Zenon
<1> QED
  BY <1>1, <1>3, <1>4, <1>5, <1>7, <1>8, <1>9, Zenon
     DEF Next, ReaderNext, WriterNext, BrokerDrops, CloseSocket, vars

(* Nobody ends by itself while both sockets are open: a socket that was    *)
(* shut down is not opened again.                                          *)
LEMMA EndedKept ==
    ASSUME Order, Ended, [Next]_vars
    PROVE  Ended'
<1>1. "reader" \in Thread /\ "writer" \in Thread /\ "reader" # "writer"
  BY Zenon DEF Thread
<1>2. pc \in [End -> [Thread -> Place]] /\ link \in [End -> BOOLEAN]
  BY Zenon DEF Order, OrderTypeOK
<1>3. ASSUME NEW e \in End, NEW t \in Thread, NEW l \in Place, Goto(e, t, l), UNCHANGED <<link, dropped>>,
             l \in {"recv", "done"} => t = "writer" /\ (l = "done" => ~link[e] \/ ~link[Other(e)]),
             l # "join"
      PROVE  Ended'
  <2>1. pc'[e][t] = l /\ \A x \in End : \A u \in Thread : x # e \/ u # t => pc'[x][u] = pc[x][u]
    BY <1>3, OneMoves, Zenon
  <2> QED
    BY <1>1, <1>3, <2>1, Ends, Zenon DEF Ended, Thread
<1>4. ASSUME NEW e \in End, NEW t \in Thread, write_pending(e, t)
      PROVE  Ended'
  <2>1. CASE WriteRecord(e, t)
    BY <2>1, Zenon DEF WriteRecord, Ended
  <2>2. CASE LockSock(e, t) \/ Extract(e, t) \/ UnlockConn(e, t)
    <3>1. PICK l \in {"extract", "unlock", "write"} : Goto(e, t, l)
      BY <2>2, Zenon DEF LockSock, Extract, UnlockConn
    <3>2. l \in Place /\ UNCHANGED <<link, dropped>>
      BY <2>2, Zenon DEF LockSock, Extract, UnlockConn, Place
    <3> QED
      BY <1>3, <3>1, <3>2, Zenon
  <2>3. CASE Written(e, t)
    <3>1. PICK l \in {"recv", "forward"} : Goto(e, t, l) /\ (l = "recv" => t = "writer")
      BY <2>3, Zenon DEF Written
    <3>2. l \in Place /\ UNCHANGED <<link, dropped>>
      BY <2>3, Zenon DEF Written, Place
    <3> QED
      BY <1>3, <3>1, <3>2, Zenon
  <2>4. CASE WriteFails(e, t)
    <3>1. PICK l \in {"done", "forward"} : Goto(e, t, l) /\ (l = "done" => t = "writer")
      BY <2>4, Zenon DEF WriteFails
    <3>2. l \in Place /\ UNCHANGED <<link, dropped>> /\ (~link[e] \/ ~link[Other(e)])
      BY <2>4, Zenon DEF WriteFails, Place
    <3> QED
      BY <1>3, <3>1, <3>2, Zenon
  <2> QED
    BY <1>4, <2>1, <2>2, <2>3, <2>4, Zenon DEF write_pending
<1>5. ASSUME NEW e \in End,
             \/ drain_plaintext(e) \/ ReadSock(e) \/ Decrypt(e) \/ Release(e) \/ Forward(e)
             \/ ReadEnds(e) \/ ReaderGivesUp(e)
      PROVE  Ended'
  <2>1. PICK l \in {"release", "decrypt", "lock", "forward", "read", "down"} : Goto(e, "reader", l)
    BY <1>5, Zenon DEF drain_plaintext, ReadSock, Decrypt, Release, Forward, ReadEnds, ReaderGivesUp
  <2>2. l \in Place /\ UNCHANGED <<link, dropped>>
    BY <1>5, Zenon DEF drain_plaintext, ReadSock, Decrypt, Release, Forward, ReadEnds, ReaderGivesUp, Place
  <2> QED
    BY <1>1, <1>3, <2>1, <2>2, Zenon
<1>6. ASSUME NEW e \in End, Down(e) \/ CloseSocket(e)
      PROVE  Ended'
  <2>1. link' = [link EXCEPT ![e] = FALSE] /\ UNCHANGED dropped
    BY <1>6, Zenon DEF Down, CloseSocket
  <2>2. \A x \in End : \A u \in Thread : pc'[x][u] = pc[x][u] \/ (x = e /\ u = "reader" /\ pc'[x][u] = "join")
    <3>1. CASE Down(e)
      BY <1>1, <3>1, OneMoves DEF Down, Place
    <3>2. CASE CloseSocket(e)
      BY <3>2, Zenon DEF CloseSocket
    <3> QED
      BY <1>6, <3>1, <3>2, Zenon
  <2> QED
    BY <1>1, <1>2, <2>1, <2>2, Ends DEF Ended
<1>7. ASSUME NEW e \in End, JoinWriter(e)
      PROVE  Ended'
  <2>1. pc[e]["reader"] = "join" /\ UNCHANGED <<link, dropped>>
    BY <1>7, Zenon DEF JoinWriter
  <2>2. /\ pc'[e]["reader"] = "done"
        /\ \A x \in End : \A u \in Thread : x # e \/ u # "reader" => pc'[x][u] = pc[x][u]
    BY <1>1, <1>7, OneMoves, Zenon DEF JoinWriter, Place
  <2> QED
    BY <1>1, <2>1, <2>2, Zenon DEF Ended
<1>8. ASSUME NEW e \in End, RecvFrame(e)
      PROVE  Ended'
  <2>1. Goto(e, "writer", "lock") /\ "lock" \in Place /\ UNCHANGED <<link, dropped>>
    BY <1>8, Zenon DEF RecvFrame, Place
  <2> QED
    BY <1>1, <1>3, <2>1, Zenon
<1>9. ASSUME NEW e \in End, RecvDisconnected(e)
      PROVE  Ended'
  <2>1. Goto(e, "writer", "done") /\ "done" \in Place /\ UNCHANGED <<link, dropped>> /\ dropped[e]
    BY <1>9, Zenon DEF RecvDisconnected, Place
  <2>2. ~link[e]
    BY <2>1, Zenon DEF Ended
  <2> QED
    BY <1>1, <1>3, <2>1, <2>2, Zenon
<1>10. ASSUME NEW e \in End, BrokerDrops(e)
       PROVE  Ended'
  <2>1. pc[e]["reader"] = "join" /\ UNCHANGED <<pc, link>> /\ dropped' = [dropped EXCEPT ![e] = TRUE]
    BY <1>10, Zenon DEF BrokerDrops
  <2>2. \A x \in End : x # e => dropped'[x] = dropped[x]
    BY <2>1
  <2> QED
    BY <2>1, <2>2, Zenon DEF Ended
<1>11. CASE UNCHANGED vars
  BY <1>11, Zenon DEF vars, Ended
<1> QED
  BY <1>1, <1>4, <1>5, <1>6, <1>7, <1>8, <1>9, <1>10, <1>11, Zenon DEF Next, ReaderNext, WriterNext

(* NoAsk under the operations on sequences.                                *)
LEMMA NoAskFacts ==
    ASSUME NEW s \in Seq(Record), NEW z \in Seq(Record), NoAsk(s)
    PROVE  /\ NoAsk(z) => NoAsk(s \o z)
           /\ s # <<>> => NoAsk(Tail(s)) /\ Head(s).kind # "ask"
           /\ \A r \in Record : r.kind # "ask" => NoAsk(Append(s, r))
           /\ \A m, n \in 1..Len(s) : NoAsk(SubSeq(s, m, n))
           /\ \A n \in 1..Len(s) : NoAsk(SubSeq(s, n + 1, Len(s)))
<1> USE DEF NoAsk
<1>1. NoAsk(z) => NoAsk(s \o z)
  <2> SUFFICES ASSUME NoAsk(z), NEW i \in 1..Len(s \o z) PROVE (s \o z)[i].kind # "ask"
    BY Zenon
  <2>1. CASE i \in 1..Len(s)
    BY <2>1
  <2>2. CASE i \notin 1..Len(s)
    <3>1. i - Len(s) \in 1..Len(z) /\ (s \o z)[i] = z[i - Len(s)]
      BY <2>2
    <3> QED
      BY <3>1, Zenon
  <2> QED
    BY <2>1, <2>2, Zenon
<1>2. s # <<>> => NoAsk(Tail(s)) /\ Head(s).kind # "ask"
  OBVIOUS
<1>3. \A r \in Record : r.kind # "ask" => NoAsk(Append(s, r))
  OBVIOUS
<1>4. \A m, n \in 1..Len(s) : NoAsk(SubSeq(s, m, n))
  OBVIOUS
<1>5. \A n \in 1..Len(s) : NoAsk(SubSeq(s, n + 1, Len(s)))
  OBVIOUS
<1> QED
  BY <1>1, <1>2, <1>3, <1>4, <1>5, Zenon

(* A sequence of numbered records of other kinds holds no request.         *)
LEMMA NumberedNoAsk ==
    ASSUME NEW n \in Nat, NEW a \in Nat, NEW k \in {"data", "answer"}
    PROVE  NoAsk(Numbered([i \in 1..n |-> k], a))
<1>1. Len(Numbered([i \in 1..n |-> k], a)) = n
  BY DEF Numbered
<1> QED
  BY <1>1, Zenon DEF NoAsk, Numbered

(* The end that is asked nothing stays quiet when records move: nothing    *)
(* the far end encrypts, and nothing on its way, asks for an answer.       *)
LEMMA QuietKept ==
    ASSUME NEW q \in End, MaxAsks[Other(q)] = 0, Order, Order', Quiet(q), [Next]_vars
    PROVE  Quiet(q)'
<1> DEFINE o == Other(q)
<1>1. "reader" \in Thread /\ "writer" \in Thread
  BY Zenon DEF Thread
<1>2. o \in End /\ o # q /\ Other(o) = q /\ \A x \in End : x = q \/ x = o
  BY Ends, Zenon
<1>3. /\ pc \in [End -> [Thread -> Place]]
      /\ tls \in [End -> [enc : Nat, dec : Nat, out : Seq(Record)]]
      /\ cipher \in [End -> [Thread -> Seq(Record)]]
      /\ raw \in [End -> Seq(Record)]
      /\ pipe \in [End -> Seq(Record)]
  BY Zenon DEF Order, OrderTypeOK
<1>4. ASSUME NEW e \in End, NEW t \in Thread, NEW l \in Place, Goto(e, t, l),
             e = q /\ t = "reader" => l \notin {"lock", "extract", "unlock", "write"}
      PROVE  pc'[q]["reader"] \notin {"lock", "extract", "unlock", "write"}
  <2>1. pc'[e][t] = l /\ \A x \in End : \A u \in Thread : x # e \/ u # t => pc'[x][u] = pc[x][u]
    BY <1>4, OneMoves, Zenon
  <2> QED
    BY <1>1, <1>4, <2>1, Zenon DEF Quiet
<1>5. ASSUME UNCHANGED <<tls, cipher, raw, pipe, asked>>,
             pc'[q]["reader"] \notin {"lock", "extract", "unlock", "write"}
      PROVE  Quiet(q)'
  BY <1>5, Zenon DEF Quiet
<1>6. ASSUME NEW e \in End, NEW t \in Thread, LockSock(e, t) \/ UnlockConn(e, t) \/ Written(e, t)
      PROVE  Quiet(q)'
  <2>1. UNCHANGED <<tls, cipher, raw, pipe, asked>>
    BY <1>6, Zenon DEF LockSock, UnlockConn, Written
  <2>2. pc[e][t] \in {"lock", "unlock", "write"} /\ ~(e = q /\ t = "reader")
    BY <1>6, Zenon DEF LockSock, UnlockConn, Written, Quiet
  <2>3. \E l \in Place : Goto(e, t, l)
    BY <1>6, Zenon DEF LockSock, UnlockConn, Written, Place
  <2> QED
    BY <1>4, <1>5, <2>1, <2>2, <2>3, Zenon
<1>7. ASSUME NEW e \in End, NEW t \in Thread, Extract(e, t)
      PROVE  Quiet(q)'
  <2>1. pc[e][t] = "extract" /\ Goto(e, t, "unlock") /\ UNCHANGED <<raw, pipe>> /\ "unlock" \in Place
    BY <1>7, Zenon DEF Extract, Place
  <2>2. ~(e = q /\ t = "reader")
    BY <2>1, Zenon DEF Quiet
  <2>3. pc'[q]["reader"] \notin {"lock", "extract", "unlock", "write"}
    BY <1>4, <2>1, <2>2, Zenon
  <2>4. PICK asks \in {FALSE} \cup {a \in {TRUE} : t = "writer" /\ asked[e] < MaxAsks[e]} :
            LET new == IF t = "writer" THEN Encrypted(e, asks) ELSE <<>> IN
            /\ cipher' = [cipher EXCEPT ![e][t] = tls[e].out \o new]
            /\ tls' = [tls EXCEPT ![e].enc = @ + Len(new), ![e].out = <<>>]
            /\ asked' = [asked EXCEPT ![e] = IF asks THEN @ + 1 ELSE @]
    BY <1>7, Zenon DEF Extract
  <2> DEFINE new == IF t = "writer" THEN Encrypted(e, asks) ELSE <<>>
  <2>5. /\ tls'[e].out = <<>> /\ \A x \in End : x # e => tls'[x].out = tls[x].out
        /\ cipher'[e][t] = tls[e].out \o new
        /\ \A x \in End : \A u \in Thread : x # e \/ u # t => cipher'[x][u] = cipher[x][u]
    BY <1>3, <2>4, Zenon
  <2>6. CASE e = q
    <3>1. asked'[o] = asked[o]
      BY <1>2, <2>4, <2>6
    <3> QED
      BY <1>2, <2>1, <2>3, <2>5, <2>6, <3>1, Zenon DEF Quiet
  <2>7. CASE e = o
    <3>1. asks = FALSE
      <4>1. ~(asked[e] < MaxAsks[e])
        BY <2>7 DEF Quiet
      <4> QED
        BY <4>1, Zenon
    <3>2. asked'[o] = 0
      BY <2>4, <2>7, <3>1 DEF Quiet
    <3>3. NoAsk(new) /\ new \in Seq(Record)
      <4>1. CASE t = "writer"
        <5>1. new = Numbered(<<>> \o [i \in 1..FrameRecords |-> "data"], tls[e].enc)
          BY <3>1, <4>1, Zenon DEF Encrypted
        <5>2. <<>> \o [i \in 1..FrameRecords |-> "data"] = [i \in 1..FrameRecords |-> "data"]
          BY TlsAssumption
        <5>3. tls[e].enc \in Nat /\ FrameRecords \in Nat /\ "data" \in Kind
          BY <1>3, TlsAssumption, Zenon DEF Kind
        <5>4. [i \in 1..FrameRecords |-> "data"] \in Seq(Kind)
          BY <5>3
        <5>5. new = Numbered([i \in 1..FrameRecords |-> "data"], tls[e].enc)
          BY <5>1, <5>2, Zenon
        <5>6. NoAsk(Numbered([i \in 1..FrameRecords |-> "data"], tls[e].enc))
          BY <5>3, NumberedNoAsk, Zenon
        <5>7. Numbered([i \in 1..FrameRecords |-> "data"], tls[e].enc) \in Seq(Record)
          BY <5>3, <5>4, NumberedRun, Zenon
        <5> QED
          BY <5>5, <5>6, <5>7, Zenon
      <4>2. CASE t # "writer"
        BY <4>2 DEF NoAsk
      <4> QED
        BY <4>1, <4>2, Zenon
    <3>4. NoAsk(cipher'[o][t])
      <4>1. tls[o].out \in Seq(Record) /\ NoAsk(tls[o].out)
        BY <1>2, <1>3, Zenon DEF Quiet
      <4> HIDE DEF new
      <4>2. NoAsk(tls[o].out \o new)
        BY <3>3, <4>1, NoAskFacts, Zenon
      <4> QED
        BY <2>5, <2>7, <4>2, Zenon
    <3>5. NoAsk(<<>>)
      BY DEF NoAsk
    <3> QED
      BY <1>2, <2>1, <2>3, <2>5, <2>7, <3>2, <3>4, <3>5, Zenon DEF Quiet
  <2> QED
    BY <1>2, <2>6, <2>7, Zenon
<1>8. ASSUME NEW e \in End, NEW t \in Thread, WriteRecord(e, t)
      PROVE  Quiet(q)'
  <2>1. UNCHANGED <<pc, tls, raw, asked>> /\ cipher[e][t] # <<>>
    BY <1>8, Zenon DEF WriteRecord
  <2>2. /\ pipe'[e] = Append(pipe[e], Head(cipher[e][t])) /\ \A x \in End : x # e => pipe'[x] = pipe[x]
        /\ cipher'[e][t] = Tail(cipher[e][t])
        /\ \A x \in End : \A u \in Thread : x # e \/ u # t => cipher'[x][u] = cipher[x][u]
    BY <1>3, <1>8, Zenon DEF WriteRecord
  <2>3. CASE e = q
    BY <1>2, <2>1, <2>2, <2>3, Zenon DEF Quiet
  <2>4. CASE e = o
    <3>1. cipher[o][t] \in Seq(Record) /\ Head(cipher[o][t]) \in Record /\ pipe[o] \in Seq(Record)
      BY <1>2, <1>3, <2>1, <2>4
    <3>2. NoAsk(Tail(cipher[o][t])) /\ Head(cipher[o][t]).kind # "ask"
      BY <2>1, <2>4, <3>1, NoAskFacts, Zenon DEF Quiet
    <3>3. NoAsk(Append(pipe[o], Head(cipher[o][t])))
      BY <3>1, <3>2, NoAskFacts, Zenon DEF Quiet
    <3> QED
      BY <1>2, <2>1, <2>2, <2>4, <3>2, <3>3, Zenon DEF Quiet
  <2> QED
    BY <1>2, <2>3, <2>4, Zenon
<1>9. ASSUME NEW e \in End, NEW t \in Thread, WriteFails(e, t)
      PROVE  Quiet(q)'
  <2>1. UNCHANGED <<tls, raw, pipe, asked>> /\ pc[e][t] = "write"
    BY <1>9, Zenon DEF WriteFails
  <2>2. \A x \in End : \A u \in Thread : cipher'[x][u] = cipher[x][u] \/ cipher'[x][u] = <<>>
    BY <1>3, <1>9, Zenon DEF WriteFails
  <2>3. pc'[q]["reader"] \notin {"lock", "extract", "unlock", "write"}
    <3>1. \E l \in Place : Goto(e, t, l)
      BY <1>9, Zenon DEF WriteFails, Place
    <3>2. ~(e = q /\ t = "reader")
      BY <2>1, Zenon DEF Quiet
    <3> QED
      BY <1>4, <3>1, <3>2, Zenon
  <2>4. NoAsk(<<>>)
    BY DEF NoAsk
  <2> QED
    BY <1>2, <2>1, <2>2, <2>3, <2>4, Zenon DEF Quiet
<1>10. ASSUME NEW e \in End, ReadSock(e)
       PROVE  Quiet(q)'
  <2>1. UNCHANGED <<tls, cipher, asked>> /\ Goto(e, "reader", "decrypt") /\ "decrypt" \in Place
    BY <1>10, Zenon DEF ReadSock, Place
  <2>2. pc'[q]["reader"] \notin {"lock", "extract", "unlock", "write"}
    BY <1>1, <1>4, <2>1, Zenon
  <2>3. PICK n \in 1..Len(pipe[Other(e)]) :
            /\ raw' = [raw EXCEPT ![e] = SubSeq(pipe[Other(e)], 1, n)]
            /\ pipe' = [pipe EXCEPT ![Other(e)] = SubSeq(@, n + 1, Len(@))]
    BY <1>10, Zenon DEF ReadSock
  <2>4. CASE e = q
    <3>1. raw'[q] = SubSeq(pipe[o], 1, n) /\ pipe'[o] = SubSeq(pipe[o], n + 1, Len(pipe[o]))
      BY <1>2, <1>3, <2>3, <2>4, Zenon
    <3>2. pipe[o] \in Seq(Record) /\ NoAsk(pipe[o]) /\ n \in 1..Len(pipe[o]) /\ 1 \in 1..Len(pipe[o])
      BY <1>2, <1>3, <2>3, <2>4 DEF Quiet
    <3>3. NoAsk(raw'[q]) /\ NoAsk(pipe'[o])
      BY <3>1, <3>2, NoAskFacts, Zenon
    <3> QED
      BY <2>1, <2>2, <3>3, Zenon DEF Quiet
  <2>5. CASE e = o
    BY <1>2, <1>3, <2>1, <2>2, <2>3, <2>5, Zenon DEF Quiet
  <2> QED
    BY <1>2, <2>4, <2>5, Zenon
<1>11. ASSUME NEW e \in End, Decrypt(e)
       PROVE  Quiet(q)'
  <2> DEFINE n == Count(raw[e], "ask")
             answers == Numbered([i \in 1..n |-> "answer"], tls[e].enc)
  <2>1. UNCHANGED <<cipher, pipe, asked>> /\ Goto(e, "reader", "release") /\ "release" \in Place
    BY <1>11, Zenon DEF Decrypt, Place
  <2>2. pc'[q]["reader"] \notin {"lock", "extract", "unlock", "write"}
    BY <1>1, <1>4, <2>1, Zenon
  <2>3. raw' = [raw EXCEPT ![e] = <<>>]
    BY <1>11, Zenon DEF Decrypt
  <2>4. tls'[e].out = tls[e].out \o answers /\ \A x \in End : x # e => tls'[x] = tls[x]
    BY <1>3, <1>11, Zenon DEF Decrypt
  <2>5. NoAsk(raw'[q])
    BY <1>3, <2>3 DEF NoAsk, Quiet
  <2>6. CASE e = q
    <3>1. {i \in DOMAIN raw[q] : raw[q][i].kind = "ask"} = {}
      BY <1>3 DEF Quiet, NoAsk
    <3>2. n = 0
      BY <2>6, <3>1, FS_EmptySet, Zenon DEF Count
    <3>3. answers = <<>>
      <4>1. [i \in 1..n |-> "answer"] \in Seq(Kind) /\ Len([i \in 1..n |-> "answer"]) = 0
        BY <3>2 DEF Kind
      <4>2. answers \in Seq(Record) /\ Len(answers) = 0
        BY <1>3, <4>1, NumberedRun, Zenon
      <4> QED
        BY <4>2
    <3>4. tls'[q].out = <<>>
      <4>1. tls'[q].out = tls[q].out \o <<>> /\ tls[q].out = <<>>
        BY <2>4, <2>6, <3>3, Zenon DEF Quiet
      <4>2. <<>> \o <<>> = <<>>
        OBVIOUS
      <4> QED
        BY <4>1, <4>2, Zenon
    <3> QED
      BY <1>2, <2>1, <2>2, <2>4, <2>5, <2>6, <3>4, Zenon DEF Quiet
  <2>7. CASE e = o
    <3>1. n \in Nat /\ tls[o].enc \in Nat /\ tls[o].out \in Seq(Record)
      <4>1. raw[e] \in Seq(Record)
        BY <1>3, Zenon
      <4>2. IsFiniteSet(DOMAIN raw[e])
        BY <4>1, FS_Interval
      <4>3. IsFiniteSet({i \in DOMAIN raw[e] : raw[e][i].kind = "ask"})
        BY <4>2, FS_Subset, Zenon
      <4> QED
        BY <1>2, <1>3, <4>3, FS_CardinalityType, Zenon DEF Count
    <3>2. NoAsk(answers)
      BY <2>7, <3>1, NumberedNoAsk, Zenon
    <3>3. answers \in Seq(Record)
      <4>1. [i \in 1..n |-> "answer"] \in Seq(Kind)
        BY <3>1 DEF Kind
      <4> QED
        BY <2>7, <3>1, <4>1, NumberedRun, Zenon
    <3>4. NoAsk(tls'[o].out)
      BY <2>4, <2>7, <3>1, <3>2, <3>3, NoAskFacts, Zenon DEF Quiet
    <3> QED
      BY <1>2, <2>1, <2>2, <2>4, <2>5, <2>7, <3>4, Zenon DEF Quiet
  <2> QED
    BY <1>2, <2>6, <2>7, Zenon
<1>12. ASSUME NEW e \in End,
              drain_plaintext(e) \/ Forward(e) \/ ReadEnds(e) \/ Down(e) \/ JoinWriter(e) \/ ReaderGivesUp(e)
       PROVE  Quiet(q)'
  <2>1. UNCHANGED <<tls, cipher, raw, pipe, asked>>
    BY <1>12, Zenon DEF drain_plaintext, Forward, ReadEnds, Down, JoinWriter, ReaderGivesUp
  <2>2. PICK l \in {"release", "read", "down", "join", "done"} : Goto(e, "reader", l)
    BY <1>12, Zenon DEF drain_plaintext, Forward, ReadEnds, Down, JoinWriter, ReaderGivesUp
  <2>3. l \in Place
    BY Zenon DEF Place
  <2> QED
    BY <1>1, <1>4, <1>5, <2>1, <2>2, <2>3, Zenon
<1>13. ASSUME NEW e \in End, Release(e)
       PROVE  Quiet(q)'
  <2>1. UNCHANGED <<tls, cipher, raw, pipe, asked>>
    BY <1>13, Zenon DEF Release
  <2>2. PICK l \in {"lock", "forward"} : Goto(e, "reader", l) /\ (e = q => l = "forward")
    BY <1>13, Zenon DEF Release, Quiet
  <2>3. l \in Place
    BY Zenon DEF Place
  <2> QED
    BY <1>1, <1>4, <1>5, <2>1, <2>2, <2>3, Zenon
<1>14. ASSUME NEW e \in End, RecvFrame(e) \/ RecvDisconnected(e)
       PROVE  Quiet(q)'
  <2>1. UNCHANGED <<tls, cipher, raw, pipe, asked>>
    BY <1>14, Zenon DEF RecvFrame, RecvDisconnected
  <2>2. \E l \in Place : Goto(e, "writer", l)
    BY <1>14, Zenon DEF RecvFrame, RecvDisconnected, Place
  <2> QED
    BY <1>1, <1>4, <1>5, <2>1, <2>2, Zenon
<1>15. ASSUME UNCHANGED <<pc, tls, cipher, raw, pipe, asked>>
       PROVE  Quiet(q)'
  BY <1>15, Zenon DEF Quiet
<1>16. ASSUME NEW e \in End, NEW t \in Thread, write_pending(e, t)
       PROVE  Quiet(q)'
  BY <1>6, <1>7, <1>8, <1>9, <1>16, Zenon DEF write_pending
<1> QED
  BY <1>1, <1>10, <1>11, <1>12, <1>13, <1>14, <1>15, <1>16, Zenon
     DEF Next, ReaderNext, WriterNext, BrokerDrops, CloseSocket, vars

(* The circle of waiting threads that NotWedged excludes, found step by    *)
(* step from the reader of the quiet end.                                  *)
LEMMA NoCircle ==
    ASSUME NEW q \in End, Order, Mutexes, Ended, Quiet(q)
    PROVE  NotWedged
<1> SUFFICES ASSUME \A e \in End : link[e], \A e \in End, t \in Thread : Blocked(e, t),
                    NEW e \in End, NEW t \in Thread, pc[e][t] = "write"
             PROVE  FALSE
  BY Zenon DEF NotWedged
<1> DEFINE o == Other(q)
<1>1. "reader" \in Thread /\ "writer" \in Thread /\ Nobody \notin Thread
  BY Zenon DEF Thread, Nobody
<1>2. o \in End /\ o # q /\ Other(o) = q /\ \A x \in End : x = q \/ x = o
  BY Ends, Zenon
<1>3. /\ \A x \in End : \A u \in Thread : pc[x][u] \in Place
      /\ \A x \in End : write_sock[x] \in Thread \cup {Nobody} /\ pipe[x] \in Seq(Record)
  BY DEF Order, OrderTypeOK
(* The mutex conn is not held across a blocking call.                      *)
<1>4. \A x \in End : conn[x] = Nobody
  <2> SUFFICES ASSUME NEW x \in End, conn[x] # Nobody PROVE FALSE
    BY Zenon
  <2>1. conn[x] \in Thread /\ pc[x][conn[x]] \in {"unlock", "release"}
    BY DEF Mutexes
  <2>2. Blocked(x, conn[x])
    BY <2>1, Zenon
  <2> QED
    BY <2>1, <2>2, Zenon DEF Blocked
(* So who waits for write_sock waits for a write.                          *)
<1>5. \A x \in End : \A u \in Thread :
        /\ pc[x][u] \in {"lock", "write", "read", "recv"}
        /\ pc[x][u] = "lock" => \E v \in Thread : pc[x][v] = "write"
  <2> SUFFICES ASSUME NEW x \in End, NEW u \in Thread
               PROVE  /\ pc[x][u] \in {"lock", "write", "read", "recv"}
                      /\ pc[x][u] = "lock" => \E v \in Thread : pc[x][v] = "write"
    BY Zenon
  <2>1. \A v \in Thread : pc[x][v] \in {"lock", "write", "read", "recv"}
    BY <1>3, <1>4, Zenon DEF Blocked, Place
  <2>2. ASSUME pc[x][u] = "lock" PROVE \E v \in Thread : pc[x][v] = "write"
    <3>1. write_sock[x] # Nobody
      BY <2>2, Zenon DEF Blocked
    <3>2. write_sock[x] \in Thread /\ pc[x][write_sock[x]] \in {"extract", "unlock", "write"}
      BY <1>3, <3>1, Zenon DEF Mutexes
    <3> QED
      BY <2>1, <3>2, Zenon
  <2> QED
    BY <2>1, <2>2, Zenon
(* The quiet reader reads, so the far end can write; hence it reads too.   *)
<1>6. ASSUME NEW x \in End, pc[x]["reader"] = "read"
      PROVE  \A u \in Thread : pc[Other(x)][u] # "write"
  <2>1. pipe[Other(x)] = <<>> /\ Other(x) \in End
    BY <1>1, <1>6, Ends, Zenon DEF Blocked
  <2>2. Len(pipe[Other(x)]) = 0 /\ CAP # 0
    BY <2>1, TlsAssumption, Zenon
  <2> QED
    BY <2>1, <2>2, Zenon DEF Blocked
<1>7. pc[q]["reader"] = "read"
  BY <1>1, <1>5, Zenon DEF Quiet, Ended
<1>8. \A u \in Thread : pc[o][u] # "write"
  BY <1>6, <1>7, Zenon
<1>9. pc[o]["reader"] = "read"
  BY <1>1, <1>2, <1>5, <1>8 DEF Ended
<1>10. \A u \in Thread : pc[q][u] # "write"
  BY <1>2, <1>6, <1>9, Zenon
<1> QED
  BY <1>2, <1>8, <1>10, Zenon

(* A backpressured write cannot wedge the two ends (conn.rs, module        *)
(* comment), whatever is buffered, sent and interleaved, as long as the    *)
(* TLS layer of one end, q, never has control records to flush: then its   *)
(* reader always returns to its socket.  When both readers may have to     *)
(* write, the claim fails: they wait for the writers, which wait for them. *)
THEOREM WritesNeverWedge ==
    ASSUME NEW q \in End, q \notin Leftover, MaxAsks[Other(q)] = 0
    PROVE  Spec => []NotWedged
<1>1. Init => Mutexes /\ Ended /\ Quiet(q)
  <2> SUFFICES ASSUME Init PROVE Mutexes /\ Ended /\ Quiet(q)
    BY Zenon
  <2>1. Other(q) \in End /\ Nobody \notin Thread /\ "reader" \in Thread /\ "writer" \in Thread
    BY Ends, Zenon DEF Nobody, Thread
  <2>2. Mutexes
    BY <2>1, Zenon DEF Init, Mutexes
  <2>3. Ended
    <3>1. \A e \in End : pc[e]["reader"] = "start" /\ pc[e]["writer"] = "recv"
      BY <2>1, Zenon DEF Init
    <3>2. \A e \in End : dropped[e] = FALSE
      BY Zenon DEF Init
    <3> QED
      BY <3>1, <3>2, Zenon DEF Ended
  <2>4. NoAsk(<<>>) /\ NoAsk(<<[seq |-> 0, kind |-> "answer"]>>)
    BY DEF NoAsk
  <2>5. Quiet(q)
    BY <2>1, <2>4, Zenon DEF Init, Quiet
  <2> QED
    BY <2>2, <2>3, <2>5, Zenon
<1>2. Order /\ Order' /\ Mutexes /\ Ended /\ Quiet(q) /\ [Next]_vars
        => (Mutexes /\ Ended /\ Quiet(q))'
  BY MutexesKept, EndedKept, QuietKept, Zenon
<1>3. Order /\ Mutexes /\ Ended /\ Quiet(q) => NotWedged
  BY NoCircle, Zenon
<1> QED
  BY <1>1, <1>2, <1>3, OrderHolds, PTL DEF Spec
=============================================================================
