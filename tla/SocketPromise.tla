--------------------------- MODULE SocketPromise ----------------------------
(***************************************************************************)
(* The threads of module Socket as an implementation of AtLeastOnce: what  *)
(* each of its queues and tables stands for in the promise.                *)
(***************************************************************************)
EXTENDS Socket

Promised == {k \in DOMAIN sent : at_least_once(sent[k])}

InCustody(k) ==
    Connected /\ (InSendCommand(k) \/ InBuffer(k) \/ InBuffered(k) \/ IsPending(k))

Guarantee == INSTANCE AtLeastOnce
    WITH accepted <- Promised,
         held <- {k \in Promised : InCustody(k)},
         arrived <- arrived \cap Promised,
         exhausted <- exhausted \cap Promised,
         running <- Connected

(* The threads of the socket implement module AtLeastOnce: whatever the    *)
(* broker does, a message enters its custody once, when send() or          *)
(* send_to() accepts it, and leaves it because it arrived, because its     *)
(* retries ran out, or because the socket closed.                          *)
KeepsPromise == Guarantee!Spec
=============================================================================
