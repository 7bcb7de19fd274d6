---------------------------- MODULE FrameChannel ----------------------------
(***************************************************************************)
(* What a connection promises about inbound traffic (PROTOCOL.md sections  *)
(* 2 to 4): the envelopes a peer sends after its HELLO reach the broker in *)
(* order, without loss, repetition or invention, until the connection      *)
(* ends.  Module Connection reads its variable inbound in this way.        *)
(***************************************************************************)
EXTENDS Sequences, Naturals

CONSTANT Envelope

VARIABLES
    sent,   \* the envelopes the peer sent that concern the broker
    out,    \* the envelopes forwarded to the broker
    open    \* FALSE when the reader has stopped

vars == <<sent, out, open>>

Init ==
    /\ sent = <<>>
    /\ out = <<>>
    /\ open = TRUE

PeerSend(e) ==
    /\ sent' = Append(sent, e)
    /\ UNCHANGED <<out, open>>

(* One read may complete several frames.                                   *)
Forward(n) ==
    /\ open
    /\ Len(out) + n <= Len(sent)
    /\ out' = SubSeq(sent, 1, Len(out) + n)
    /\ UNCHANGED <<sent, open>>

Stop ==
    /\ open
    /\ open' = FALSE
    /\ UNCHANGED <<sent, out>>

Next ==
    \/ \E e \in Envelope : PeerSend(e)
    \/ \E n \in 1..Len(sent) : Forward(n)
    \/ Stop

Spec == Init /\ [][Next]_vars
=============================================================================
