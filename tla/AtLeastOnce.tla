---------------------------- MODULE AtLeastOnce -----------------------------
(***************************************************************************)
(* What a socket promises its application about a message it accepts for   *)
(* at-least-once delivery (PROTOCOL.md section 6): the message stays in    *)
(* the socket's custody until it has reached a peer, or its retries have   *)
(* run out, or the socket is closed.  Both sockets, the threads of module  *)
(* Socket and the tasks of module AsyncSocket, implement it.               *)
(***************************************************************************)
VARIABLES
    accepted,   \* messages the application handed over
    held,       \* messages in the socket's custody
    arrived,    \* messages that reached a peer
    exhausted,  \* messages given up
    running     \* FALSE when the socket has closed

vars == <<accepted, held, arrived, exhausted, running>>

Init ==
    /\ accepted = {} /\ held = {} /\ arrived = {} /\ exhausted = {}
    /\ running = TRUE

Accept ==
    /\ running
    /\ accepted \subseteq accepted'
    /\ held' = held \cup (accepted' \ accepted)
    /\ UNCHANGED <<arrived, exhausted, running>>

(* A copy reaches a peer; the socket learns of it later, or never.         *)
Arrive ==
    /\ arrived \subseteq arrived' /\ arrived' \subseteq accepted
    /\ UNCHANGED <<accepted, held, exhausted, running>>

(* An acknowledgement: nothing leaves the custody that has not arrived.    *)
Settle ==
    /\ running
    /\ held' \subseteq held /\ held \ held' \subseteq arrived
    /\ UNCHANGED <<accepted, arrived, exhausted, running>>

(* Only what is held is given up, and only what is given up is let go.     *)
GiveUp ==
    /\ running
    /\ exhausted \subseteq exhausted' /\ exhausted' \subseteq exhausted \cup held
    /\ held' \subseteq held /\ held \ held' \subseteq exhausted'
    /\ UNCHANGED <<accepted, arrived, running>>

Stop ==
    /\ running
    /\ running' = FALSE
    /\ held' = {}
    /\ UNCHANGED <<accepted, arrived, exhausted>>

Next == Accept \/ Arrive \/ Settle \/ GiveUp \/ Stop

Spec == Init /\ [][Next]_vars
=============================================================================
