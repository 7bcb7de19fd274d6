----------------------------- MODULE MCFraming ------------------------------
EXTENDS Framing

(* One envelope of each kind.  A payload of zeros is also a legal frame    *)
(* prefix, and the payload of DATA_REQ is empty.                           *)
MCTraffic ==
    {[type |-> "DATA", payload |-> <<0, 0>>],
     [type |-> "DATA_REQ", id |-> <<T_DATA>>, payload |-> <<>>],
     [type |-> "ACK", id |-> <<0>>],
     [type |-> "HEARTBEAT"],
     [type |-> "UNKNOWN"]}
=============================================================================
