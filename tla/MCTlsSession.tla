---------------------------- MODULE MCTlsSession ----------------------------
EXTENDS TlsSession

ConnectAsks == [e \in End |-> IF e = "connect" THEN 1 ELSE 0]

BothAsk == [e \in End |-> 1]
=============================================================================
