----------------------------- MODULE MCWsStream -----------------------------
EXTENDS WsStream, WsInputs
=============================================================================
