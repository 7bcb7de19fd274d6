----------------------------- MODULE MCAsyncWs ------------------------------
EXTENDS AsyncWs, WsInputs
=============================================================================
