------------------------------ MODULE WsInputs ------------------------------
(* The clients that the runs of the two WebSocket adapters meet.           *)
EXTENDS WsClient

Frames(b0, bytes, width) ==
    [b0 |-> b0, masked |-> TRUE, mask |-> <<1, 2, 4, 8>>, width |-> width, high |-> FALSE,
     payload |-> bytes]

(* A message longer than the mask, and what control frames do between.     *)
Plain ==
    {Frames(130, <<17, 34, 51, 68, 85>>, 0), Frames(2, <<>>, 0), Frames(128, <<7>>, 2),
     Frames(137, <<9>>, 0), Frames(138, <<>>, 0), Frames(136, <<>>, 0)}

(* One frame of each kind.                                                 *)
Sample ==
    {Frames(130, <<17, 34>>, 0), Frames(137, <<9>>, 0), Frames(138, <<>>, 0), Frames(136, <<>>, 0),
     Frames(129, <<65>>, 0)}

(* Those of Plain with every form of length, and each violation once.      *)
Every ==
    Plain \cup
    {Frames(130, <<10>>, 8), Frames(136, <<3, 233>>, 0), Frames(137, <<5>>, 2),
     Frames(129, <<65>>, 0), Frames(9, <<>>, 0), Frames(194, <<1>>, 0), Frames(131, <<>>, 0),
     [Frames(130, <<1>>, 0) EXCEPT !.masked = FALSE],
     [Frames(130, <<1>>, 8) EXCEPT !.high = TRUE]}

(* A message, and a ping.                                                  *)
Pings == {Frames(130, <<17>>, 0), Frames(137, <<>>, 0)}

Header(name, value) == [name |-> name, value |-> value]

Good ==
    [utf8 |-> TRUE, get |-> TRUE, size |-> 2,
     headers |-> <<Header("connection", {"keep-alive"}), Header("upgrade", "websocket"),
                   Header("connection", {"keep-alive", "upgrade"}),
                   Header("sec-websocket-version", "13"), Header("sec-websocket-key", 16)>>]

MCRequests ==
    {Good, [Good EXCEPT !.utf8 = FALSE], [Good EXCEPT !.get = FALSE], [Good EXCEPT !.size = 6],
     [Good EXCEPT !.headers[5] = Header(NoColon, "")],
     [Good EXCEPT !.headers[3] = Header("connection", {"close"})],
     [Good EXCEPT !.headers[2] = Header("upgrade", "h2c")],
     [Good EXCEPT !.headers[2] = Header("host", "x")],
     [Good EXCEPT !.headers[4] = Header("sec-websocket-version", "8")],
     [Good EXCEPT !.headers[4] = Header("host", "x")],
     [Good EXCEPT !.headers[5] = Header("sec-websocket-key", 15)],
     [Good EXCEPT !.headers[5] = Header("host", "x")]}
=============================================================================
