------------------------------ MODULE WsProofs ------------------------------
(***************************************************************************)
(* Theorems about module WsSession, for every interval and every bound:    *)
(* the broker keeps no entry of a session that has ended, and the single   *)
(* thread looks at its two deadlines in time if the client makes room      *)
(* for what is written.                                                    *)
(***************************************************************************)
EXTENDS WsSession, TLAPS

Up == "ConnectionUp"

Gone == "ConnectionDown"

-----------------------------------------------------------------------------
(* The entry in the broker's connection map *)

(* The inductive invariant of EntryRemoved: the channel holds at most one  *)
(* command of the connection, and the broker knows it only between the two *)
(* commands.                                                               *)
Entry ==
    /\ cmd \in {<<>>, <<Up>>, <<Gone>>}
    /\ cmd = <<Up>> => stage = "register" /\ accept = "empty"
    /\ cmd = <<Gone>> => stage = "done"
    /\ broker \in {"running", "done"}
    /\ broker = "done" => ~tx /\ cmd = <<>>
    /\ tx => accept = "true"
    /\ stage = "hello" => accept = "empty"
    /\ stage = "done" /\ tx => cmd = <<Gone>>

(* What the three contents of the channel are to the handlers.             *)
LEMMA Contents ==
    /\ <<>> # <<Up>> /\ <<>> # <<Gone>> /\ <<Up>> # <<Gone>>
    /\ \A x : /\ Append(<<>>, x) = <<x>> /\ Tail(<<x>>) = <<>> /\ Head(<<x>>) = x
             /\ <<x>> # <<>> /\ x \in Range(<<x>>)
BY DEF Up, Gone, Range

LEMMA EntryThread ==
    ASSUME Entry, ThreadStep \/ HelloFails
    PROVE  Entry'
<1>1. CASE Hello
  <2>1. cmd = <<>>
    BY <1>1, Zenon DEF Entry, Hello
  <2>2. cmd' = <<Up>> /\ stage' = "register" /\ UNCHANGED <<accept, broker, tx>> /\ broker = "running"
        /\ accept = "empty"
    BY <1>1, <2>1, Contents, Zenon DEF Entry, Hello, Up
  <2> QED
    BY <2>1, <2>2, Contents, Zenon DEF Entry
<1>2. CASE Down
  <2>1. cmd = <<>>
    BY <1>2, Zenon DEF Entry, Down
  <2>2. /\ cmd' = IF broker = "running" THEN <<Gone>> ELSE cmd
        /\ stage' = "done" /\ UNCHANGED <<accept, broker, tx>>
    BY <1>2, <2>1, Contents, Zenon DEF Down, Gone
  <2> QED
    BY <2>1, <2>2, Contents, Zenon DEF Entry
<1>3. CASE UNCHANGED brokerVars /\ stage # "done" /\ (stage' = "done" => ~tx)
           /\ (stage = "register" => accept # "empty" \/ broker = "done") /\ stage' # "hello"
  <2>1. UNCHANGED <<cmd, accept, broker, tx>>
    BY <1>3, Zenon DEF brokerVars
  <2> QED
    BY <1>3, <2>1, Contents, Zenon DEF Entry
<1>4. CASE TryRecv
  <2>1. /\ UNCHANGED <<cmd, accept, broker, tx>> /\ stage = "drain"
        /\ stage' \in {"write", "beat", "done"} /\ (stage' = "done" => ~tx)
    BY <1>4, Zenon DEF TryRecv
  <2> QED
    BY <2>1, Zenon DEF Entry
<1>5. CASE HelloFails \/ Rejected
  <2>1. ~tx
    BY <1>5, Zenon DEF HelloFails, Rejected, Entry
  <2> QED
    BY <1>3, <1>5, <2>1, Zenon DEF HelloFails, Rejected
<1>6. CASE Registered \/ WriteQueued \/ Beat \/ WriteHeartbeat \/ Check
           \/ ReadFrame \/ ReadPart \/ ReadPiece \/ WouldBlock \/ ReadEnds
  BY <1>3, <1>6, Zenon DEF Registered, WriteQueued, Beat, WriteHeartbeat, Check, ReadFrame, ReadPart, ReadPiece,
                    WouldBlock, ReadEnds, Written, WriteFails
<1> QED
  BY <1>1, <1>2, <1>4, <1>5, <1>6, Zenon DEF ThreadStep

LEMMA EntryOthers ==
    ASSUME Entry,
           \/ BrokerUp \/ BrokerDown \/ Route \/ BrokerClose
           \/ (\E item \in Item : Arrives(item))
           \/ ClientReads \/ LinkBreaks \/ Tick \/ UNCHANGED vars
    PROVE  Entry'
<1>1. CASE BrokerUp
  <2>1. cmd = <<Up>>
    BY <1>1, Contents, Zenon DEF BrokerUp, Entry, Up, Gone
  <2>2. /\ cmd' = <<>> /\ broker = "running" /\ UNCHANGED <<stage, broker>>
        /\ stage = "register" /\ ~tx
    BY <1>1, <2>1, Contents, Zenon DEF BrokerUp, Entry
  <2>3. tx' => accept' = "true"
    BY <1>1, <2>2, Zenon DEF BrokerUp
  <2> QED
    BY <2>2, <2>3, Contents, Zenon DEF Entry
<1>2. CASE BrokerDown
  <2>1. cmd = <<Gone>>
    BY <1>2, Contents, Zenon DEF BrokerDown, Entry, Up, Gone
  <2>2. cmd' = <<>> /\ ~tx' /\ stage = "done" /\ UNCHANGED <<stage, accept, broker>>
    BY <1>2, <2>1, Contents, Zenon DEF BrokerDown, Entry
  <2> QED
    BY <2>2, Contents, Zenon DEF Entry
<1>3. CASE BrokerClose
  BY <1>3, Contents, Zenon DEF BrokerClose, Entry
<1>4. CASE \/ Route \/ (\E item \in Item : Arrives(item))
           \/ ClientReads \/ LinkBreaks \/ Tick \/ UNCHANGED vars
  <2>1. UNCHANGED <<stage, cmd, accept, broker, tx>>
    BY <1>4, Zenon DEF Route, Arrives, ClientReads, LinkBreaks, Tick, vars, brokerVars
  <2> QED
    BY <2>1, Zenon DEF Entry
<1> QED
  BY <1>1, <1>2, <1>3, <1>4, Zenon

(* No entry of the broker's connection map outlives its session for good,  *)
(* whichever way ws_session returns: it reports its end, or the broker had *)
(* dropped the entry before.                                               *)
THEOREM EntryRemoved == Spec => []NoStaleEntry
<1>1. Init => Entry
  BY Contents, Zenon DEF Init, Entry
<1>2. Entry /\ [Next]_vars => Entry'
  BY EntryThread, EntryOthers, Zenon DEF Next
<1>3. Entry => NoStaleEntry
  BY Contents, Zenon DEF Entry, NoStaleEntry, Gone
<1> QED
  BY <1>1, <1>2, <1>3, PTL DEF Spec

-----------------------------------------------------------------------------
(* The two clocks *)

ClockTypeOK ==
    /\ last_send \in Nat /\ last_recv \in Nat /\ waited \in Nat /\ reading \in Nat
    /\ fed \in BOOLEAN

(* The inductive invariant: a call of read() begins when neither deadline  *)
(* has passed, the clocks run no faster than the call lasts, and a call    *)
(* that has read no piece has lasted one wait at most.                     *)
Clocks ==
    /\ ClockTypeOK
    /\ stage = "read" => waited <= POLL_INTERVAL /\ (~fed => reading <= waited)
    /\ stage = "check" => last_send < HEARTBEAT_INTERVAL
    /\ ~fed => reading <= POLL_INTERVAL
    /\ stage \in Loop => /\ last_send < HEARTBEAT_INTERVAL + reading
                         /\ last_recv < HEARTBEAT_TIMEOUT + reading

(* The constants as numbers.                                               *)
LEMMA Intervals ==
    /\ HEARTBEAT_INTERVAL \in Nat \ {0} /\ HEARTBEAT_TIMEOUT \in Nat \ {0}
    /\ POLL_INTERVAL \in Nat \ {0} /\ Limit \in Nat
<1>1. HEARTBEAT_INTERVAL \in Nat \ {0} /\ HEARTBEAT_TIMEOUT \in Nat \ {0} /\ POLL_INTERVAL \in Nat \ {0}
  BY WsSessionAssumption, Zenon
<1> QED
  BY <1>1 DEF Limit

(* A clock that is ahead of another by less than d stays so in a tick,     *)
(* also when one of them is not counted any further.                       *)
LEMMA OlderTogether ==
    ASSUME NEW a \in Nat, NEW r \in Nat, NEW d \in Nat \ {0}, a < d + r
    PROVE  /\ Older(a) \in Nat /\ Older(a) <= a + 1
           /\ Older(a) < d + Older(r)
<1>1. Limit \in Nat
  BY Intervals, Zenon
<1> QED
  BY <1>1 DEF Older

(* The thread's own steps take no time.                                    *)
LEMMA ClocksThread ==
    ASSUME Clocks, ThreadStep \/ HelloFails
    PROVE  Clocks'
<1>1. /\ last_send \in Nat /\ last_recv \in Nat /\ waited \in Nat /\ reading \in Nat /\ fed \in BOOLEAN
      /\ HEARTBEAT_INTERVAL \in Nat \ {0} /\ HEARTBEAT_TIMEOUT \in Nat \ {0} /\ POLL_INTERVAL \in Nat \ {0}
  BY Intervals, Zenon DEF Clocks, ClockTypeOK
<1>2. 0 < HEARTBEAT_INTERVAL + reading /\ 0 < HEARTBEAT_TIMEOUT + reading /\ 0 < HEARTBEAT_INTERVAL
  BY <1>1
<1>3. CASE stage' \notin Loop /\ UNCHANGED clocks
  BY <1>3, Zenon DEF Clocks, ClockTypeOK, Loop, clocks
<1>4. CASE Hello \/ HelloFails \/ Rejected \/ Down \/ ReadEnds
  BY <1>3, <1>4, Zenon DEF Hello, HelloFails, Rejected, Down, ReadEnds, Loop
<1>5. ASSUME UNCHANGED <<waited, reading, fed>>, stage' \in Loop \ {"read", "check"} \/ stage' \notin Loop,
             last_send' = 0 \/ (last_send' = last_send /\ stage \in Loop),
             last_recv' = 0 \/ (last_recv' = last_recv /\ stage \in Loop)
      PROVE  Clocks'
  <2>1. ClockTypeOK' /\ (~fed' => reading' <= POLL_INTERVAL) /\ stage' \notin {"read", "check"}
    <3>1. 0 \in Nat
      OBVIOUS
    <3> QED
      BY <1>1, <1>5, <3>1, Zenon DEF Clocks, ClockTypeOK, Loop
  <2>2. last_send' < HEARTBEAT_INTERVAL + reading' /\ last_recv' < HEARTBEAT_TIMEOUT + reading'
    BY <1>2, <1>5, Zenon DEF Clocks
  <2> QED
    BY <2>1, <2>2, Zenon DEF Clocks
<1>6. CASE Registered
  BY <1>5, <1>6, Zenon DEF Registered, Loop
<1>7. CASE TryRecv
  BY <1>5, <1>7, Zenon DEF TryRecv, clocks, Loop
<1>8. CASE WriteQueued
  BY <1>5, <1>8, Zenon DEF WriteQueued, Written, WriteFails, clocks, Loop
<1>9. CASE ReadFrame \/ ReadPart \/ WouldBlock
  BY <1>5, <1>9, Zenon DEF ReadFrame, ReadPart, WouldBlock, clocks, Loop
<1>10. CASE Beat
  <2>1. /\ UNCHANGED clocks /\ stage = "beat"
        /\ stage' = IF last_send >= HEARTBEAT_INTERVAL THEN "beating" ELSE "check"
    BY <1>10, Zenon DEF Beat
  <2>2. last_send >= HEARTBEAT_INTERVAL \/ last_send < HEARTBEAT_INTERVAL
    BY <1>1
  <2> QED
    BY <2>1, <2>2, Zenon DEF Clocks, ClockTypeOK, Loop, clocks
<1>11. CASE WriteHeartbeat
  <2>1. /\ UNCHANGED <<waited, reading, fed, last_recv>> /\ stage = "beating"
        /\ \/ last_send' = 0 /\ stage' = "check"
           \/ last_send' = last_send /\ stage' = "ended"
    BY <1>11, Zenon DEF WriteHeartbeat, Written, WriteFails, clocks
  <2>2. 0 \in Nat
    OBVIOUS
  <2> QED
    BY <1>2, <2>1, <2>2, Zenon DEF Clocks, ClockTypeOK, Loop
<1>12. CASE Check
  <2>1. /\ UNCHANGED <<last_send, last_recv>> /\ waited' = 0 /\ reading' = 0 /\ fed' = FALSE
        /\ stage = "check" /\ stage' = IF last_recv >= HEARTBEAT_TIMEOUT THEN "ended" ELSE "read"
        /\ last_send < HEARTBEAT_INTERVAL
    BY <1>12, Zenon DEF Check, Clocks
  <2>2. /\ 0 \in Nat /\ 0 <= POLL_INTERVAL /\ 0 <= 0
        /\ HEARTBEAT_INTERVAL + 0 = HEARTBEAT_INTERVAL /\ HEARTBEAT_TIMEOUT + 0 = HEARTBEAT_TIMEOUT
        /\ last_recv >= HEARTBEAT_TIMEOUT \/ last_recv < HEARTBEAT_TIMEOUT
    BY <1>1
  <2> QED
    BY <1>1, <2>1, <2>2, Zenon DEF Clocks, ClockTypeOK, Loop
<1>13. CASE ReadPiece
  <2>1. /\ UNCHANGED <<reading, last_send, last_recv>> /\ waited' = 0 /\ fed' = TRUE
        /\ stage = "read" /\ stage' = "read"
    BY <1>13, Zenon DEF ReadPiece
  <2>2. 0 \in Nat /\ 0 <= POLL_INTERVAL
    BY <1>1
  <2> QED
    BY <1>1, <2>1, <2>2, Zenon DEF Clocks, ClockTypeOK, Loop
<1> QED
  BY <1>4, <1>6, <1>7, <1>8, <1>9, <1>10, <1>11, <1>12, <1>13, Zenon DEF ThreadStep

(* Time passes, something arrives, or the others move.                     *)
LEMMA ClocksOthers ==
    ASSUME Prompt, Clocks,
           \/ BrokerUp \/ BrokerDown \/ Route \/ BrokerClose
           \/ (\E item \in Item : Arrives(item))
           \/ ClientReads \/ LinkBreaks \/ Tick \/ UNCHANGED vars
    PROVE  Clocks'
<1>1. CASE UNCHANGED <<stage, clocks>>
  BY <1>1, Zenon DEF Clocks, ClockTypeOK, clocks
<1>2. CASE \/ BrokerUp \/ BrokerDown \/ Route \/ BrokerClose
           \/ (\E item \in Item : Arrives(item))
           \/ ClientReads \/ LinkBreaks \/ UNCHANGED vars
  BY <1>1, <1>2, Zenon DEF BrokerUp, BrokerDown, Route, BrokerClose, Arrives, ClientReads, LinkBreaks, vars
<1>3. CASE Tick
  <2>1. /\ stage = "read" /\ waited < POLL_INTERVAL /\ UNCHANGED <<stage, fed>>
        /\ last_send' = Older(last_send) /\ last_recv' = Older(last_recv)
        /\ waited' = waited + 1 /\ reading' = Older(reading)
    BY <1>3, Zenon DEF Tick, Waiting
  <2>2. /\ last_send \in Nat /\ last_recv \in Nat /\ waited \in Nat /\ reading \in Nat /\ fed \in BOOLEAN
        /\ HEARTBEAT_INTERVAL \in Nat \ {0} /\ HEARTBEAT_TIMEOUT \in Nat \ {0} /\ POLL_INTERVAL \in Nat \ {0}
        /\ last_send < HEARTBEAT_INTERVAL + reading /\ last_recv < HEARTBEAT_TIMEOUT + reading
    BY <2>1, Intervals, Zenon DEF Clocks, ClockTypeOK, Loop
  <2>3. /\ last_send' \in Nat /\ last_send' < HEARTBEAT_INTERVAL + reading'
        /\ last_recv' \in Nat /\ last_recv' < HEARTBEAT_TIMEOUT + reading'
    BY <2>1, <2>2, OlderTogether, Zenon
  <2>4. reading' \in Nat /\ reading' <= reading + 1
    <3>1. reading < HEARTBEAT_INTERVAL + reading
      BY <2>2
    <3> QED
      BY <2>1, <2>2, <3>1, OlderTogether, Zenon
  <2>5. waited' \in Nat /\ waited' <= POLL_INTERVAL
    BY <2>1, <2>2
  <2>6. ~fed' => reading' <= waited' /\ reading' <= POLL_INTERVAL
    <3>1. ~fed' => reading <= waited
      BY <2>1, Zenon DEF Clocks
    <3> QED
      BY <2>1, <2>2, <2>4, <2>5, <3>1
  <2> QED
    BY <2>1, <2>2, <2>3, <2>4, <2>5, <2>6, Zenon DEF Clocks, ClockTypeOK
<1> QED
  BY <1>2, <1>3, Zenon

(* With a client that makes room for what is written, the session keeps    *)
(* both deadlines, late by one call of read() at most.                     *)
LEMMA ClocksHold ==
    ASSUME Prompt
    PROVE  Spec => [](BeatsOnTime /\ SilentPeerDropped)
<1>1. Init => Clocks
  <2> SUFFICES ASSUME Init PROVE Clocks
    BY Zenon
  <2>1. /\ stage = "hello" /\ fed = FALSE
        /\ last_send = 0 /\ last_recv = 0 /\ waited = 0 /\ reading = 0
    BY Zenon DEF Init
  <2>2. 0 \in Nat /\ 0 <= POLL_INTERVAL
    BY Intervals
  <2> QED
    BY <2>1, <2>2, Zenon DEF Clocks, ClockTypeOK, Loop
<1>2. Clocks /\ [Next]_vars => Clocks'
  BY ClocksThread, ClocksOthers, Zenon DEF Next
<1>3. Clocks => BeatsOnTime /\ SilentPeerDropped
  <2> SUFFICES ASSUME Clocks, stage \in Loop
               PROVE  last_send < HEARTBEAT_INTERVAL + Late /\ last_recv < HEARTBEAT_TIMEOUT + Late
    BY Zenon DEF BeatsOnTime, SilentPeerDropped
  <2>1. /\ reading \in Nat /\ last_send \in Nat /\ last_recv \in Nat
        /\ HEARTBEAT_INTERVAL \in Nat /\ HEARTBEAT_TIMEOUT \in Nat /\ POLL_INTERVAL \in Nat
        /\ last_send < HEARTBEAT_INTERVAL + reading /\ last_recv < HEARTBEAT_TIMEOUT + reading
    BY Intervals, Zenon DEF Clocks, ClockTypeOK
  <2>2. fed => Late = reading
    BY Zenon DEF Late
  <2>3. ~fed => Late = POLL_INTERVAL /\ reading <= POLL_INTERVAL
    BY Zenon DEF Late, Clocks
  <2>4. Late \in Nat /\ reading <= Late
    <3>1. reading <= reading
      BY <2>1
    <3> QED
      BY <2>1, <2>2, <2>3, <3>1, Zenon
  <2> QED
    BY <2>1, <2>4
<1> QED
  BY <1>1, <1>2, <1>3, PTL DEF Spec

(* The client hears from the session every HEARTBEAT_INTERVAL, late by one *)
(* call of read() at most, whatever the intervals and whatever arrives.    *)
THEOREM HeartbeatsOnTime ==
    ASSUME Prompt
    PROVE  Spec => []BeatsOnTime
BY ClocksHold, PTL

(* A client that sends no message is given up HEARTBEAT_TIMEOUT after its  *)
(* last one, late by one call of read() at most.                           *)
THEOREM SilentPeerGivenUp ==
    ASSUME Prompt
    PROVE  Spec => []SilentPeerDropped
BY ClocksHold, PTL
=============================================================================
