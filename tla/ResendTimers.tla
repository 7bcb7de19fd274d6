---------------------------- MODULE ResendTimers ----------------------------
(***************************************************************************)
(* The resend-timer thread, timer_loop of broker.rs.  Every countdown has  *)
(* the same length, so the deadlines stay in the order they were armed and *)
(* time is left out: the front deadline may fall due at any moment.  One   *)
(* iteration of the loop that receives a message is TimerArm, TimerCancel  *)
(* or TimerShutdown; each deadline it then finds due is one TimerFire, as  *)
(* is each deadline found due by an iteration whose recv_timeout elapsed.  *)
(***************************************************************************)
EXTENDS Messages

VARIABLES
    deadlines,  \* ids in the order their deadlines fall due
    armed,      \* ids whose countdown has not been cancelled
    timer       \* "running" or "done"

timerVars == <<deadlines, armed, timer>>

TimerTypeOK ==
    /\ deadlines \in Seq(Nat)
    /\ armed \in SUBSET Nat
    /\ timer \in {"running", "done"}

TimerInit ==
    /\ deadlines = <<>>
    /\ armed = {}
    /\ timer = "running"

TimerRecv(type) ==
    /\ timer = "running"
    /\ timer_ch # <<>>
    /\ Head(timer_ch).type = type
    /\ timer_ch' = Tail(timer_ch)
    /\ UNCHANGED <<cmd, writer_ch, accept, broker, writer>>

(* Variant: the deadline is queued but the id is not marked as armed.      *)
TimerArmUnmarked ==
    /\ TimerRecv("Arm")
    /\ deadlines' = Append(deadlines, Head(timer_ch).id)
    /\ UNCHANGED <<armed, timer>>

TimerArm ==
    /\ TimerRecv("Arm")
    /\ deadlines' = Append(deadlines, Head(timer_ch).id)
    /\ armed' = armed \cup {Head(timer_ch).id}
    /\ UNCHANGED timer

TimerCancel ==
    /\ TimerRecv("Cancel")
    /\ armed' = armed \ {Head(timer_ch).id}
    /\ UNCHANGED <<deadlines, timer>>

TimerShutdown ==
    /\ TimerRecv("Shutdown")
    /\ timer' = "done"
    /\ UNCHANGED <<deadlines, armed>>

(* Pop the front deadline.  A cancelled id is a tombstone and is dropped;  *)
(* an armed one is reported, or ends the thread when the broker is gone.   *)
TimerFire ==
    /\ timer = "running"
    /\ deadlines # <<>>
    /\ LET id == Head(deadlines) IN
        /\ deadlines' = Tail(deadlines)
        /\ armed' = armed \ {id}
        /\ IF id \in armed
             THEN /\ SendCommand(ResendTimeout(id))
                  /\ timer' = IF Connected THEN "running" ELSE "done"
             ELSE UNCHANGED <<cmd, timer>>
    /\ UNCHANGED <<timer_ch, writer_ch, accept, broker, writer>>

TimerStep == TimerArm \/ TimerCancel \/ TimerShutdown \/ TimerFire
=============================================================================
