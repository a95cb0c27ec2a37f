----------------------------- MODULE AutoShutdown -----------------------------
(***************************************************************************)
(* The automatic shutdown of an idle device (utils/auto_shutdown.c).  The  *)
(* main thread follows USB and the keys, another one Bluetooth.  Each      *)
(* notes what it learns in a variable of its own and then starts or stops  *)
(* the one interval timer of the process, with no lock.                    *)
(*                                                                         *)
(* A thread writes its variable and acts on the timer in two steps, or     *)
(* three if it starts it: the other's variable is read in between.         *)
(***************************************************************************)

CONSTANTS Main, Bt \* the threads

ASSUME ShutdownAssumption == Main # Bt

VARIABLES
    usb_state, bt_state,
    timer,     \* "off", "armed", or "fired": the device shuts down
    doing,     \* what each thread is about to do
    pressed,   \* history: the last event of the keys was a press
    uncalled,  \* history: a call began on a device that was not connected
    raced      \* history: something began between a check and the start it led to

shutdownVars == <<usb_state, bt_state, timer, doing, pressed, uncalled, raced>>

HfpStates == {"DISCONNECT", "CONNECT", "CALL_IN", "CALL_OUT", "CALL_OUT_RINGING",
              "CALL_IN_OUT_OVER", "CALL_START", "CALL_ENDED"}

ShutdownTypeOK ==
    /\ usb_state \in {"DISCONNECT", "CONNECT"} /\ bt_state \in HfpStates
    /\ timer \in {"off", "armed", "fired"}
    /\ doing \in [{Main, Bt} -> {"poll", "check", "start", "stop"}]
    /\ pressed \in BOOLEAN /\ uncalled \in BOOLEAN /\ raced \in BOOLEAN

Idle == usb_state = "DISCONNECT" /\ bt_state = "DISCONNECT"
Settled == \A t \in {Main, Bt} : doing[t] = "poll"
Other(t) == IF t = Main THEN Bt ELSE Main

\* main, up to its loop.
ShutdownInit ==
    /\ usb_state \in {"DISCONNECT", "CONNECT"} /\ bt_state = "DISCONNECT"
    /\ timer = IF Idle THEN "armed" ELSE "off"
    /\ doing = [t \in {Main, Bt} |-> "poll"]
    /\ pressed = FALSE /\ uncalled = FALSE /\ raced = FALSE

Do(t, what) == doing' = [doing EXCEPT ![t] = what]
Begins(t, what) == timer # "fired" /\ doing[t] = "poll" /\ Do(t, what)

\* Something begins while the other thread is about to start the timer.
Races(t) == raced' = (raced \/ doing[Other(t)] = "start")

-----------------------------------------------------------------------------
\* usb_state_change: DISCONNECTED; CONFIGURED.
UsbDisconnect ==
    /\ Begins(Main, "check") /\ usb_state' = "DISCONNECT"
    /\ UNCHANGED <<bt_state, timer, pressed, uncalled, raced>>

UsbConnect ==
    /\ Begins(Main, "stop") /\ usb_state' = "CONNECT" /\ Races(Main)
    /\ UNCHANGED <<bt_state, timer, pressed, uncalled>>

OnRelease == "poll"                                      \* mutant
AfterRelease == "check"

\* key_state_read: any key, and no matter which.
KeyRelease ==
    /\ Begins(Main, AfterRelease) /\ pressed' = FALSE
    /\ UNCHANGED <<usb_state, bt_state, timer, uncalled, raced>>

KeyPress ==
    /\ Begins(Main, "stop") /\ pressed' = TRUE
    /\ UNCHANGED <<usb_state, bt_state, timer, uncalled, raced>>

\* msg_handler: HFP_EVENT_CONNECTION; bt_state_read: the server is offline.
BtDisconnect ==
    /\ Begins(Bt, "check") /\ bt_state' = "DISCONNECT" /\ uncalled' = FALSE
    /\ UNCHANGED <<usb_state, timer, pressed, raced>>

BtConnect ==
    /\ Begins(Bt, "stop") /\ bt_state' = "CONNECT" /\ uncalled' = FALSE /\ Races(Bt)
    /\ UNCHANGED <<usb_state, timer, pressed>>

\* HFP_EVENT_CALL and HFP_EVENT_CALLSETUP do not stop the timer.
BtCall ==
    /\ Begins(Bt, "poll")
    /\ bt_state' \in {"CALL_IN", "CALL_OUT", "CALL_OUT_RINGING", "CALL_START", "CALL_ENDED"}
                     \cup (IF bt_state = "CALL_START" THEN {} ELSE {"CALL_IN_OUT_OVER"})
    /\ uncalled' = (uncalled \/ bt_state = "DISCONNECT")
    /\ Races(Bt)
    /\ UNCHANGED <<usb_state, timer, pressed>>

-----------------------------------------------------------------------------
\* check_to_start_timer: of the two variables only the other thread's can change.
Check(t) ==
    /\ doing[t] = "check" /\ Do(t, IF Idle THEN "start" ELSE "poll")
    /\ UNCHANGED <<usb_state, bt_state, timer, pressed, uncalled, raced>>

start_timer(t) ==
    /\ doing[t] = "start" /\ Do(t, "poll")
    /\ timer' = IF timer = "fired" THEN timer ELSE "armed"
    /\ UNCHANGED <<usb_state, bt_state, pressed, uncalled, raced>>

stop_timer(t) ==
    /\ doing[t] = "stop" /\ Do(t, "poll")
    /\ timer' = IF timer = "fired" THEN timer ELSE "off"
    /\ raced' = (raced /\ doing[Other(t)] = "start")
    /\ UNCHANGED <<usb_state, bt_state, pressed, uncalled>>

\* SIGALRM: timer_handle.
timer_handle ==
    /\ timer = "armed" /\ timer' = "fired"
    /\ UNCHANGED <<usb_state, bt_state, doing, pressed, uncalled, raced>>

ShutdownNext ==
    \/ UsbDisconnect \/ UsbConnect \/ KeyRelease \/ KeyPress
    \/ BtDisconnect \/ BtConnect \/ BtCall
    \/ \E t \in {Main, Bt} : Check(t) \/ start_timer(t) \/ stop_timer(t)
    \/ timer_handle

ShutdownSpec == ShutdownInit /\ [][ShutdownNext]_shutdownVars

-----------------------------------------------------------------------------
(* What must hold.                                                         *)

\* An idle device is going to shut down, although two threads check for that, unless a
\* key was pressed last; and nothing else is, unless a call began without a connection,
\* or something began between a check and the start of the timer.
TimerAgrees ==
    Settled /\ timer # "fired" =>
        /\ Idle /\ ~pressed => timer = "armed"
        /\ timer = "armed" => Idle \/ uncalled \/ raced
=============================================================================
