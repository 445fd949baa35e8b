----------------------------- MODULE HostLifecycle -----------------------------
(***************************************************************************)
(* What the host stack promises its application about the device in the    *)
(* socket (Events.h): a session opens when DeviceAttached fires, is        *)
(* complete from DeviceEnumerationComplete on, and closes when             *)
(* DeviceUnattached fires.  `told' changes with every event, so that one   *)
(* that fires twice does not pass for one.  Nothing here says how the      *)
(* stack finds out.                                                        *)
(***************************************************************************)
VARIABLES present,   \* a device is in the socket
          session,   \* "none", "attached" or "complete"
          told

vars == <<present, session, told>>

Init == present = FALSE /\ session = "none" /\ told = FALSE

Plug   == ~present /\ present' = TRUE  /\ UNCHANGED <<session, told>>
Unplug ==  present /\ present' = FALSE /\ UNCHANGED <<session, told>>

Tell(s) == session' = s /\ told' = ~told /\ UNCHANGED present

\* Only a device that is there is attached, and only when the last one's
\* session is closed.
Attach == session = "none" /\ present /\ Tell("attached")

\* Only a device that is there is completely enumerated.
Complete == session = "attached" /\ present /\ Tell("complete")

\* A session ends when the device goes, and may end early on an error.
Close == session # "none" /\ Tell("none")

\* Its end may be told again.
CloseAgain == session = "none" /\ Tell("none")

Next == Plug \/ Unplug \/ Attach \/ Complete \/ Close \/ CloseAgain

Spec == Init /\ [][Next]_vars
=============================================================================
