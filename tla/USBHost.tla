------------------------------- MODULE USBHost -------------------------------
(***************************************************************************)
(* The host-mode USB stack of LUFA/Drivers/USB in a USB_HOST_ONLY build:   *)
(* the enumeration state machine (Host.c), control requests                *)
(* (HostChapter9.c), the host half of the general USB interrupt            *)
(* (USBInterrupt.c) and of USB_ResetInterface (LowLevel.c), driven by the  *)
(* main loop of a host demo, with the socket and a device that may fail.   *)
(*                                                                         *)
(* `pc' is where the main program is and `isr' the section of the handler  *)
(* being run.  The handler preempts the main program as soon as an enabled *)
(* flag is set; the controller, the cable and the device move at any time  *)
(* the policy allows.                                                      *)
(***************************************************************************)
EXTENDS Naturals

CONSTANTS
  SETTLE_MS,   \* HOST_DEVICE_SETTLE_DELAY_MS
  WAIT_MS,     \* the 100 and 200 ms of HOST_TASK_NONBLOCK_WAIT
  HostPolicy   \* when the cable and the supply may change, see below

(***************************************************************************)
(* HostPolicy = "any": the device may be pulled, plugged or lose its       *)
(* supply between any two steps.  "long": it is pulled or loses its supply *)
(* only where the main program spends a millisecond or more (LongLabels:   *)
(* the waits, the bus reset, what the events and the application print) or *)
(* in the idle main loop, never between two neighbouring instructions; and *)
(* a device is plugged again only when the main program is back in its     *)
(* loop or hangs in a wait (Stuck), not within the same wait.  What        *)
(* happens while the handler runs is as if it happened just after it.      *)
(***************************************************************************)
ASSUME HostAssumption ==
  /\ SETTLE_MS \in Nat /\ SETTLE_MS < 65536
  /\ WAIT_MS \in Nat \ {0} /\ WAIT_MS < 65536
  /\ HostPolicy \in {"any", "long"}

USB_HOST_DEVICEADDRESS == 1

VARIABLES
  \* The main program.
  pc,                  \* its next step
  next,                \* state a HOST_TASK_NONBLOCK_WAIT leads to
  otgien,              \* register copy inside USB_INT_Enable(USB_INT_VBERRI)
  WaitMSRemaining, PostWaitState,       \* statics of ProcessNextHostState
  USB_HostState, USB_ControlRequest,
  \* The interrupt handler and its registers.
  isr,                 \* section of ISR(USB_GEN_vect) being run, 0 outside it
  flags,               \* pending flags of UHINT and OTGINT
  enables,             \* enabled interrupts of UHIEN and OTGIEN
  \* The controller and the socket.
  vbus,                \* "manual", "auto" or "off"
  UHADDR,              \* address the host sends to
  plugged,             \* a device is in the socket
  connected,           \* the controller sees its pull-up
  devState,            \* state of the device
  \* History.
  session,             \* what the events told the application
  told                 \* changes with every event that tells it something

mainVars == <<pc, next, otgien>>
libVars  == <<WaitMSRemaining, PostWaitState, USB_HostState, USB_ControlRequest>>
intVars  == <<isr, flags, enables>>
busVars  == <<vbus, UHADDR, connected, devState>>
events  == <<session, told>>
hostVars == <<mainVars, libVars, intVars, busVars, plugged, events>>

HostStates ==
  {"WaitForDeviceRemoval", "WaitForDevice", "Unattached", "Powered",
   "Powered_WaitForDeviceSettle", "Powered_WaitForConnect", "Powered_DoReset",
   "Powered_ConfigPipe", "Default", "Default_PostReset",
   "Default_PostAddressSet", "Addressed", "Configured"}
Interrupts    == {"DDISCI", "DCONNI", "VBERRI", "SRPI", "BCERRI"}
SectionOrder  == <<"DDISCI", "VBERRI", "SRPI", "BCERRI">>
\* Where the main program waits for frames, and where else it stays long.
WaitLabels    == {"wait", "ctlWait1", "ctlSetup", "ctlWait2", "ctlData", "ctlStatus",
                  "appUse"}
LongLabels    == WaitLabels \cup {"settleDelay", "rstBus", "rstLook", "failEvent",
                                  "failUnattached", "appConfigured", "appFail"}
Labels        == LongLabels \cup
  {"app", "powered", "settleDone", "settleState", "connClear", "connEnable",
   "waitNext", "waitFail", "nbWait", "rstDis", "rstEn", "configPipe", "postReset",
   "addrSet", "addrEvent", "addrState", "fail", "failReset", "appParse"}
ControlRequests == {"GetDevice", "SetAddress", "GetConfig", "SetConfig"}

\* Every variable has its type; the millisecond counter is 16 bits wide.
HostTypeOK ==
  /\ pc \in Labels /\ next \in HostStates
  /\ otgien \subseteq {"SRPI", "BCERRI", "VBERRI"}
  /\ WaitMSRemaining \in Nat /\ WaitMSRemaining < 65536 /\ PostWaitState \in HostStates
  /\ USB_HostState \in HostStates /\ USB_ControlRequest \in ControlRequests
  /\ isr \in 0..4 /\ flags \subseteq Interrupts
  /\ enables \subseteq {"DDISCI", "SRPI", "BCERRI", "VBERRI"}
  /\ vbus \in {"manual", "auto", "off"} /\ UHADDR \in {0, USB_HOST_DEVICEADDRESS}
  /\ plugged \in BOOLEAN /\ connected \in BOOLEAN
  /\ devState \in {"none", "powered", "default", "addressed", "configured"}
  /\ session \in {"none", "attached", "complete"} /\ told \in BOOLEAN

\* After USB_Init, with nothing in the socket.
HostInit ==
  /\ pc = "app" /\ next = "Unattached" /\ otgien = {}
  /\ WaitMSRemaining = 0 /\ PostWaitState = "WaitForDeviceRemoval"
  /\ USB_HostState = "Unattached" /\ USB_ControlRequest = "GetDevice"
  /\ isr = 0 /\ flags = {} /\ enables = {"SRPI", "BCERRI"}
  /\ vbus = "manual" /\ UHADDR = 0
  /\ plugged = FALSE /\ connected = FALSE /\ devState = "none"
  /\ session = "none" /\ told = FALSE

-----------------------------------------------------------------------------
(* The bus and USB_ResetInterface.                                         *)

\* The host sends a start of frame every millisecond to a connected device.
Frame == connected

DeviceAddress == IF devState \in {"addressed", "configured"}
                 THEN USB_HOST_DEVICEADDRESS ELSE 0

\* A packet the host sends reaches the device.
Reaches == connected /\ UHADDR = DeviceAddress

\* Switching VBUS off makes the device drop its pull-up.
VBUSOff(pending) ==
  /\ vbus' = "off"
  /\ flags' = pending \cup (IF connected THEN {"DDISCI"} ELSE {})
  /\ connected' = FALSE /\ devState' = "none"

\* All USB interrupts are off while it runs, so it is one step.  The supply
\* returns under manual control.
ResetInterface ==
  /\ USB_HostState' = "Unattached"
  /\ enables' = {"SRPI", "BCERRI"}
  /\ flags' = {}
  /\ vbus' = "manual" /\ UHADDR' = 0
  /\ connected' = FALSE /\ devState' = IF plugged THEN "powered" ELSE "none"

-----------------------------------------------------------------------------
(* ISR(USB_GEN_vect).                                                      *)

\* DeviceAttached, DeviceEnumerationComplete or DeviceUnattached.
Tell(s) == session' = s /\ told' = ~told

Pending(f) == f \in flags \cap enables

ISREnter ==
  /\ isr = 0 /\ \E f \in Interrupts : Pending(f)
  /\ isr' = 1
  /\ UNCHANGED <<mainVars, libVars, flags, enables, busVars, plugged, events>>

Section(f) == isr # 0 /\ SectionOrder[isr] = f /\ isr' = (isr + 1) % 5

HandlerFrame ==
  UNCHANGED <<mainVars, WaitMSRemaining, PostWaitState, USB_ControlRequest, plugged>>

ISRSkip ==
  /\ isr # 0 /\ ~Pending(SectionOrder[isr]) /\ isr' = (isr + 1) % 5
  /\ UNCHANGED <<mainVars, libVars, flags, enables, busVars, plugged, events>>

\* Mutant: the handler does not reset the interface after a disconnection.
DisconnectKeepsInterface ==
  /\ Section("DDISCI") /\ Pending("DDISCI")
  /\ flags' = flags \ {"DDISCI", "DCONNI"} /\ enables' = enables \ {"DDISCI"}
  /\ Tell("none") /\ USB_HostState' = "Unattached"
  /\ HandlerFrame /\ UNCHANGED busVars

\* EVENT_USB_Host_DeviceUnattached, then the interface is reset, which also
\* clears the flags and disables the interrupt as the section does.
ISRDisconnect ==
  /\ Section("DDISCI") /\ Pending("DDISCI")
  /\ Tell("none")
  /\ ResetInterface
  /\ HandlerFrame

\* The interface is not reset: the SRPI interrupt stays disabled.
ISRVBUSError ==
  /\ Section("VBERRI") /\ Pending("VBERRI")
  /\ VBUSOff(flags \ {"VBERRI"})
  /\ Tell("none")
  /\ USB_HostState' = "Unattached"
  /\ HandlerFrame /\ UNCHANGED <<enables, UHADDR>>

\* EVENT_USB_Host_DeviceAttached.
ISRAttach ==
  /\ Section("SRPI") /\ Pending("SRPI")
  /\ flags' = flags \ {"SRPI"}
  /\ enables' = (enables \ {"SRPI"}) \cup {"DDISCI"}
  /\ Tell("attached")
  /\ USB_HostState' = "Powered"
  /\ HandlerFrame /\ UNCHANGED busVars

\* Mutant: the application is not told that no device was found.
NoConnectionUnreported ==
  /\ Section("BCERRI") /\ Pending("BCERRI")
  /\ ResetInterface
  /\ HandlerFrame /\ UNCHANGED events

ISRNoConnection ==
  /\ Section("BCERRI") /\ Pending("BCERRI")
  /\ Tell("none")
  /\ ResetInterface
  /\ HandlerFrame

ISRStep == ISREnter \/ ISRSkip \/ ISRDisconnect \/ ISRVBUSError \/ ISRAttach
             \/ ISRNoConnection
-----------------------------------------------------------------------------
(* USB_Host_ProcessNextHostState, entered from USB_HostTask.               *)

\* The handler runs before the next main step when an interrupt is pending.
Main(l)  == isr = 0 /\ pc = l /\ \A f \in Interrupts : ~Pending(f)
Goto(l)  == pc' = l

\* A main step that writes only what it names.
MainFrame == UNCHANGED <<isr, plugged, USB_ControlRequest>>
Quiet     == UNCHANGED <<flags, enables, busVars, events>> /\ MainFrame
Keep      == UNCHANGED <<next, otgien>>
KeepLib   == UNCHANGED <<WaitMSRemaining, PostWaitState, USB_HostState>>

Step(from, to) == Main(from) /\ Goto(to) /\ Quiet /\ Keep /\ KeepLib

SetState(from, s, to) ==
  /\ Main(from) /\ Goto(to) /\ USB_HostState' = s
  /\ Quiet /\ Keep /\ UNCHANGED <<WaitMSRemaining, PostWaitState>>

\* The states whose code begins with a read of nothing but USB_HostState.
EntryLabel == [s \in {"Powered", "Powered_ConfigPipe", "Default_PostReset",
                      "Default_PostAddressSet"} |->
  CASE s = "Powered"            -> "powered"
    [] s = "Powered_ConfigPipe" -> "configPipe"
    [] s = "Default_PostReset"  -> "postReset"
    [] OTHER                    -> "addrSet"]

TaskEnter ==
  /\ USB_HostState \in DOMAIN EntryLabel
  /\ Step("app", EntryLabel[USB_HostState])

StartRequest(r) ==
  /\ Goto("ctlWait1") /\ USB_ControlRequest' = r
  /\ UNCHANGED <<isr, plugged, flags, enables, busVars, events>> /\ Keep /\ KeepLib

TaskDefault == Main("app") /\ USB_HostState = "Default" /\ StartRequest("GetDevice")

TaskWait == /\ USB_HostState = "WaitForDevice" /\ WaitMSRemaining > 0
            /\ Step("app", "wait")

\* `if (WaitMSRemaining--)': the test of zero wraps the counter.
TaskSettle ==
  /\ Main("app") /\ USB_HostState = "Powered_WaitForDeviceSettle"
  /\ Goto(IF WaitMSRemaining > 0 THEN "settleDelay" ELSE "settleDone")
  /\ WaitMSRemaining' = (WaitMSRemaining + 65535) % 65536
  /\ Quiet /\ Keep /\ UNCHANGED <<PostWaitState, USB_HostState>>

TaskConnect == /\ USB_HostState = "Powered_WaitForConnect" /\ "DCONNI" \in flags
               /\ Step("app", "connClear")

\* HOST_STATE_Powered_DoReset, and the reset that follows GetDescriptor.
TaskReset ==
  /\ Main("app") /\ USB_HostState = "Powered_DoReset"
  /\ Goto("rstDis") /\ next' = "Powered_ConfigPipe"
  /\ Quiet /\ UNCHANGED otgien /\ KeepLib

Powered ==
  /\ Main("powered") /\ Goto("app")
  /\ WaitMSRemaining' = SETTLE_MS
  /\ USB_HostState' = "Powered_WaitForDeviceSettle"
  /\ Quiet /\ Keep /\ UNCHANGED PostWaitState

SettleDelay == Step("settleDelay", "app")

\* VBUS goes from manual to automatic control.
SettleDone ==
  /\ Main("settleDone") /\ Goto("settleState")
  /\ vbus' = "auto"
  /\ Keep /\ KeepLib /\ MainFrame
  /\ UNCHANGED <<flags, enables, UHADDR, connected, devState, events>>

SettleState == SetState("settleState", "Powered_WaitForConnect", "app")

ConnectClear ==
  /\ Main("connClear") /\ Goto("connEnable")
  /\ flags' = flags \ {"DCONNI", "DDISCI", "VBERRI"}
  /\ otgien' = enables \ {"DDISCI"}
  /\ next' = "Powered_DoReset"
  /\ KeepLib /\ MainFrame /\ UNCHANGED <<enables, busVars, events>>

\* The second half of the read-modify-write of OTGIEN.
ConnectEnable ==
  /\ Main("connEnable") /\ Goto("nbWait")
  /\ enables' = (enables \cap {"DDISCI"}) \cup otgien \cup {"VBERRI"}
  /\ Keep /\ KeepLib /\ MainFrame /\ UNCHANGED <<flags, busVars, events>>

\* HOST_TASK_NONBLOCK_WAIT.
NonblockWait ==
  /\ Main("nbWait") /\ Goto("app")
  /\ USB_HostState' = "WaitForDevice"
  /\ WaitMSRemaining' = WAIT_MS /\ PostWaitState' = next
  /\ Quiet /\ Keep

\* USB_Host_WaitMS(1): a disconnection is seen even when the frame came.
WaitMS ==
  \/ USB_HostState = "Unattached" /\ Step("wait", "waitFail")
  \/ USB_HostState # "Unattached" /\ Frame /\ Step("wait", "waitNext")

WaitNext ==
  /\ Main("waitNext") /\ Goto("app")
  /\ WaitMSRemaining' = WaitMSRemaining - 1
  /\ USB_HostState' = IF WaitMSRemaining = 1 THEN PostWaitState ELSE USB_HostState
  /\ Quiet /\ Keep /\ UNCHANGED PostWaitState

WaitFail == SetState("waitFail", PostWaitState, "fail")

\* USB_Host_ResetDevice.
ResetDisable ==
  /\ Main("rstDis") /\ Goto("rstBus")
  /\ enables' = enables \ {"DDISCI"}
  /\ Keep /\ KeepLib /\ MainFrame /\ UNCHANGED <<flags, busVars, events>>

\* Mutant: the bus reset is not sent.
ResetSkipped == Step("rstBus", "rstLook")

ResetBus ==
  /\ Main("rstBus") /\ Goto("rstLook")
  /\ devState' = IF connected THEN "default" ELSE devState
  /\ Keep /\ KeepLib /\ MainFrame
  /\ UNCHANGED <<flags, enables, vbus, UHADDR, connected, events>>

\* A frame within 10 ms means the device is there after all.
ResetLook ==
  /\ Main("rstLook") /\ Goto("rstEn")
  /\ flags' = IF Frame THEN flags \ {"DDISCI"} ELSE flags
  /\ Keep /\ KeepLib /\ MainFrame /\ UNCHANGED <<enables, busVars, events>>

\* Mutant: disconnections stay disabled after the bus reset.
ResetLeavesDisabled == Step("rstEn", "nbWait")

ResetEnable ==
  /\ Main("rstEn") /\ Goto("nbWait")
  /\ enables' = enables \cup {"DDISCI"}
  /\ Keep /\ KeepLib /\ MainFrame /\ UNCHANGED <<flags, busVars, events>>

\* The controller may not have the memory for the pipe.
ConfigPipe ==
  \/ SetState("configPipe", "Default", "app")
  \/ Step("configPipe", "fail")

\* The pipe is configured with the size the device gave, which may be no size.
PostReset ==
  /\ Main("postReset")
  /\ \/ StartRequest("SetAddress")
     \/ Step("postReset", "fail")

AddressSet ==
  /\ Main("addrSet") /\ Goto("addrEvent")
  /\ UHADDR' = USB_HOST_DEVICEADDRESS
  /\ Keep /\ KeepLib /\ MainFrame
  /\ UNCHANGED <<flags, enables, vbus, connected, devState, events>>

\* EVENT_USB_Host_DeviceEnumerationComplete.
AddressEvent ==
  /\ Main("addrEvent") /\ Goto("addrState")
  /\ Tell("complete")
  /\ Keep /\ KeepLib /\ MainFrame /\ UNCHANGED <<flags, enables, busVars>>

AddressState == SetState("addrState", "Addressed", "app")

\* The end of the function, when a state set ErrorCode.
Fail == Step("fail", IF USB_HostState # "Unattached" THEN "failEvent" ELSE "app")

FailEvent ==
  /\ Main("failEvent") /\ Goto("failUnattached")
  /\ VBUSOff(flags)
  /\ Keep /\ KeepLib /\ MainFrame /\ UNCHANGED <<enables, UHADDR, events>>

FailUnattached ==
  /\ Main("failUnattached") /\ Goto("failReset")
  /\ Tell("none")
  /\ Keep /\ KeepLib /\ MainFrame /\ UNCHANGED <<flags, enables, busVars>>

FailReset ==
  /\ Main("failReset") /\ Goto("app")
  /\ ResetInterface
  /\ Keep /\ MainFrame /\ UNCHANGED <<WaitMSRemaining, PostWaitState, events>>

-----------------------------------------------------------------------------
(* USB_Host_SendControlRequest, one wait per step.                         *)

DeviceToHost == USB_ControlRequest \in {"GetDevice", "GetConfig"}

\* Where an unsuccessful request leads.
AfterError == IF USB_ControlRequest \in {"GetDevice", "SetAddress"}
              THEN "fail" ELSE "appFail"

\* A disconnection seen by USB_Host_WaitMS; a pipe error, a stall or the
\* software timeout, which takes frames to count.
ControlError(l) == /\ USB_HostState = "Unattached" \/ Frame
                   /\ Step(l, AfterError)

ControlWait1 == ControlError("ctlWait1") \/
  (USB_HostState # "Unattached" /\ Frame /\ Step("ctlWait1", "ctlSetup"))

ControlSetup == ControlError("ctlSetup") \/
  (Reaches /\ Step("ctlSetup", "ctlWait2"))

ControlWait2 == ControlError("ctlWait2") \/
  (/\ USB_HostState # "Unattached" /\ Frame
   /\ Step("ctlWait2", IF DeviceToHost THEN "ctlData" ELSE "ctlStatus"))

ControlData == ControlError("ctlData") \/
  (Reaches /\ Step("ctlData", "ctlStatus"))

\* What the device does when the status stage ends.
DeviceActs ==
  devState' = CASE USB_ControlRequest = "SetAddress" -> "addressed"
                [] USB_ControlRequest = "SetConfig"  -> "configured"
                [] OTHER                             -> devState

AfterRequest == [r \in ControlRequests |->
  CASE r = "GetDevice" -> "rstDis" [] r = "SetAddress" -> "nbWait"
    [] r = "GetConfig" -> "appParse" [] r = "SetConfig" -> "appConfigured"]

\* The device may end the stage without the host learning of it.
ControlStatus ==
  \/ ControlError("ctlStatus")
  \/ /\ Main("ctlStatus") /\ Reaches
     /\ DeviceActs
     /\ pc' \in {AfterRequest[USB_ControlRequest], AfterError}
     /\ next' = CASE USB_ControlRequest = "GetDevice"  -> "Default_PostReset"
                  [] USB_ControlRequest = "SetAddress" -> "Default_PostAddressSet"
                  [] OTHER                             -> next
     /\ UNCHANGED <<otgien, flags, enables, vbus, UHADDR, connected, events>>
     /\ KeepLib /\ MainFrame

-----------------------------------------------------------------------------
(* The main loop of a host demo.                                           *)

\* HOST_STATE_Addressed: USB_Host_GetDeviceConfigDescriptor, a look at the
\* descriptor, USB_Host_SetDeviceConfiguration.
AppAddressed == Main("app") /\ USB_HostState = "Addressed" /\ StartRequest("GetConfig")

AppParse == Main("appParse") /\ (StartRequest("SetConfig") \/ Step("appParse", "appFail"))

AppConfigured == SetState("appConfigured", "Configured", "app")

\* HOST_STATE_Configured: the class driver's requests, done or failed.  Their
\* waits are those of a control request.
AppWork == USB_HostState = "Configured" /\ Step("app", "appUse")
AppUsed == (USB_HostState = "Unattached" \/ Frame) /\ Step("appUse", "appFail")

\* What is printed at the end, and HOST_STATE_WaitForDeviceRemoval.
AppWaitForRemoval == SetState("appFail", "WaitForDeviceRemoval", "app")

MainStep ==
  \/ TaskEnter \/ TaskDefault \/ TaskWait \/ TaskSettle \/ TaskConnect \/ TaskReset
  \/ Powered \/ SettleDelay \/ SettleDone \/ SettleState
  \/ ConnectClear \/ ConnectEnable \/ NonblockWait \/ WaitMS \/ WaitNext \/ WaitFail
  \/ ResetDisable \/ ResetBus \/ ResetLook \/ ResetEnable
  \/ ConfigPipe \/ PostReset \/ AddressSet \/ AddressEvent \/ AddressState
  \/ Fail \/ FailEvent \/ FailUnattached \/ FailReset
  \/ ControlWait1 \/ ControlSetup \/ ControlWait2 \/ ControlData \/ ControlStatus
  \/ AppAddressed \/ AppParse \/ AppConfigured \/ AppWork \/ AppUsed \/ AppWaitForRemoval

-----------------------------------------------------------------------------
(* The socket and the controller's detectors.                              *)

EnvFrame == UNCHANGED <<mainVars, libVars, isr, enables, UHADDR, events>>

\* The main program waits for a frame that does not come, and nothing tells it.
Stuck == (\E l \in WaitLabels : Main(l)) /\ USB_HostState # "Unattached" /\ ~Frame

AtLength == HostPolicy = "long" => \E l \in LongLabels \cup {"app"} : Main(l)
Settled  == HostPolicy = "long" => Main("app") \/ Stuck

\* Drawing current from a manually driven VBUS looks like a session request.
Plug ==
  /\ ~plugged /\ Settled
  /\ plugged' = TRUE
  /\ flags' = flags \cup (IF vbus = "manual" THEN {"SRPI"} ELSE {})
  /\ devState' = IF vbus = "off" THEN "none" ELSE "powered"
  /\ EnvFrame /\ UNCHANGED <<vbus, connected>>

\* A device still in the socket after a reset may be taken for a new one.
Reattach ==
  /\ plugged /\ vbus = "manual" /\ "SRPI" \in enables \ flags /\ Settled
  /\ flags' = flags \cup {"SRPI"}
  /\ EnvFrame /\ UNCHANGED <<vbus, plugged, connected, devState>>

\* Before the pads are on the controller may or may not see it go.
Unplug ==
  /\ plugged /\ AtLength
  /\ plugged' = FALSE /\ connected' = FALSE /\ devState' = "none"
  /\ flags' \in {flags \cup {"DDISCI"}} \cup (IF connected THEN {} ELSE {flags})
  /\ EnvFrame /\ UNCHANGED vbus

\* A connection raises DCONNI.
Connect ==
  /\ plugged /\ vbus = "auto" /\ ~connected
  /\ connected' = TRUE /\ flags' = flags \cup {"DCONNI"}
  /\ devState' = "powered"
  /\ EnvFrame /\ UNCHANGED <<vbus, plugged>>

\* Nothing connected after VBUS was raised.
NoConnection ==
  /\ ~plugged /\ vbus = "auto" /\ Settled
  /\ flags \cap {"DDISCI", "BCERRI"} = {}
  /\ flags' = flags \cup {"BCERRI"}
  /\ EnvFrame /\ UNCHANGED <<vbus, plugged, connected, devState>>

VoltageDip ==
  /\ vbus = "auto" /\ "VBERRI" \notin flags /\ AtLength
  /\ flags' = flags \cup {"VBERRI"}
  /\ EnvFrame /\ UNCHANGED <<vbus, plugged, connected, devState>>

HostNext == MainStep \/ ISRStep \/ Plug \/ Reattach \/ Unplug \/ Connect \/ NoConnection \/ VoltageDip

\* The main loop and the handler keep running; nobody has to touch the cable,
\* and nobody moves it so fast forever that the controller's detectors never
\* find a device there or not there.
HostFairness == /\ WF_hostVars(MainStep) /\ WF_hostVars(ISRStep)
            /\ SF_hostVars(Connect \/ NoConnection)

HostSpec == HostInit /\ [][HostNext]_hostVars /\ HostFairness

-----------------------------------------------------------------------------
(* Properties.                                                             *)

\* What the application is told keeps to HostLifecycle: an attachment is told
\* once, when there is a device and the removal of the last was told; its
\* completion once, after that, while it is there; a removal once or more.
Lifecycle == INSTANCE HostLifecycle
               WITH present <- plugged, session <- session, told <- told
ImplementsLifecycle == Lifecycle!Spec

\* An announced device is enumerated or given up, and the application learns
\* that a device has gone; but for the main program that waits for frames of
\* a device whose removal was told and then overwritten in USB_HostState.
Overwritten == Stuck /\ "DDISCI" \in enables
SessionsMoveOn ==
  /\ session = "attached" ~> (session # "attached" \/ []Overwritten)
  /\ (session # "none" /\ ~plugged) ~> (session = "none" \/ plugged \/ []Overwritten)

\* Without the exception, for a device that stays in the socket, and before any
\* error of the supply or of an enumeration: after HOST_STATE_Powered (Host.h)
\* the enumeration begins, and comes to an end.
AttachmentSettles ==
  [](vbus # "off") => (session = "attached" /\ []plugged ~> session # "attached")

\* Each SETUP of a connected device finds it reset and goes to the address it
\* has, through two bus resets, SetAddress, failures and replacement.
RequestsReachDevice ==
  pc = "ctlSetup" /\ isr = 0 /\ connected =>
    UHADDR = DeviceAddress /\ devState # "powered"

\* When no device is attached for the application, the host will see the next:
\* the attach interrupt is enabled again after every way a session ends.
HostListens ==
  Main("app") /\ session = "none" => "SRPI" \in enables
=============================================================================
