------------------------------ MODULE USBDevice ------------------------------
(***************************************************************************)
(* The device-mode USB stack of LUFA/Drivers/USB in a USB_DEVICE_ONLY      *)
(* build for an AVR of series 4, 6 or 7: the management task (USBTask.c),  *)
(* the standard control requests (DevChapter9.c), the general USB          *)
(* interrupt (USBInterrupt.c) and the interface start-up and shut-down     *)
(* (LowLevel.c), together with the controller registers they share and     *)
(* the host at the other end of the cable.                                 *)
(*                                                                         *)
(* Three parties take steps.  The main program runs application code and   *)
(* the task; `pc' says where it is.  The interrupt handler preempts it     *)
(* between any two main steps and is never preempted itself; `isr' says    *)
(* which section of the handler is next.  The host and the controller's    *)
(* hardware may act at any time, also while the handler runs.              *)
(***************************************************************************)
EXTENDS Naturals

CONSTANTS
  Endpoints,              \* data endpoints the application configures
  Addresses,              \* non-zero device addresses the host assigns
  NumberOfConfigurations, \* from the device descriptor
  DescriptorPackets,      \* descriptor -> IN packets it takes, when it exists
  Requests,               \* control requests the host issues
  MANUAL_PLL,             \* USB_OPT_MANUAL_PLL is set in USB_Options
  SOFEvents,              \* ConfigurationChanged calls USB_Device_EnableSOFEvents
  HostPolicy              \* how freely the host interrupts the device, see below

(***************************************************************************)
(* HostPolicy = "any": the host may reset or suspend the bus and abandon a *)
(* control transfer for a new SETUP at any moment.  "paced": it finishes   *)
(* one control transfer before it starts the next, and sends a SETUP,      *)
(* resets or suspends the bus only when the device's main loop is back in  *)
(* the application (recovery times of the USB specification, which the     *)
(* device never measures).  Under both the cable may be pulled at any      *)
(* moment.                                                                 *)
(***************************************************************************)
ReqNames == {"GetStatus", "ClearFeature", "SetFeature", "SetAddress",
             "GetDescriptor", "GetConfiguration", "SetConfiguration",
             "Class", "SyncFrame"}

(***************************************************************************)
(* A request: bRequest, the recipient of bmRequestType, wValue, wIndex and *)
(* wLength (counted in control packets).  The direction bit and the type   *)
(* of bmRequestType are determined by the request.                         *)
(***************************************************************************)
RequestType == [req : ReqNames, rcpt : {"device", "interface", "endpoint"},
                val : Nat, idx : Nat, len : Nat]

ASSUME ConstantsAssumption ==
  /\ Endpoints \subseteq Nat \ {0}
  /\ Addresses \subseteq Nat \ {0}
  /\ NumberOfConfigurations \in Nat \ {0}
  /\ DescriptorPackets \in [DOMAIN DescriptorPackets -> Nat \ {0}]
  /\ Requests \subseteq RequestType /\ Requests # {}
  /\ \A r \in Requests :
       /\ r.req = "SetAddress" => r.val \in Addresses \cup {0}
       /\ r.rcpt = "endpoint" => r.idx \in Endpoints \cup {0}
  /\ MANUAL_PLL \in BOOLEAN
  /\ SOFEvents \in BOOLEAN
  /\ HostPolicy \in {"any", "paced"}

ENDPOINT_CONTROLEP == 0
FEATURE_ENDPOINT_HALT == 0
FEATURE_REMOTE_WAKEUP == 1

VARIABLES
  \* The main program.
  pc,                      \* next step of the main program
  PrevEndpoint,            \* local of USB_DeviceTask
  left,                    \* packets Endpoint_Write_Control_Stream has to send
  udien,                   \* register copy inside USB_INT_Enable(USB_INT_SOFI)
  \* Globals of the library, shared with the interrupt handler.
  USB_IsInitialized, USB_DeviceState, USB_ConfigurationNumber,
  USB_RemoteWakeupEnabled, USB_ControlRequest,
  \* The interrupt handler and its registers.
  isr,                     \* next section of ISR(USB_GEN_vect), 0 outside it
  flags,                   \* pending flags of UDINT and USBINT
  enables,                 \* enabled interrupts of UDIEN and USBCON
  \* The rest of the USB controller.
  UENUM, UDADDR, frozen, pllOn,
  enabled, stalled,        \* endpoints with EPEN, with STALLRQ
  ep0,                     \* flags of the control endpoint's UEINTX
  bank,                    \* last SETUP packet received, as the host sent it
  \* The host.
  vbus, xfer, hostLeft, hostRunning, hostAddr, hostCfg,
  \* History variables.
  unread,                  \* the SETUP in the bank was not yet read by the task
  appEndpoint,             \* endpoint the application last selected
  clobbered                \* a bus reset was handled since it selected it

mainVars == <<pc, PrevEndpoint, left, udien>>
libVars  == <<USB_IsInitialized, USB_DeviceState, USB_ConfigurationNumber,
              USB_RemoteWakeupEnabled, USB_ControlRequest>>
intVars  == <<isr, flags, enables>>
regVars  == <<UENUM, UDADDR, frozen, pllOn>>
epVars   == <<enabled, stalled, ep0, bank>>
hostVars == <<vbus, xfer, hostLeft, hostRunning, hostAddr, hostCfg>>
ghosts   == <<unread, appEndpoint, clobbered>>
vars     == <<mainVars, libVars, intVars, regVars, epVars, hostVars, ghosts>>

DeviceStates == {"Unattached", "Powered", "Default", "Addressed",
                 "Configured", "Suspended"}
Interrupts   == {"VBUS", "SUSPEND", "WAKEUP", "EORSTI", "SOFI"}
SectionOrder == <<"VBUS", "SUSPEND", "WAKEUP", "EORSTI", "SOFI">>
EP0Flags     == {"RXSTPI", "RXOUTI", "TXINI"}
EndpointNums == Endpoints \cup {ENDPOINT_CONTROLEP}
Stages       == {"none", "data", "statusOut", "statusIn"}

\* Where the main program can be.  All but "app" lie inside USB_DeviceTask.
DataEPLabels == {"statusRead", "featureCheck", "featureApply"}
SelectLabels == {"statusSelect", "statusReselect", "featureSelect", "featureReselect"}
ControlLabels ==
  {"read", "ackSETUP", "setNumber",
   "sendData", "writeStream", "streamWaitOUT", "afterStream", "statusStage",
   "addrWait", "addrState", "addrWrite", "cfgCommit", "cfgConfigured",
   "cfgAddressed", "cfgEvent", "tail", "tailClear"}
EventLabels  == {"sofRead", "sofWrite", "restore"}
Labels       == {"app"} \cup DataEPLabels \cup SelectLabels \cup ControlLabels \cup EventLabels

Goto(l)    == pc' = l
Min2(a, b) == IF a <= b THEN a ELSE b

\* bmRequestType & REQDIR_DEVICETOHOST, for the requests modelled.
DeviceToHost(r) == r.req \in {"GetStatus", "GetDescriptor", "GetConfiguration"}

MainTypes ==
  /\ pc \in Labels /\ PrevEndpoint \in EndpointNums
  /\ left \in Nat /\ udien \subseteq Interrupts
  /\ USB_IsInitialized \in BOOLEAN /\ USB_DeviceState \in DeviceStates
  /\ USB_ConfigurationNumber \in Nat /\ USB_RemoteWakeupEnabled \in BOOLEAN
  /\ USB_ControlRequest \in Requests

RegisterTypes ==
  /\ isr \in 0..5 /\ flags \subseteq Interrupts /\ enables \subseteq Interrupts
  /\ UENUM \in EndpointNums /\ UDADDR \in Addresses \cup {0}
  /\ frozen \in BOOLEAN /\ pllOn \in BOOLEAN
  /\ enabled \subseteq EndpointNums /\ stalled \subseteq EndpointNums
  /\ ep0 \subseteq EP0Flags /\ bank \in Requests

HostTypes ==
  /\ vbus \in BOOLEAN /\ xfer \in Stages /\ hostLeft \in Nat
  /\ hostRunning \in BOOLEAN /\ hostAddr \in Addresses \cup {0} /\ hostCfg \in Nat
  /\ unread \in BOOLEAN /\ appEndpoint \in EndpointNums /\ clobbered \in BOOLEAN

\* Every variable has its type; endpoint numbers, addresses and request fields
\* written to registers and globals stay in range.
TypeOK == MainTypes /\ RegisterTypes /\ HostTypes

Init ==
  /\ pc = "app" /\ PrevEndpoint = 0 /\ left = 0 /\ udien = {}
  /\ USB_IsInitialized = FALSE /\ USB_DeviceState = "Unattached"
  /\ USB_ConfigurationNumber = 0 /\ USB_RemoteWakeupEnabled = FALSE
  /\ bank = (CHOOSE r \in Requests : TRUE) /\ USB_ControlRequest = bank
  /\ isr = 0 /\ flags = {} /\ enables = {}
  /\ UENUM = 0 /\ UDADDR = 0 /\ frozen = TRUE /\ pllOn = MANUAL_PLL
  /\ enabled = {} /\ stalled = {} /\ ep0 = {}
  /\ vbus = FALSE /\ xfer = "none" /\ hostLeft = 0
  /\ hostRunning = FALSE /\ hostAddr = 0 /\ hostCfg = 0
  /\ unread = FALSE /\ appEndpoint = 0 /\ clobbered = FALSE

-----------------------------------------------------------------------------
(* Endpoint register operations of Endpoint.h.  Each acts on the endpoint  *)
(* selected in UENUM; only the control endpoint's flags are modelled, so   *)
(* on a data endpoint they leave ep0 alone.                                *)

OnEP0 == UENUM = ENDPOINT_CONTROLEP

IsSETUPReceived == OnEP0 /\ "RXSTPI" \in ep0
IsOUTReceived   == OnEP0 /\ "RXOUTI" \in ep0
IsINReady       == OnEP0 /\ "TXINI" \in ep0

ClearFlag(f) == ep0' = IF OnEP0 THEN ep0 \ {f} ELSE ep0
ClearSETUP   == ClearFlag("RXSTPI")
ClearOUT     == ClearFlag("RXOUTI")
ClearIN      == ClearFlag("TXINI")

StallTransaction == stalled' = stalled \cup {UENUM}

-----------------------------------------------------------------------------
(* The interface: USB_Init, USB_ShutDown and the application.              *)

\* A main step runs when no handler does.
InMain(l) == isr = 0 /\ pc = l

(***************************************************************************)
(* USB_ResetInterface.  All USB interrupts are off while it runs, so it is *)
(* one step: globals cleared, controller reset (endpoints, address, flags) *)
(* and SUSPEND, EORSTI and VBUS enabled.                                   *)
(***************************************************************************)
ResetInterface ==
  /\ USB_DeviceState' = "Unattached"
  /\ USB_ConfigurationNumber' = 0
  /\ USB_RemoteWakeupEnabled' = FALSE
  /\ enables' = {"SUSPEND", "EORSTI", "VBUS"}
  /\ frozen' = FALSE
  /\ enabled' = {} /\ stalled' = {} /\ ep0' = {} /\ unread' = FALSE
  /\ UENUM' = 0 /\ UDADDR' = 0 /\ appEndpoint' = 0 /\ clobbered' = FALSE

\* Whatever the host was doing with the device ends when the pull-up goes.
HostLosesDevice ==
  /\ xfer' = "none" /\ hostRunning' = FALSE /\ hostLeft' = 0
  /\ hostAddr' = 0 /\ hostCfg' = 0

USB_Init ==
  /\ InMain("app") /\ ~USB_IsInitialized
  /\ ResetInterface
  /\ pllOn' = TRUE
  /\ flags' = IF vbus THEN {"VBUS"} ELSE {}   \* USB_OTGPAD_On senses VBUS
  /\ USB_IsInitialized' = TRUE
  /\ HostLosesDevice
  /\ UNCHANGED <<mainVars, USB_ControlRequest, isr, bank, vbus>>

USB_ShutDown ==
  /\ InMain("app") /\ USB_IsInitialized
  /\ ResetInterface
  /\ pllOn' = MANUAL_PLL
  /\ flags' = {}
  /\ USB_IsInitialized' = FALSE
  /\ HostLosesDevice
  /\ UNCHANGED <<mainVars, USB_ControlRequest, isr, bank, vbus>>

\* The application selects an endpoint to work on.
AppSelect(e) ==
  /\ InMain("app") /\ USB_IsInitialized
  /\ UENUM' = e /\ appEndpoint' = e /\ clobbered' = FALSE
  /\ UNCHANGED <<mainVars, libVars, intVars, UDADDR, frozen, pllOn, epVars,
                 hostVars, unread>>
-----------------------------------------------------------------------------
(* USB_DeviceTask and USB_Device_ProcessControlRequest.                    *)

\* What a main step inside the task leaves alone unless it says otherwise.
TaskFrame ==
  UNCHANGED <<udien, USB_IsInitialized, intVars, UDADDR, frozen, pllOn, bank,
              hostVars, appEndpoint, clobbered>>

\* The application calls USB_USBTask; the control endpoint is selected.
TaskEnter ==
  /\ InMain("app") /\ USB_DeviceState # "Unattached"
  /\ PrevEndpoint' = UENUM
  /\ UENUM' = ENDPOINT_CONTROLEP
  /\ Goto(IF "RXSTPI" \in ep0 THEN "read" ELSE "restore")
  /\ UNCHANGED <<left, libVars, enabled, stalled, ep0, unread>> /\ TaskFrame

(***************************************************************************)
(* Where the switch on bRequest leads.  A request that matches no case, or *)
(* whose handler returns before it acknowledges the SETUP, goes to "tail", *)
(* where a SETUP still pending is stalled.  EVENT_USB_Device_              *)
(* UnhandledControlRequest is the application's: it answers the class      *)
(* requests it knows and leaves the others.                                *)
(***************************************************************************)
Dispatch(r) ==
  CASE r.req = "GetStatus" /\ r.rcpt = "device"      -> "ackSETUP"
    [] r.req = "GetStatus" /\ r.rcpt = "endpoint"    -> "statusSelect"
    [] /\ r.req \in {"ClearFeature", "SetFeature"}
       /\ r.rcpt = "device" /\ r.val = FEATURE_REMOTE_WAKEUP -> "featureReselect"
    [] /\ r.req \in {"ClearFeature", "SetFeature"} /\ r.rcpt = "endpoint"
       /\ ~(r.val = FEATURE_ENDPOINT_HALT /\ r.idx = ENDPOINT_CONTROLEP)
         -> IF r.val = FEATURE_ENDPOINT_HALT THEN "featureSelect"
                                             ELSE "featureReselect"
    [] r.req = "SetAddress" /\ r.rcpt = "device"     -> "ackSETUP"
    [] /\ r.req = "GetDescriptor" /\ r.rcpt \in {"device", "interface"}
       /\ r.val \in DOMAIN DescriptorPackets         -> "ackSETUP"
    [] r.req = "GetConfiguration" /\ r.rcpt = "device" -> "ackSETUP"
    [] /\ r.req = "SetConfiguration" /\ r.rcpt = "device"
       /\ r.val <= NumberOfConfigurations            -> "ackSETUP"
    [] r.req = "Class"                               -> "ackSETUP"
    [] OTHER                                         -> "tail"

\* Packets Endpoint_Write_Control_Stream sends for a descriptor: what exists,
\* cut to wLength.  A cut at a packet boundary leaves LastPacketFull set, and
\* the loop goes on to an empty packet the host did not ask for.
StreamPackets(r) ==
  LET cut == r.len > 0 /\ r.len <= DescriptorPackets[r.val]
  IN  {Min2(DescriptorPackets[r.val], r.len)} \cup (IF cut THEN {r.len + 1} ELSE {})

\* The eight header bytes are read.  When a bus reset has emptied the bank
\* meanwhile they are whatever the memory holds.
ReadHeader ==
  /\ InMain("read")
  /\ \E r \in IF IsSETUPReceived THEN {bank} ELSE Requests :
       /\ USB_ControlRequest' = r
       /\ Goto(Dispatch(r))
       /\ USB_RemoteWakeupEnabled' =
            IF r.rcpt = "device" /\ Dispatch(r) = "featureReselect"
            THEN r.req = "SetFeature" ELSE USB_RemoteWakeupEnabled
       /\ left' \in IF r.req = "GetDescriptor" /\ Dispatch(r) = "ackSETUP"
                    THEN StreamPackets(r) ELSE {left}
  /\ unread' = FALSE
  /\ UNCHANGED <<PrevEndpoint, USB_DeviceState, USB_ConfigurationNumber,
                 UENUM, enabled, stalled, ep0>>
  /\ TaskFrame

\* A step that only moves on.
Step(from, to) ==
  /\ InMain(from) /\ Goto(to)
  /\ UNCHANGED <<PrevEndpoint, left, libVars, UENUM, enabled, stalled, ep0, unread>>
  /\ TaskFrame

Reselect(from, ep, to) ==
  /\ InMain(from) /\ Goto(to)
  /\ UENUM' = ep
  /\ UNCHANGED <<PrevEndpoint, left, libVars, enabled, stalled, ep0, unread>>
  /\ TaskFrame

\* USB_Device_GetStatus: Endpoint_IsStalled on the endpoint asked about (the
\* value it returns is not modelled), then back to the control endpoint.
StatusSelect   == Reselect("statusSelect", USB_ControlRequest.idx, "statusRead")
StatusRead     == Step("statusRead", "statusReselect")
StatusReselect == Reselect("statusReselect", ENDPOINT_CONTROLEP, "ackSETUP")

\* USB_Device_ClearSetFeature, ENDPOINT_HALT of a data endpoint.
FeatureSelect == Reselect("featureSelect", USB_ControlRequest.idx, "featureCheck")

FeatureCheck ==
  Step("featureCheck", IF UENUM \in enabled THEN "featureApply"
                                            ELSE "featureReselect")

FeatureApply ==
  /\ InMain("featureApply") /\ Goto("featureReselect")
  /\ IF USB_ControlRequest.req = "SetFeature"
     THEN StallTransaction
     ELSE stalled' = stalled \ {UENUM}
  /\ UNCHANGED <<PrevEndpoint, left, libVars, UENUM, enabled, ep0, unread>>
  /\ TaskFrame

\* Mutant: the endpoint whose feature was set stays selected.
FeatureStaysSelected == Step("featureReselect", "ackSETUP")

FeatureReselect == Reselect("featureReselect", ENDPOINT_CONTROLEP, "ackSETUP")

\* What follows Endpoint_ClearSETUP in each handler.
AfterAck(r) ==
  CASE r.req \in {"GetStatus", "GetConfiguration"} -> "sendData"
    [] r.req = "GetDescriptor"                     -> "writeStream"
    [] r.req = "SetConfiguration"                  -> "setNumber"
    [] OTHER                                       -> "statusStage"

\* A main step that writes the control endpoint's flags.
OnFlags(from, op, to) ==
  /\ InMain(from) /\ op /\ Goto(to)
  /\ UNCHANGED <<PrevEndpoint, left, libVars, UENUM, enabled, stalled>>
  /\ TaskFrame

AckSETUP ==
  /\ OnFlags("ackSETUP", ClearSETUP, AfterAck(USB_ControlRequest))
  /\ unread' = (unread /\ ~IsSETUPReceived)

\* USB_ConfigurationNumber is stored before the status stage.
SetNumber ==
  /\ InMain("setNumber") /\ Goto("statusStage")
  /\ USB_ConfigurationNumber' = USB_ControlRequest.val
  /\ UNCHANGED <<PrevEndpoint, left, USB_DeviceState, USB_RemoteWakeupEnabled,
                 USB_ControlRequest, UENUM, enabled, stalled, ep0, unread>>
  /\ TaskFrame

\* The status or configuration byte is written and sent.
SendData ==
  OnFlags("sendData", ClearIN, "statusStage") /\ UNCHANGED unread

(***************************************************************************)
(* Endpoint_Write_Control_Stream_LE, one iteration of its loop per step,   *)
(* counted in packets.                                                     *)
(***************************************************************************)
WriteStreamEnds == left = 0 /\ Step("writeStream", "streamWaitOUT")

\* Mutant: the loop does not stop when everything is sent.
WriteStreamOverruns ==
  /\ InMain("writeStream") /\ ~IsSETUPReceived /\ ~IsOUTReceived /\ IsINReady
  /\ ClearIN /\ left' = left - 1 /\ UNCHANGED pc
  /\ UNCHANGED <<PrevEndpoint, libVars, UENUM, enabled, stalled, unread>>
  /\ TaskFrame

WriteStream ==
  /\ InMain("writeStream") /\ left > 0
  /\ \/ /\ IsSETUPReceived                        \* HostAborted
        /\ Goto("afterStream") /\ UNCHANGED <<left, ep0>>
     \/ /\ ~IsSETUPReceived /\ IsOUTReceived       \* early status stage
        /\ Goto("streamWaitOUT") /\ UNCHANGED <<left, ep0>>
     \/ /\ ~IsSETUPReceived /\ ~IsOUTReceived      \* DeviceDisconnected
        /\ USB_DeviceState = "Unattached"
        /\ Goto("afterStream") /\ UNCHANGED <<left, ep0>>
     \/ /\ ~IsSETUPReceived /\ ~IsOUTReceived /\ USB_DeviceState # "Unattached"
        /\ IsINReady
        /\ ClearIN /\ left' = left - 1 /\ UNCHANGED pc
  /\ UNCHANGED <<PrevEndpoint, libVars, UENUM, enabled, stalled, unread>>
  /\ TaskFrame

\* Mutant: the wait ignores a disconnection.
StreamWaitsForever == IsOUTReceived /\ Step("streamWaitOUT", "afterStream")

StreamWaitOUT ==
  /\ IsOUTReceived \/ USB_DeviceState = "Unattached"
  /\ Step("streamWaitOUT", "afterStream")

\* USB_Device_GetDescriptor clears the OUT whatever the stream returned.
AfterStream ==
  /\ InMain("afterStream") /\ Goto("tail")
  /\ ClearOUT /\ left' = 0
  /\ UNCHANGED <<PrevEndpoint, libVars, UENUM, enabled, stalled, unread>>
  /\ TaskFrame

\* What follows Endpoint_ClearStatusStage in each handler.
AfterStatus(r) ==
  CASE r.req = "SetAddress"       -> "addrWait"
    [] r.req = "SetConfiguration" -> "cfgCommit"
    [] OTHER                      -> "tail"

\* Mutant: the status packet is not sent.
StatusStageSkipsIN ==
  /\ (IF DeviceToHost(USB_ControlRequest) THEN IsOUTReceived ELSE IsINReady)
       \/ USB_DeviceState = "Unattached"
  /\ OnFlags("statusStage",
             IF DeviceToHost(USB_ControlRequest) THEN ClearOUT ELSE UNCHANGED ep0,
             AfterStatus(USB_ControlRequest))
  /\ UNCHANGED unread

\* Endpoint_ClearStatusStage: the flag waited for is tested before the state.
StatusStage ==
  LET ready == IF DeviceToHost(USB_ControlRequest) THEN IsOUTReceived
                                                   ELSE IsINReady
      ack   == IF DeviceToHost(USB_ControlRequest) THEN ClearOUT ELSE ClearIN
  IN  /\ ready \/ USB_DeviceState = "Unattached"
      /\ OnFlags("statusStage", IF ready THEN ack ELSE UNCHANGED ep0,
                 AfterStatus(USB_ControlRequest))
      /\ UNCHANGED unread

\* Mutant: the address is written without waiting.
AddrAtOnce == Step("addrWait", "addrState")

\* USB_Device_SetAddress waits until the status packet is gone.
AddrWait ==
  /\ IsINReady \/ USB_DeviceState = "Unattached"
  /\ Step("addrWait", IF IsINReady THEN "addrState" ELSE "tail")

SetState(from, s, to) ==
  /\ InMain(from) /\ Goto(to)
  /\ USB_DeviceState' = s
  /\ UNCHANGED <<PrevEndpoint, left, USB_ConfigurationNumber, USB_RemoteWakeupEnabled,
                 USB_ControlRequest, UENUM, enabled, stalled, ep0, unread>>
  /\ TaskFrame

AddrState ==
  SetState("addrState",
           IF USB_ControlRequest.val # 0 THEN "Addressed" ELSE USB_DeviceState,
           "addrWrite")

AddrWrite ==
  /\ InMain("addrWrite") /\ Goto("tail")
  /\ UDADDR' = USB_ControlRequest.val
  /\ UNCHANGED <<PrevEndpoint, left, udien, libVars, intVars, UENUM, frozen, pllOn,
                 epVars, hostVars, ghosts>>

\* USB_Device_SetConfiguration after its status stage: the number is read,
\* then the state written, then the application told.
CfgCommit ==
  Step("cfgCommit", IF USB_ConfigurationNumber # 0 THEN "cfgConfigured"
                                                   ELSE "cfgAddressed")
CfgConfigured == SetState("cfgConfigured", "Configured", "cfgEvent")
CfgAddressed  == SetState("cfgAddressed", "Addressed", "cfgEvent")

\* EVENT_USB_Device_ConfigurationChanged as the demos write it: configure the
\* data endpoints (the last one stays selected), then enable the SOF events.
CfgEvent ==
  /\ InMain("cfgEvent") /\ Goto(IF SOFEvents THEN "sofRead" ELSE "tail")
  /\ IF Endpoints = {} THEN UNCHANGED UENUM ELSE UENUM' \in Endpoints
  /\ enabled' = enabled \cup Endpoints
  /\ stalled' = stalled \ Endpoints
  /\ UNCHANGED <<PrevEndpoint, left, libVars, ep0, unread>>
  /\ TaskFrame

\* UDIEN |= (1 << SOFE) is a load and a store.
SofRead ==
  /\ InMain("sofRead") /\ Goto("sofWrite")
  /\ udien' = enables \ {"VBUS"}
  /\ UNCHANGED <<PrevEndpoint, left, libVars, intVars, regVars, epVars, hostVars, ghosts>>

SofWrite ==
  /\ InMain("sofWrite") /\ Goto("tail")
  /\ enables' = (enables \cap {"VBUS"}) \cup udien \cup {"SOFI"}
  /\ udien' = {}
  /\ UNCHANGED <<PrevEndpoint, left, libVars, isr, flags, regVars, epVars, hostVars, ghosts>>

\* Mutant: a request nobody handled is left pending.
TailIgnores == Step("tail", "restore")

\* The end of ProcessControlRequest: a SETUP still pending is stalled.
Tail ==
  /\ InMain("tail")
  /\ IF IsSETUPReceived
     THEN StallTransaction /\ Goto("tailClear")
     ELSE Goto("restore") /\ UNCHANGED stalled
  /\ UNCHANGED <<PrevEndpoint, left, libVars, UENUM, enabled, ep0, unread>>
  /\ TaskFrame

TailClear ==
  /\ OnFlags("tailClear", ClearSETUP, "restore")
  /\ unread' = (unread /\ ~IsSETUPReceived)

\* Mutant: the endpoint is not restored.
TaskRestoreForgets ==
  /\ InMain("restore") /\ Goto("app")
  /\ PrevEndpoint' = 0
  /\ UNCHANGED <<UENUM, left, libVars, enabled, stalled, ep0, unread>> /\ TaskFrame

\* PrevEndpoint goes out of scope.
TaskRestore ==
  /\ InMain("restore") /\ Goto("app")
  /\ UENUM' = PrevEndpoint /\ PrevEndpoint' = 0
  /\ UNCHANGED <<left, libVars, enabled, stalled, ep0, unread>> /\ TaskFrame

MainStep ==
  \/ TaskEnter \/ ReadHeader \/ StatusSelect \/ StatusRead \/ StatusReselect
  \/ FeatureSelect \/ FeatureCheck \/ FeatureApply \/ FeatureReselect
  \/ AckSETUP \/ SetNumber \/ SendData
  \/ WriteStreamEnds \/ WriteStream \/ StreamWaitOUT \/ AfterStream
  \/ StatusStage \/ AddrWait \/ AddrState \/ AddrWrite
  \/ CfgCommit \/ CfgConfigured \/ CfgAddressed \/ CfgEvent
  \/ SofRead \/ SofWrite \/ Tail \/ TailClear \/ TaskRestore

-----------------------------------------------------------------------------
(* ISR(USB_GEN_vect): five sections, each guarded by its flag and enable.  *)

Pending(f) == f \in flags /\ f \in enables

\* The first section after section i with something to do, 0 if none has: the
\* handler passes over the others in the same step.
SectionAfter(i, fl, en) ==
  LET due(j) == j > i /\ SectionOrder[j] \in fl /\ SectionOrder[j] \in en
  IN  IF due(1) THEN 1 ELSE IF due(2) THEN 2 ELSE IF due(3) THEN 3
      ELSE IF due(4) THEN 4 ELSE IF due(5) THEN 5 ELSE 0

Interrupt ==
  /\ isr = 0 /\ USB_IsInitialized
  /\ isr' = SectionAfter(0, flags, enables) /\ isr' # 0
  /\ UNCHANGED <<mainVars, libVars, flags, enables, regVars, epVars, hostVars, ghosts>>

\* The end of section i, and what it leaves alone unless it says otherwise.
Leave(i) ==
  /\ isr' = SectionAfter(i, flags', enables')
  /\ UNCHANGED <<mainVars, USB_IsInitialized, USB_RemoteWakeupEnabled,
                 USB_ControlRequest, UDADDR, bank, hostVars, appEndpoint>>

OnVBUS ==
  /\ isr = 1
  /\ flags' = flags \ {"VBUS"}
  /\ USB_DeviceState' = IF vbus THEN "Powered" ELSE "Unattached"
  /\ UNCHANGED <<USB_ConfigurationNumber, enables, UENUM, frozen, pllOn,
                 enabled, stalled, ep0, unread, clobbered>> /\ Leave(1)

OnSuspend ==
  /\ isr = 2
  /\ flags' = flags \ {"SUSPEND"}
  /\ enables' = (enables \ {"SUSPEND"}) \cup {"WAKEUP"}
  /\ frozen' = TRUE
  /\ pllOn' = (pllOn /\ MANUAL_PLL)
  /\ USB_DeviceState' = "Suspended"
  /\ UNCHANGED <<USB_ConfigurationNumber, UENUM, enabled, stalled, ep0, unread, clobbered>> /\ Leave(2)

\* Mutant: the clock is unfrozen without its PLL.
OnWakeupWithoutPLL ==
  /\ isr = 3
  /\ frozen' = FALSE
  /\ flags' = flags \ {"WAKEUP"}
  /\ enables' = (enables \ {"WAKEUP"}) \cup {"SUSPEND"}
  /\ USB_DeviceState' = IF USB_ConfigurationNumber # 0 THEN "Configured" ELSE "Addressed"
  /\ UNCHANGED <<USB_ConfigurationNumber, UENUM, pllOn, enabled, stalled, ep0, unread, clobbered>> /\ Leave(3)

OnWakeup ==
  /\ isr = 3
  /\ pllOn' = TRUE
  /\ frozen' = FALSE
  /\ flags' = flags \ {"WAKEUP"}
  /\ enables' = (enables \ {"WAKEUP"}) \cup {"SUSPEND"}
  /\ USB_DeviceState' = IF USB_ConfigurationNumber # 0 THEN "Configured" ELSE "Addressed"
  /\ UNCHANGED <<USB_ConfigurationNumber, UENUM, enabled, stalled, ep0, unread, clobbered>> /\ Leave(3)

\* Mutant: SUSPEND is disabled and WAKEUP forgotten.
OnResetDisarms ==
  /\ isr = 4
  /\ flags' = flags \ {"EORSTI", "SUSPEND"}
  /\ enables' = enables \ {"SUSPEND"}
  /\ USB_DeviceState' = "Default"
  /\ USB_ConfigurationNumber' = 0
  /\ enabled' = {ENDPOINT_CONTROLEP} /\ stalled' = {} /\ ep0' = {"TXINI"}
  /\ UENUM' = ENDPOINT_CONTROLEP
  /\ unread' = FALSE /\ clobbered' = TRUE
  /\ UNCHANGED <<frozen, pllOn>> /\ Leave(4)

\* Mutant: the configuration survives a bus reset.
OnResetKeepsConfiguration ==
  /\ isr = 4
  /\ flags' = flags \ {"EORSTI", "SUSPEND"}
  /\ enables' = (enables \ {"SUSPEND"}) \cup {"WAKEUP"}
  /\ USB_DeviceState' = "Default"
  /\ enabled' = {ENDPOINT_CONTROLEP} /\ stalled' = {} /\ ep0' = {"TXINI"}
  /\ UENUM' = ENDPOINT_CONTROLEP
  /\ unread' = FALSE /\ clobbered' = TRUE
  /\ UNCHANGED <<USB_ConfigurationNumber, frozen, pllOn>> /\ Leave(4)

\* Endpoint_ClearEndpoints, then Endpoint_ConfigureEndpoint of the control
\* endpoint, which stays selected.
OnReset ==
  /\ isr = 4
  /\ flags' = flags \ {"EORSTI", "SUSPEND"}
  /\ enables' = (enables \ {"SUSPEND"}) \cup {"WAKEUP"}
  /\ USB_DeviceState' = "Default"
  /\ USB_ConfigurationNumber' = 0
  /\ enabled' = {ENDPOINT_CONTROLEP} /\ stalled' = {} /\ ep0' = {"TXINI"}
  /\ UENUM' = ENDPOINT_CONTROLEP
  /\ unread' = FALSE /\ clobbered' = TRUE
  /\ UNCHANGED <<frozen, pllOn>> /\ Leave(4)

OnSOF ==
  /\ isr = 5
  /\ flags' = flags \ {"SOFI"}
  /\ UNCHANGED <<USB_DeviceState, USB_ConfigurationNumber, enables, UENUM, frozen,
                 pllOn, enabled, stalled, ep0, unread, clobbered>> /\ Leave(5)

ISRStep == Interrupt \/ OnVBUS \/ OnSuspend \/ OnWakeup \/ OnReset \/ OnSOF

-----------------------------------------------------------------------------
(* The controller's hardware, the cable and the host (external).           *)

HardwareFrame ==
  UNCHANGED <<mainVars, libVars, isr, enables, UENUM, frozen, pllOn, enabled,
              appEndpoint, clobbered>>

\* The device is back in the application and has no interrupt to serve.
Calm == pc = "app" /\ isr = 0 /\ \A f \in Interrupts : ~Pending(f)

\* Nor a request that an unplugged host left behind.
Settled == Calm /\ "RXSTPI" \notin ep0

\* The host may reset or suspend the bus.
MayCutIn == HostPolicy = "any" \/ (xfer = "none" /\ Settled)

\* The host may start a control transfer.
MayAsk == HostPolicy = "any" \/ (xfer = "none" /\ Settled)

Plug ==
  /\ ~vbus /\ vbus' = TRUE
  /\ flags' = IF USB_IsInitialized THEN flags \cup {"VBUS"} ELSE flags
  /\ UNCHANGED <<xfer, hostLeft, hostRunning, hostAddr, hostCfg,
                 UDADDR, stalled, ep0, bank, unread>> /\ HardwareFrame

Unplug ==
  /\ vbus /\ vbus' = FALSE
  /\ flags' = IF USB_IsInitialized THEN flags \cup {"VBUS"} ELSE flags
  /\ HostLosesDevice
  /\ UNCHANGED <<UDADDR, stalled, ep0, bank, unread>> /\ HardwareFrame

\* A non-idle signal on the lines.
LineActivity ==
  /\ vbus /\ USB_IsInitialized /\ "WAKEUP" \notin flags
  /\ flags' = flags \cup {"WAKEUP"}
  /\ UNCHANGED <<UDADDR, stalled, ep0, bank, hostVars, unread>> /\ HardwareFrame

\* Three idle frames on the bus; seen only while the clock runs.
BusIdle ==
  /\ vbus /\ USB_IsInitialized /\ ~frozen /\ "SUSPEND" \notin flags /\ MayCutIn
  /\ flags' = flags \cup {"SUSPEND"}
  /\ UNCHANGED <<UDADDR, stalled, ep0, bank, hostVars, unread>> /\ HardwareFrame

StartOfFrame ==
  /\ vbus /\ USB_IsInitialized /\ ~frozen
  /\ "SOFI" \in enables /\ "SOFI" \notin flags
  /\ flags' = flags \cup {"SOFI"}
  /\ UNCHANGED <<UDADDR, stalled, ep0, bank, hostVars, unread>> /\ HardwareFrame

\* A bus reset: the hardware drops the address, the host starts over.
HostReset ==
  /\ vbus /\ USB_IsInitialized /\ ~frozen /\ MayCutIn
  /\ flags' = flags \cup {"EORSTI"}
  /\ UDADDR' = 0
  /\ hostRunning' = TRUE /\ hostAddr' = 0 /\ hostCfg' = 0 /\ xfer' = "none"
  /\ hostLeft' = 0
  /\ UNCHANGED <<vbus, stalled, ep0, bank, unread>> /\ HardwareFrame

\* The control endpoint can take part in a transaction with the host.
Reachable ==
  /\ vbus /\ hostRunning /\ ~frozen /\ "EORSTI" \notin flags
  /\ ENDPOINT_CONTROLEP \in enabled /\ UDADDR = hostAddr

\* A paced host follows the order of enumeration: an address before a
\* configuration, and no new address for a configured device.
InOrder(r) ==
  HostPolicy = "paced" =>
    /\ r.req = "SetAddress" => hostCfg = 0
    /\ r.req = "SetConfiguration" => hostAddr # 0

\* A SETUP is always accepted, and ends a STALL of the control endpoint.
HostSetup(r) ==
  /\ Reachable /\ MayAsk /\ InOrder(r)
  /\ bank' = r /\ unread' = TRUE
  /\ ep0' = ep0 \cup {"RXSTPI", "TXINI"}
  /\ stalled' = stalled \ {ENDPOINT_CONTROLEP}
  /\ hostLeft' = IF r.req = "GetDescriptor" /\ r.val \in DOMAIN DescriptorPackets
                 THEN Min2(DescriptorPackets[r.val], r.len) ELSE r.len
  /\ xfer' = IF DeviceToHost(r) /\ r.len > 0 THEN "data" ELSE "statusIn"
  /\ UNCHANGED <<vbus, hostRunning, hostAddr, hostCfg, flags, UDADDR>> /\ HardwareFrame

\* A transaction on a control endpoint that is neither stalled nor holding
\* a SETUP for the firmware.
Transaction(stage) ==
  /\ Reachable /\ xfer = stage
  /\ ENDPOINT_CONTROLEP \notin stalled /\ "RXSTPI" \notin ep0
  /\ UNCHANGED <<vbus, hostRunning, flags, UDADDR, stalled, bank, unread>> /\ HardwareFrame

HostTakesData ==
  /\ Transaction("data") /\ "TXINI" \notin ep0
  /\ ep0' = ep0 \cup {"TXINI"}
  /\ hostLeft' = hostLeft - 1
  /\ xfer' = IF hostLeft = 1 THEN "statusOut" ELSE "data"
  /\ UNCHANGED <<hostAddr, hostCfg>>

\* The host has enough data and goes to the status stage early.
HostEndsData ==
  /\ Transaction("data") /\ HostPolicy = "any"
  /\ xfer' = "statusOut"
  /\ UNCHANGED <<hostLeft, hostAddr, hostCfg, ep0>>

HostSendsStatus ==
  /\ Transaction("statusOut") /\ "RXOUTI" \notin ep0
  /\ ep0' = ep0 \cup {"RXOUTI"}
  /\ xfer' = "none"
  /\ UNCHANGED <<hostLeft, hostAddr, hostCfg>>

\* The host sees the status packet: the request took effect.
HostTakesStatus ==
  /\ Transaction("statusIn") /\ "TXINI" \notin ep0
  /\ ep0' = ep0 \cup {"TXINI"}
  /\ xfer' = "none"
  /\ hostAddr' = IF bank.req = "SetAddress" THEN bank.val ELSE hostAddr
  /\ hostCfg' = IF bank.req = "SetConfiguration" THEN bank.val ELSE hostCfg
  /\ UNCHANGED hostLeft

\* Nothing in the code says how soon: the host may see the stall, and go on to
\* its next request, before the refused SETUP is acknowledged or only after.
HostSeesStall ==
  /\ Reachable /\ xfer # "none" /\ ENDPOINT_CONTROLEP \in stalled
  /\ xfer' = "none"
  /\ UNCHANGED <<vbus, hostLeft, hostRunning, hostAddr, hostCfg, flags,
                 UDADDR, stalled, ep0, bank, unread>> /\ HardwareFrame

\* The host completes what it started.
HostProgress ==
  HostTakesData \/ HostSendsStatus \/ HostTakesStatus \/ HostSeesStall

BusEvent ==
  \/ Plug \/ Unplug \/ LineActivity \/ BusIdle \/ StartOfFrame \/ HostReset
  \/ HostEndsData
  \/ \E r \in Requests : HostSetup(r)

Application ==
  USB_Init \/ USB_ShutDown \/ \E e \in EndpointNums : AppSelect(e)

-----------------------------------------------------------------------------
Next == MainStep \/ ISRStep \/ BusEvent \/ HostProgress \/ Application

(***************************************************************************)
(* The processor runs: a handler always finishes, and since an AVR         *)
(* executes at least one instruction of the main program between two       *)
(* handlers, interrupts cannot starve the main program (strong fairness).  *)
(* A host that started a transaction stage finishes it, and while it is    *)
(* busy with the device there is activity on the lines.  Cable, bus        *)
(* events, new requests and the application's choices are not fair.        *)
(***************************************************************************)
Fairness ==
  /\ SF_vars(MainStep)
  /\ WF_vars(ISRStep)
  /\ WF_vars(HostProgress)
  /\ WF_vars(xfer # "none" /\ LineActivity)

Spec == Init /\ [][Next]_vars /\ Fairness

-----------------------------------------------------------------------------
(* Properties.                                                             *)

\* Code that works on the control endpoint's registers finds it selected,
\* although requests select other endpoints on the way and the reset handler
\* reselects behind the main program's back (UENUM is never saved by the ISR).
\* The one exception is the code's: ConfigurationChanged may leave a data
\* endpoint selected, and the test for a SETUP that nobody handled then reads
\* that endpoint's register.  What the test leads to, the stall and the
\* acknowledgement ("tailClear"), is never done to a data endpoint.
ControlSelected ==
  pc \in ControlLabels =>
    \/ UENUM = ENDPOINT_CONTROLEP
    \/ pc = "tail" /\ USB_ControlRequest.req = "SetConfiguration"

\* The controller's clock is frozen only with a wake-up interrupt armed, and
\* of SUSPEND and WAKEUP exactly one is enabled: the three handlers that swap
\* them (suspend, wake-up, reset) never leave a device nobody can wake.
WakeSourceArmed ==
  USB_IsInitialized =>
    /\ frozen => "WAKEUP" \in enables
    /\ "SUSPEND" \in enables <=> "WAKEUP" \notin enables

\* While the interface is up its clock never runs with the PLL off.
ClockHasPLL == USB_IsInitialized /\ ~frozen => pllOn

\* A SETUP the task has read is acknowledged or stalled before the task
\* returns: what is still pending then arrived later.
NoUnansweredSetup ==
  pc \in {"restore", "app"} /\ "RXSTPI" \in ep0 => unread

\* Outside USB_USBTask the application finds the endpoint it selected, unless
\* a bus reset was handled since.
AppEndpointKept ==
  pc = "app" /\ ~clobbered => UENUM = appEndpoint

\* The device answers at a new address only after the host has seen the
\* status stage of its SET ADDRESS request, and at the address it asked for.
AddressAfterStatus ==
  [][hostRunning /\ UDADDR' # UDADDR /\ UDADDR' # 0 => hostAddr = UDADDR']_vars

\* When nothing is in flight the device and the host that enumerates it
\* agree on the address and the configuration.
Quiet == Calm /\ xfer = "none" /\ vbus /\ hostRunning /\ "EORSTI" \notin flags

HostDeviceAgree ==
  Quiet => /\ UDADDR = hostAddr
           /\ USB_ConfigurationNumber = hostCfg
           /\ (USB_DeviceState = "Configured") => hostCfg # 0
           /\ hostCfg # 0 => USB_DeviceState \in {"Configured", "Suspended"}

\* A control transfer the host starts ends: completed, stalled, or given up
\* with the cable or a bus reset.
TransferEnds == (xfer # "none") ~> (xfer = "none")

\* If the device ends up unattached the task does not stay in a wait loop.
UnattachedReleasesTask ==
  <>[](USB_DeviceState = "Unattached") => <>[](pc = "app")

\* DEVICE_STATE_Unattached (Device.h): the device is not connected.  Once
\* the disconnection has been handled the state says so.
UnattachedWithoutVBUS ==
  USB_IsInitialized /\ ~vbus /\ Calm => USB_DeviceState = "Unattached"
=============================================================================
