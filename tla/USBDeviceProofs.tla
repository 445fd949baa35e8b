--------------------------- MODULE USBDeviceProofs ---------------------------
(***************************************************************************)
(* Proofs of the safety invariants of USBDevice.  Each invariant gets one  *)
(* lemma per party (main program, handler, hardware and host, application) *)
(* with one step per action.                                               *)
(***************************************************************************)
EXTENDS USBDevice, TLAPS

\* Where the switch on bRequest can lead, and what each destination knows
\* about the request.
LEMMA DispatchResult ==
  ASSUME NEW r \in Requests
  PROVE  /\ Dispatch(r) \in {"ackSETUP", "statusSelect", "featureSelect",
                             "featureReselect", "tail"}
         /\ Dispatch(r) \in {"statusSelect", "featureSelect"} => r.rcpt = "endpoint"
         /\ r.req = "GetDescriptor" /\ Dispatch(r) = "ackSETUP"
              => r.val \in DOMAIN DescriptorPackets
  BY DEF Dispatch

LEMMA AfterAckResult ==
  ASSUME NEW r
  PROVE  AfterAck(r) \in {"sendData", "writeStream", "setNumber", "statusStage"}
  BY DEF AfterAck

LEMMA AfterStatusResult ==
  ASSUME NEW r
  PROVE  /\ AfterStatus(r) \in {"addrWait", "cfgCommit", "tail"}
         /\ AfterStatus(r) = "addrWait" => r.req = "SetAddress"
         /\ AfterStatus(r) = "cfgCommit" => r.req = "SetConfiguration"
  BY DEF AfterStatus

\* The fields of a request.
LEMMA RequestFields ==
  ASSUME NEW r \in Requests
  PROVE  /\ r.val \in Nat /\ r.idx \in Nat /\ r.len \in Nat
         /\ r.req = "SetAddress" => r.val \in Addresses \cup {0}
         /\ r.rcpt = "endpoint" => r.idx \in EndpointNums
  BY ConstantsAssumption DEF RequestType, EndpointNums, ENDPOINT_CONTROLEP

\* How many packets a request moves.
LEMMA PacketCount ==
  ASSUME NEW r \in Requests, r.val \in DOMAIN DescriptorPackets
  PROVE  /\ Min2(DescriptorPackets[r.val], r.len) \in Nat
         /\ r.len > 0 => Min2(DescriptorPackets[r.val], r.len) > 0
  BY ConstantsAssumption, RequestFields DEF Min2

LEMMA StreamLength ==
  ASSUME NEW r \in Requests, r.val \in DOMAIN DescriptorPackets
  PROVE  StreamPackets(r) \subseteq Nat
  BY PacketCount, RequestFields DEF StreamPackets

-----------------------------------------------------------------------------
(* Type correctness.                                                       *)

\* The steps after the status stage of SET CONFIGURATION.
ConfigLabels ==
  {"cfgCommit", "cfgConfigured", "cfgAddressed", "cfgEvent", "sofRead", "sofWrite"}

\* What the typing of UENUM, UDADDR and hostLeft rests on: each place in the
\* task knows which request it is serving.
RequestAtPC ==
  /\ pc \in {"statusSelect", "featureSelect"} => USB_ControlRequest.rcpt = "endpoint"
  /\ pc \in {"addrWait", "addrState", "addrWrite"} => USB_ControlRequest.req = "SetAddress"
  /\ pc \in ConfigLabels => USB_ControlRequest.req = "SetConfiguration"
  /\ xfer = "data" => hostLeft > 0

TypeInv == TypeOK /\ RequestAtPC

\* The label sets and the other constant sets in TypeOK.
USE DEF Labels, DataEPLabels, SelectLabels, ControlLabels, EventLabels,
        DeviceStates, Interrupts, EP0Flags, EndpointNums, Stages,
        MainTypes, RegisterTypes, HostTypes,
        ENDPOINT_CONTROLEP, Goto

LEMMA TypeInit == ASSUME Init PROVE TypeInv
<1>1. \E r \in Requests : TRUE BY ConstantsAssumption
<1>2. bank \in Requests BY <1>1, Zenon DEF Init
<1>3. MANUAL_PLL \in BOOLEAN BY ConstantsAssumption
<1>4. /\ pc = "app" /\ PrevEndpoint = 0 /\ left = 0 /\ udien = {}
      /\ USB_IsInitialized = FALSE /\ USB_DeviceState = "Unattached"
      /\ USB_ConfigurationNumber = 0 /\ USB_RemoteWakeupEnabled = FALSE
      /\ USB_ControlRequest \in Requests
      /\ isr = 0 /\ flags = {} /\ enables = {}
      /\ UENUM = 0 /\ UDADDR = 0 /\ frozen \in BOOLEAN /\ pllOn \in BOOLEAN
      /\ enabled = {} /\ stalled = {} /\ ep0 = {}
      /\ vbus = FALSE /\ xfer = "none" /\ hostLeft = 0
      /\ hostRunning = FALSE /\ hostAddr = 0 /\ hostCfg = 0
      /\ unread = FALSE /\ appEndpoint = 0 /\ clobbered = FALSE
  BY <1>2, <1>3, Zenon DEF Init
<1>5. RequestAtPC BY <1>4 DEF RequestAtPC, ConfigLabels
<1>6. MainTypes BY <1>4
<1>7. RegisterTypes BY <1>2, <1>4
<1>8. HostTypes BY <1>4
<1> QED BY <1>5, <1>6, <1>7, <1>8 DEF TypeInv, TypeOK

\* Main steps.
LEMMA TypeMain ==
  ASSUME TypeInv, MainStep PROVE TypeInv'
<1> USE DEF TypeInv, TypeOK, RequestAtPC, ConfigLabels, InMain, TaskFrame, mainVars, libVars,
            intVars, regVars, epVars, hostVars, ghosts, OnEP0, IsSETUPReceived,
            IsOUTReceived, IsINReady, ClearFlag, ClearSETUP, ClearOUT, ClearIN
<1>1. CASE TaskEnter BY <1>1 DEF TaskEnter
<1>2. CASE ReadHeader
  <2>1. PICK r \in Requests : /\ USB_ControlRequest' = r
                              /\ pc' = Dispatch(r)
                              /\ USB_RemoteWakeupEnabled' \in BOOLEAN
                              /\ left' \in IF r.req = "GetDescriptor" /\ Dispatch(r) = "ackSETUP"
                                           THEN StreamPackets(r) ELSE {left}
    BY <1>2 DEF ReadHeader
  <2>2. left' \in Nat BY <2>1, DispatchResult, StreamLength
  <2>3. /\ pc' \in Labels
        /\ pc' \in {"statusSelect", "featureSelect"} => USB_ControlRequest'.rcpt = "endpoint"
        /\ pc' \notin {"addrWait", "addrState", "addrWrite"} \cup ConfigLabels
    BY <2>1, DispatchResult
  <2>4. USB_ControlRequest' \in Requests /\ USB_RemoteWakeupEnabled' \in BOOLEAN
    BY <2>1
  <2>5. /\ unread' = FALSE
        /\ UNCHANGED <<PrevEndpoint, USB_DeviceState, USB_ConfigurationNumber,
                       UENUM, enabled, stalled, ep0>>
        /\ TaskFrame
    BY <1>2 DEF ReadHeader
  <2>6. RequestAtPC' BY <2>3, <2>5
  <2>7. MainTypes' BY <2>2, <2>3, <2>4, <2>5
  <2>8. RegisterTypes' BY <2>5
  <2>9. HostTypes' BY <2>5
  <2> QED BY <2>6, <2>7, <2>8, <2>9
<1>3. CASE StatusSelect BY <1>3, RequestFields DEF StatusSelect, Reselect
<1>4. CASE StatusRead BY <1>4 DEF StatusRead, Step
<1>5. CASE StatusReselect BY <1>5 DEF StatusReselect, Reselect
<1>6. CASE FeatureSelect BY <1>6, RequestFields DEF FeatureSelect, Reselect
<1>7. CASE FeatureCheck BY <1>7 DEF FeatureCheck, Step
<1>8. CASE FeatureApply BY <1>8 DEF FeatureApply, StallTransaction
<1>9. CASE FeatureReselect BY <1>9 DEF FeatureReselect, Reselect
<1>10. CASE AckSETUP BY <1>10, AfterAckResult DEF AckSETUP, OnFlags
<1>11. CASE SetNumber BY <1>11, RequestFields DEF SetNumber
<1>12. CASE SendData BY <1>12 DEF SendData, OnFlags
<1>13. CASE WriteStreamEnds BY <1>13 DEF WriteStreamEnds, Step
<1>14. CASE WriteStream
  <2>1. pc' \in {"writeStream", "streamWaitOUT", "afterStream"} BY <1>14 DEF WriteStream
  <2>2. left' \in Nat BY <1>14 DEF WriteStream
  <2>3. ep0' \subseteq EP0Flags BY <1>14 DEF WriteStream
  <2> QED BY <1>14, <2>1, <2>2, <2>3 DEF WriteStream
<1>15. CASE StreamWaitOUT BY <1>15 DEF StreamWaitOUT, Step
<1>16. CASE AfterStream BY <1>16 DEF AfterStream
<1>17. CASE StatusStage
  <2>1. pc' = AfterStatus(USB_ControlRequest) /\ USB_ControlRequest' = USB_ControlRequest
    BY <1>17 DEF StatusStage, OnFlags
  <2>2. ep0' \subseteq EP0Flags BY <1>17 DEF StatusStage, OnFlags
  <2>3. pc' \in {"addrWait", "cfgCommit", "tail"}
        /\ (pc' = "addrWait" => USB_ControlRequest'.req = "SetAddress")
        /\ (pc' = "cfgCommit" => USB_ControlRequest'.req = "SetConfiguration")
    BY <2>1, AfterStatusResult
  <2> QED BY <1>17, <2>2, <2>3 DEF StatusStage, OnFlags
<1>18. CASE AddrWait BY <1>18 DEF AddrWait, Step
<1>19. CASE AddrState BY <1>19 DEF AddrState, SetState
<1>20. CASE AddrWrite BY <1>20, RequestFields DEF AddrWrite
<1>21. CASE CfgCommit BY <1>21 DEF CfgCommit, Step
<1>22. CASE CfgConfigured BY <1>22 DEF CfgConfigured, SetState
<1>23. CASE CfgAddressed BY <1>23 DEF CfgAddressed, SetState
<1>24. CASE CfgEvent BY <1>24 DEF CfgEvent
<1>25. CASE SofRead BY <1>25 DEF SofRead
<1>26. CASE SofWrite BY <1>26 DEF SofWrite
<1>27. CASE Tail BY <1>27 DEF Tail, StallTransaction
<1>28. CASE TailClear BY <1>28 DEF TailClear, OnFlags
<1>29. CASE TaskRestore BY <1>29 DEF TaskRestore
<1> QED
  BY <1>1, <1>2, <1>3, <1>4, <1>5, <1>6, <1>7, <1>8, <1>9, <1>10, <1>11, <1>12,
     <1>13, <1>14, <1>15, <1>16, <1>17, <1>18, <1>19, <1>20, <1>21, <1>22,
     <1>23, <1>24, <1>25, <1>26, <1>27, <1>28, <1>29, Zenon
  DEF MainStep

LEMMA SectionAfterResult ==
  ASSUME NEW i, NEW fl, NEW en
  PROVE  SectionAfter(i, fl, en) \in 0..5
  BY DEF SectionAfter

\* Sections of the interrupt handler.
LEMMA TypeISR ==
  ASSUME TypeInv, ISRStep PROVE TypeInv'
<1> USE DEF TypeInv, TypeOK, RequestAtPC, ConfigLabels, mainVars, libVars, intVars, regVars,
            epVars, hostVars, ghosts, Leave
<1>1. CASE Interrupt BY <1>1, SectionAfterResult DEF Interrupt
<1>2. CASE OnVBUS BY <1>2, SectionAfterResult DEF OnVBUS
<1>3. CASE OnSuspend BY <1>3, SectionAfterResult DEF OnSuspend
<1>4. CASE OnWakeup
  <2>1. RequestAtPC' /\ MainTypes' BY <1>4, SectionAfterResult DEF OnWakeup
  <2>2. RegisterTypes' BY <1>4, SectionAfterResult DEF OnWakeup
  <2>3. HostTypes' BY <1>4, SectionAfterResult DEF OnWakeup
  <2> QED BY <2>1, <2>2, <2>3
<1>5. CASE OnReset
  <2>1. RequestAtPC' /\ MainTypes' BY <1>5, SectionAfterResult DEF OnReset
  <2>2. RegisterTypes' BY <1>5, SectionAfterResult DEF OnReset
  <2>3. HostTypes' BY <1>5, SectionAfterResult DEF OnReset
  <2> QED BY <2>1, <2>2, <2>3
<1>6. CASE OnSOF BY <1>6, SectionAfterResult DEF OnSOF
<1> QED BY <1>1, <1>2, <1>3, <1>4, <1>5, <1>6 DEF ISRStep

\* Cable, bus and host.
LEMMA TypeHost ==
  ASSUME TypeInv, BusEvent \/ HostProgress PROVE TypeInv'
<1> USE DEF TypeInv, TypeOK, RequestAtPC, ConfigLabels, HardwareFrame, HostLosesDevice,
            mainVars, libVars, hostVars
<1>1. CASE Plug BY <1>1 DEF Plug
<1>2. CASE Unplug
  <2>1. RequestAtPC' /\ MainTypes' BY <1>2 DEF Unplug
  <2>2. RegisterTypes' BY <1>2 DEF Unplug
  <2>3. HostTypes' BY <1>2 DEF Unplug
  <2> QED BY <2>1, <2>2, <2>3
<1>3. CASE LineActivity BY <1>3 DEF LineActivity
<1>4. CASE BusIdle BY <1>4 DEF BusIdle
<1>5. CASE StartOfFrame BY <1>5 DEF StartOfFrame
<1>6. CASE HostReset BY <1>6 DEF HostReset
<1>7. CASE HostEndsData BY <1>7 DEF HostEndsData, Transaction
<1>8. ASSUME NEW r \in Requests, HostSetup(r) PROVE TypeInv'
  <2>1. hostLeft' \in Nat /\ (xfer' = "data" => hostLeft' > 0)
    <3>1. CASE r.req = "GetDescriptor" /\ r.val \in DOMAIN DescriptorPackets
      BY <1>8, <3>1, PacketCount DEF HostSetup
    <3>2. CASE ~(r.req = "GetDescriptor" /\ r.val \in DOMAIN DescriptorPackets)
      BY <1>8, <3>2, RequestFields DEF HostSetup
    <3> QED BY <3>1, <3>2
  <2>2. xfer' \in Stages /\ bank' \in Requests BY <1>8 DEF HostSetup
  <2> QED BY <1>8, <2>1, <2>2 DEF HostSetup
<1>9. CASE HostTakesData BY <1>9 DEF HostTakesData, Transaction
<1>10. CASE HostSendsStatus BY <1>10 DEF HostSendsStatus, Transaction
<1>11. CASE HostTakesStatus BY <1>11, RequestFields DEF HostTakesStatus, Transaction
<1>12. CASE HostSeesStall BY <1>12 DEF HostSeesStall
<1> QED
  BY <1>1, <1>2, <1>3, <1>4, <1>5, <1>6, <1>7, <1>8, <1>9, <1>10, <1>11, <1>12
  DEF BusEvent, HostProgress

\* The application's calls.
LEMMA TypeApplication ==
  ASSUME TypeInv, Application PROVE TypeInv'
<1> USE DEF TypeInv, TypeOK, RequestAtPC, ConfigLabels, ResetInterface, HostLosesDevice, InMain,
            mainVars, libVars, intVars, epVars, hostVars
<1>1. CASE USB_Init BY <1>1 DEF USB_Init
<1>2. CASE USB_ShutDown BY <1>2, ConstantsAssumption DEF USB_ShutDown
<1>3. ASSUME NEW e \in EndpointNums, AppSelect(e) PROVE TypeInv'
  <2>1. RequestAtPC' /\ MainTypes' BY <1>3 DEF AppSelect
  <2>2. RegisterTypes' BY <1>3 DEF AppSelect
  <2>3. HostTypes' BY <1>3 DEF AppSelect
  <2> QED BY <2>1, <2>2, <2>3
<1> QED BY <1>1, <1>2, <1>3 DEF Application

LEMMA TypeNext == TypeInv /\ [Next]_vars => TypeInv'
<1>1. CASE TypeInv /\ UNCHANGED vars
  BY <1>1 DEF TypeInv, TypeOK, RequestAtPC, ConfigLabels, vars, mainVars, libVars, intVars,
              regVars, epVars, hostVars, ghosts
<1> QED BY <1>1, TypeMain, TypeISR, TypeHost, TypeApplication DEF Next

LEMMA TypeInvariant == Spec => []TypeInv
  BY TypeInit, TypeNext, PTL DEF Spec

\* Every variable keeps its type; in particular the endpoint numbers and the
\* address the task takes from a request are ones the controller has.
THEOREM TypeCorrect == Spec => []TypeOK
<1>1. TypeInv => TypeOK BY DEF TypeInv
<1> QED BY <1>1, TypeInvariant, PTL

-----------------------------------------------------------------------------
(* The selected endpoint and the SETUP packet.                             *)

\* The endpoint the application selected is in UENUM or saved in the task.
EndpointSaved ==
  ~clobbered => IF pc = "app" THEN UENUM = appEndpoint ELSE PrevEndpoint = appEndpoint

\* Where a SETUP can be that was read and not yet acknowledged or stalled.
Answering == SelectLabels \cup DataEPLabels \cup {"ackSETUP"}

SetupHeld ==
  "RXSTPI" \in ep0 /\ ~unread =>
    pc \in Answering \/ (pc \in {"tail", "tailClear"} /\ OnEP0)

TaskInv == ControlSelected /\ EndpointSaved /\ SetupHeld

LEMMA TaskInit == Init => TaskInv
  BY DEF Init, TaskInv, ControlSelected, EndpointSaved, SetupHeld, Answering

LEMMA TaskMain ==
  ASSUME TypeInv, TaskInv, MainStep PROVE TaskInv'
<1> USE DEF TypeInv, TypeOK, RequestAtPC, ConfigLabels,
            TaskInv, ControlSelected, EndpointSaved, SetupHeld, Answering,
            InMain, TaskFrame, mainVars, libVars, intVars, regVars, epVars, hostVars,
            ghosts, OnEP0, IsSETUPReceived, IsOUTReceived, IsINReady, ClearFlag,
            ClearSETUP, ClearOUT, ClearIN, StallTransaction
<1>1. CASE TaskEnter BY <1>1 DEF TaskEnter
<1>2. CASE ReadHeader
  <2>1. PICK r \in Requests : pc' = Dispatch(r) BY <1>2 DEF ReadHeader
  <2>2. pc' \in {"ackSETUP", "statusSelect", "featureSelect", "featureReselect", "tail"}
    BY <2>1, DispatchResult
  <2>3. pc = "read" /\ UNCHANGED <<PrevEndpoint, UENUM, ep0, clobbered, appEndpoint>>
    BY <1>2 DEF ReadHeader
  <2> QED BY <2>2, <2>3
<1>3. CASE StatusSelect BY <1>3 DEF StatusSelect, Reselect
<1>4. CASE StatusRead BY <1>4 DEF StatusRead, Step
<1>5. CASE StatusReselect BY <1>5 DEF StatusReselect, Reselect
<1>6. CASE FeatureSelect BY <1>6 DEF FeatureSelect, Reselect
<1>7. CASE FeatureCheck BY <1>7 DEF FeatureCheck, Step
<1>8. CASE FeatureApply BY <1>8 DEF FeatureApply
<1>9. CASE FeatureReselect BY <1>9 DEF FeatureReselect, Reselect
<1>10. CASE AckSETUP BY <1>10, AfterAckResult DEF AckSETUP, OnFlags
<1>11. CASE SetNumber BY <1>11 DEF SetNumber
<1>12. CASE SendData BY <1>12 DEF SendData, OnFlags
<1>13. CASE WriteStreamEnds BY <1>13 DEF WriteStreamEnds, Step
<1>14. CASE WriteStream BY <1>14 DEF WriteStream
<1>15. CASE StreamWaitOUT BY <1>15 DEF StreamWaitOUT, Step
<1>16. CASE AfterStream BY <1>16 DEF AfterStream
<1>17. CASE StatusStage BY <1>17, AfterStatusResult DEF StatusStage, OnFlags
<1>18. CASE AddrWait BY <1>18 DEF AddrWait, Step
<1>19. CASE AddrState BY <1>19 DEF AddrState, SetState
<1>20. CASE AddrWrite BY <1>20 DEF AddrWrite
<1>21. CASE CfgCommit BY <1>21 DEF CfgCommit, Step
<1>22. CASE CfgConfigured BY <1>22 DEF CfgConfigured, SetState
<1>23. CASE CfgAddressed BY <1>23 DEF CfgAddressed, SetState
<1>24. CASE CfgEvent BY <1>24 DEF CfgEvent
<1>25. CASE SofRead BY <1>25 DEF SofRead
<1>26. CASE SofWrite BY <1>26 DEF SofWrite
<1>27. CASE Tail BY <1>27 DEF Tail
<1>28. CASE TailClear BY <1>28 DEF TailClear, OnFlags
<1>29. CASE TaskRestore BY <1>29 DEF TaskRestore
<1> QED
  BY <1>1, <1>2, <1>3, <1>4, <1>5, <1>6, <1>7, <1>8, <1>9, <1>10, <1>11, <1>12,
     <1>13, <1>14, <1>15, <1>16, <1>17, <1>18, <1>19, <1>20, <1>21, <1>22,
     <1>23, <1>24, <1>25, <1>26, <1>27, <1>28, <1>29, Zenon
  DEF MainStep

LEMMA TaskISR ==
  ASSUME TypeInv, TaskInv, ISRStep PROVE TaskInv'
<1> USE DEF TaskInv, ControlSelected, EndpointSaved, SetupHeld, Answering, OnEP0,
            mainVars, libVars, regVars, epVars, hostVars, ghosts, Leave
<1>1. CASE OnReset BY <1>1 DEF OnReset
<1>2. CASE Interrupt \/ OnVBUS \/ OnSuspend \/ OnWakeup \/ OnSOF
  BY <1>2 DEF Interrupt, OnVBUS, OnSuspend, OnWakeup, OnSOF
<1> QED BY <1>1, <1>2 DEF ISRStep

LEMMA TaskHost ==
  ASSUME TypeInv, TaskInv, BusEvent \/ HostProgress PROVE TaskInv'
<1> USE DEF TaskInv, ControlSelected, EndpointSaved, SetupHeld, Answering, OnEP0,
            HardwareFrame, mainVars, libVars, hostVars
<1>1. CASE Plug \/ Unplug \/ LineActivity \/ BusIdle \/ StartOfFrame \/ HostReset
  BY <1>1 DEF Plug, Unplug, LineActivity, BusIdle, StartOfFrame, HostReset
<1>2. ASSUME NEW r \in Requests, HostSetup(r) PROVE TaskInv' BY <1>2 DEF HostSetup
<1>3. CASE HostEndsData \/ HostTakesData \/ HostSendsStatus \/ HostTakesStatus
  BY <1>3 DEF HostEndsData, HostTakesData, HostSendsStatus, HostTakesStatus, Transaction
<1>4. CASE HostSeesStall BY <1>4 DEF HostSeesStall
<1> QED BY <1>1, <1>2, <1>3, <1>4 DEF BusEvent, HostProgress

LEMMA TaskApplication ==
  ASSUME TypeInv, TaskInv, Application PROVE TaskInv'
<1> USE DEF TaskInv, ControlSelected, EndpointSaved, SetupHeld, Answering, OnEP0,
            ResetInterface, InMain, mainVars, libVars, intVars, epVars
<1>1. CASE USB_Init BY <1>1 DEF USB_Init
<1>2. CASE USB_ShutDown BY <1>2 DEF USB_ShutDown
<1>3. ASSUME NEW e \in EndpointNums, AppSelect(e) PROVE TaskInv' BY <1>3 DEF AppSelect
<1> QED BY <1>1, <1>2, <1>3 DEF Application

LEMMA TaskNext == TypeInv /\ TaskInv /\ [Next]_vars => TaskInv'
<1>1. CASE TaskInv /\ UNCHANGED vars
  BY <1>1 DEF TaskInv, ControlSelected, EndpointSaved, SetupHeld, Answering, OnEP0,
              vars, mainVars, libVars, regVars, epVars, ghosts
<1> QED BY <1>1, TaskMain, TaskISR, TaskHost, TaskApplication DEF Next

LEMMA TaskInvariant == Spec => []TaskInv
  BY TaskInit, TaskNext, TypeInvariant, PTL DEF Spec

\* Code that works on the control endpoint finds it selected, whatever other
\* endpoints a request visits and whatever interrupts arrive, but for the last
\* test for a SETUP after SET CONFIGURATION.
THEOREM ControlEndpointSelected == Spec => []ControlSelected
<1>1. TaskInv => ControlSelected BY DEF TaskInv
<1> QED BY <1>1, TaskInvariant, PTL

\* No SETUP the task has read outlives the call of the task.
THEOREM EverySetupAnswered == Spec => []NoUnansweredSetup
<1>1. TaskInv => NoUnansweredSetup
  BY DEF TaskInv, SetupHeld, Answering, NoUnansweredSetup
<1> QED BY <1>1, TaskInvariant, PTL

\* Without a bus reset the application's endpoint survives the task.
THEOREM ApplicationEndpointKept == Spec => []AppEndpointKept
<1>1. TaskInv => AppEndpointKept BY DEF TaskInv, EndpointSaved, AppEndpointKept
<1> QED BY <1>1, TaskInvariant, PTL

-----------------------------------------------------------------------------
(* The clock and its wake-up interrupt.                                    *)

\* The task never touches the clock, and the interrupt enables only in the
\* two steps of USB_INT_Enable.
LEMMA MainLeavesClock ==
  ASSUME MainStep
  PROVE  /\ UNCHANGED <<USB_IsInitialized, frozen, pllOn>>
         /\ pc # "sofWrite" => UNCHANGED enables
  BY DEF MainStep, TaskEnter, ReadHeader, StatusSelect, StatusRead, StatusReselect,
         FeatureSelect, FeatureCheck, FeatureApply, FeatureReselect, AckSETUP,
         SetNumber, SendData, WriteStreamEnds, WriteStream, StreamWaitOUT,
         AfterStream, StatusStage, AddrWait, AddrState, AddrWrite, CfgCommit,
         CfgConfigured, CfgAddressed, CfgEvent, SofRead, SofWrite, Tail, TailClear,
         TaskRestore, Step, Reselect, OnFlags, SetState, TaskFrame, InMain,
         libVars, intVars, regVars

\* Nor do the host, the cable and the bus, nor the application's selections.
LEMMA HostLeavesClock ==
  ASSUME BusEvent \/ HostProgress \/ \E e \in EndpointNums : AppSelect(e)
  PROVE  UNCHANGED <<USB_IsInitialized, frozen, pllOn, enables, pc>>
  BY DEF BusEvent, HostProgress, Plug, Unplug, LineActivity, BusIdle, StartOfFrame,
         HostReset, HostEndsData, HostSetup, HostTakesData, HostSendsStatus,
         HostTakesStatus, HostSeesStall, Transaction, AppSelect, HardwareFrame,
         mainVars, libVars, intVars

LEMMA PLLNext == ClockHasPLL /\ [Next]_vars => ClockHasPLL'
<1> SUFFICES ASSUME ClockHasPLL, [Next]_vars PROVE ClockHasPLL' OBVIOUS
<1> USE DEF ClockHasPLL
<1>1. CASE MainStep BY <1>1, MainLeavesClock
<1>2. CASE ISRStep
  BY <1>2 DEF ISRStep, Interrupt, OnVBUS, OnSuspend, OnWakeup, OnReset, OnSOF,
              Leave, libVars, regVars
<1>3. CASE USB_Init \/ USB_ShutDown BY <1>3 DEF USB_Init, USB_ShutDown
<1>4. CASE BusEvent \/ HostProgress \/ \E e \in EndpointNums : AppSelect(e)
  BY <1>4, HostLeavesClock
<1>5. CASE UNCHANGED vars BY <1>5 DEF vars, libVars, regVars
<1> QED BY <1>1, <1>2, <1>3, <1>4, <1>5 DEF Next, Application

\* Whatever order suspend, wake-up and reset are handled in, a clock that runs
\* has its PLL.
THEOREM ClockNeverWithoutPLL == Spec => []ClockHasPLL
<1>1. Init => ClockHasPLL BY DEF Init, ClockHasPLL
<1> QED BY <1>1, PLLNext, PTL DEF Spec

\* Without SOF events the task writes no interrupt enable.
NoSofSteps == pc \notin {"sofRead", "sofWrite"}

LEMMA NoSofStepsNext ==
  ASSUME ~SOFEvents, TypeOK, NoSofSteps, [Next]_vars PROVE NoSofSteps'
<1> USE DEF NoSofSteps, mainVars
<1>1. CASE ReadHeader
  <2>1. PICK r \in Requests : pc' = Dispatch(r) BY <1>1 DEF ReadHeader, TypeOK
  <2> QED BY <2>1, DispatchResult
<1>2. CASE AckSETUP BY <1>2, AfterAckResult DEF AckSETUP, OnFlags
<1>3. CASE StatusStage BY <1>3, AfterStatusResult DEF StatusStage, OnFlags
<1>4. CASE MainStep /\ ~ReadHeader /\ ~AckSETUP /\ ~StatusStage
  BY <1>4
  DEF MainStep, TaskEnter, StatusSelect, StatusRead, StatusReselect,
      FeatureSelect, FeatureCheck, FeatureApply, FeatureReselect,
      SetNumber, SendData, WriteStreamEnds, WriteStream, StreamWaitOUT,
      AfterStream, AddrWait, AddrState, AddrWrite, CfgCommit,
      CfgConfigured, CfgAddressed, CfgEvent, SofRead, SofWrite, Tail, TailClear,
      TaskRestore, Step, Reselect, OnFlags, SetState, InMain
<1>5. CASE ISRStep
  BY <1>5 DEF ISRStep, Interrupt, OnVBUS, OnSuspend, OnWakeup, OnReset, OnSOF, Leave
<1>6. CASE USB_Init \/ USB_ShutDown BY <1>6 DEF USB_Init, USB_ShutDown
<1>7. CASE BusEvent \/ HostProgress \/ \E e \in EndpointNums : AppSelect(e)
  BY <1>7, HostLeavesClock
<1>8. CASE UNCHANGED vars BY <1>8 DEF vars
<1> QED BY <1>1, <1>2, <1>3, <1>4, <1>5, <1>6, <1>7, <1>8 DEF Next, Application

LEMMA WakeNext ==
  ASSUME NoSofSteps, WakeSourceArmed, [Next]_vars PROVE WakeSourceArmed'
<1> USE DEF WakeSourceArmed
<1>1. CASE MainStep BY <1>1, MainLeavesClock DEF NoSofSteps
<1>2. CASE ISRStep
  BY <1>2 DEF ISRStep, Interrupt, OnVBUS, OnSuspend, OnWakeup, OnReset, OnSOF,
              Leave, libVars, regVars
<1>3. CASE USB_Init \/ USB_ShutDown
  BY <1>3 DEF USB_Init, USB_ShutDown, ResetInterface
<1>4. CASE BusEvent \/ HostProgress \/ \E e \in EndpointNums : AppSelect(e)
  BY <1>4, HostLeavesClock
<1>5. CASE UNCHANGED vars BY <1>5 DEF vars, libVars, intVars, regVars
<1> QED BY <1>1, <1>2, <1>3, <1>4, <1>5 DEF Next, Application

\* An application that never enables the SOF interrupt can always be woken.
\* (With SOF events this is false: the store of UDIEN in the main program
\* undoes what a handler did between its load and that store.)
THEOREM WakeUpArmed == ASSUME ~SOFEvents PROVE Spec => []WakeSourceArmed
<1>1. Init => NoSofSteps /\ WakeSourceArmed
  BY DEF Init, NoSofSteps, WakeSourceArmed
<1>2. TypeOK /\ NoSofSteps /\ WakeSourceArmed /\ [Next]_vars
        => NoSofSteps' /\ WakeSourceArmed'
  BY NoSofStepsNext, WakeNext
<1> QED BY <1>1, <1>2, TypeCorrect, PTL DEF Spec

-----------------------------------------------------------------------------
(* The host that enumerates the device.  Both sides change the address and *)
(* the configuration at different times of a transfer, so the invariant    *)
(* follows the transfer: where its SETUP is, who is to move in the status  *)
(* stage, and which side is ahead meanwhile.                               *)

\* The requests that change what the two sides must agree on.
Sets == {"SetAddress", "SetConfiguration"}

\* The handlers of the other requests, and that of an address.
OtherLabels == SelectLabels \cup DataEPLabels
                 \cup {"sendData", "writeStream", "streamWaitOUT", "afterStream"}
AddrLabels  == {"addrWait", "addrState", "addrWrite"}

\* The VBUS section runs only for a change of VBUS, and such a change ends the
\* host's session; the reset section runs only for a reset.
CableKnown ==
  /\ isr = 1 => "VBUS" \in flags
  /\ isr = 4 => "EORSTI" \in flags
  /\ USB_IsInitialized => "VBUS" \in enables
  /\ hostRunning => vbus /\ "VBUS" \notin flags

\* From the reset on the bus until the handler has served it.
Starting ==
  /\ UDADDR = 0 /\ hostAddr = 0 /\ hostCfg = 0 /\ xfer = "none"
  /\ "RXSTPI" \notin ep0 /\ pc \in {"app", "restore"}

\* The request in the bank is the one being served.
RequestServed ==
  /\ pc \notin {"app", "read", "restore"} => USB_ControlRequest = bank
  /\ pc \in OtherLabels => bank.req \notin Sets
  /\ pc = "setNumber" => bank.req = "SetConfiguration"
  /\ pc \in AddrLabels => bank.req = "SetAddress"
  /\ bank.req = "SetAddress" => hostCfg = 0
  /\ bank.req \in Sets => xfer \in {"none", "statusIn"}

\* Where its SETUP can be pending.
SetupPending ==
  /\ "RXSTPI" \in ep0 => pc \in {"app", "read", "tail", "tailClear"} \cup Answering
  /\ pc \in {"read"} \cup Answering => "RXSTPI" \in ep0
  /\ pc \in {"tail", "tailClear"} /\ "RXSTPI" \in ep0 => OnEP0

\* The status stage of such a request: it waits for the firmware, is refused
\* with a stall, or is on its way to the host.
StatusPending ==
  bank.req \in Sets =>
    /\ ("RXSTPI" \in ep0 /\ pc # "tailClear") \/ pc \in {"setNumber", "statusStage"}
         => xfer = "statusIn" /\ "TXINI" \in ep0 /\ ENDPOINT_CONTROLEP \notin stalled
    /\ ENDPOINT_CONTROLEP \in stalled
         => "TXINI" \in ep0 /\ pc \in {"tailClear", "restore", "app"}
    /\ bank.req = "SetAddress" /\ xfer = "statusIn" /\ "TXINI" \notin ep0 => pc = "addrWait"

AddressAgrees ==
  /\ pc \in {"addrState", "addrWrite"} => xfer = "none"
  /\ pc = "addrWait" => IF "TXINI" \in ep0 THEN xfer = "none" ELSE xfer = "statusIn"
  /\ IF pc \in AddrLabels /\ xfer = "none" THEN hostAddr = bank.val ELSE hostAddr = UDADDR

\* The device has stored a configuration the host does not yet know of.
Ahead ==
  /\ bank.req = "SetConfiguration" /\ xfer = "statusIn"
  /\ pc = "statusStage" \/ "TXINI" \notin ep0

ConfigurationAgrees ==
  USB_ConfigurationNumber = IF Ahead THEN bank.val ELSE hostCfg

\* The number has changed, and the state is still to follow.
StateBehind ==
  \/ pc \in {"cfgCommit", "cfgConfigured", "cfgAddressed"}
  \/ pc = "statusStage" /\ bank.req = "SetConfiguration"

StateAgrees ==
  /\ USB_DeviceState # "Unattached"
  /\ pc = "cfgConfigured" => USB_ConfigurationNumber # 0
  /\ pc = "cfgAddressed"  => USB_ConfigurationNumber = 0
  /\ ~StateBehind => /\ USB_DeviceState = "Configured" => USB_ConfigurationNumber # 0
                     /\ USB_ConfigurationNumber # 0
                          => USB_DeviceState \in {"Configured", "Suspended"}

Agreeing ==
  /\ RequestServed /\ SetupPending /\ StatusPending
  /\ AddressAgrees /\ ConfigurationAgrees /\ StateAgrees

AgreeInv ==
  /\ CableKnown
  /\ hostRunning /\ "EORSTI" \in flags => Starting
  /\ hostRunning /\ "EORSTI" \notin flags => Agreeing

HIDE DEF Labels, DataEPLabels, SelectLabels, ControlLabels, EventLabels,
         DeviceStates, Interrupts, EP0Flags, EndpointNums, Stages,
         MainTypes, RegisterTypes, HostTypes

\* Where the switches lead with the requests that set something.
LEMMA DispatchSets ==
  ASSUME NEW r
  PROVE  /\ Dispatch(r) \in {"ackSETUP", "statusSelect", "featureSelect",
                             "featureReselect", "tail"}
         /\ r.req \in Sets => Dispatch(r) \in {"ackSETUP", "tail"}
  BY DEF Dispatch, Sets

LEMMA AfterAckSets ==
  ASSUME NEW r
  PROVE  /\ AfterAck(r) \in {"sendData", "writeStream", "setNumber", "statusStage"}
         /\ r.req \in Sets => AfterAck(r) \in {"setNumber", "statusStage"}
         /\ AfterAck(r) = "setNumber" <=> r.req = "SetConfiguration"
  BY DEF AfterAck, Sets

LEMMA AfterStatusSets ==
  ASSUME NEW r
  PROVE  /\ AfterStatus(r) \in {"addrWait", "cfgCommit", "tail"}
         /\ AfterStatus(r) = "addrWait" <=> r.req = "SetAddress"
         /\ AfterStatus(r) = "cfgCommit" <=> r.req = "SetConfiguration"
         /\ r.req \in Sets => ~DeviceToHost(r)
  BY DEF AfterStatus, Sets, DeviceToHost

\* A main step, while the session goes on.
LEMMA AgreeingMain ==
  ASSUME TypeInv, ControlSelected, Agreeing, MainStep PROVE Agreeing'
<1> USE DEF Goto, InMain, TaskFrame, mainVars, libVars, intVars, regVars, epVars, hostVars, ghosts,
            OnEP0, IsSETUPReceived, IsOUTReceived, IsINReady, ClearFlag, ClearSETUP, ClearOUT,
            ClearIN, StallTransaction, SelectLabels, DataEPLabels, Answering, Sets, OtherLabels,
            AddrLabels, Agreeing, RequestServed, SetupPending, StatusPending, AddressAgrees,
            Ahead, ConfigurationAgrees, StateBehind, StateAgrees
<1>1. CASE TaskEnter BY <1>1 DEF TaskEnter
<1>2. CASE ReadHeader 
  <2>1. pc = "read" /\ IsSETUPReceived  BY <1>2 DEF ReadHeader, ControlSelected, ControlLabels
  <2>2. USB_ControlRequest' = bank /\ pc' = Dispatch(bank)  BY <1>2, <2>1 DEF ReadHeader
  <2>3. UNCHANGED <<USB_DeviceState, USB_ConfigurationNumber, UENUM, UDADDR, stalled, ep0, bank,
                    hostVars>>
    BY <1>2 DEF ReadHeader
  <2> QED  BY <2>1, <2>2, <2>3, DispatchSets
<1>3. CASE StatusSelect BY <1>3 DEF StatusSelect, Reselect
<1>4. CASE StatusRead BY <1>4 DEF StatusRead, Step
<1>5. CASE StatusReselect BY <1>5 DEF StatusReselect, Reselect
<1>6. CASE FeatureSelect BY <1>6 DEF FeatureSelect, Reselect
<1>7. CASE FeatureCheck BY <1>7 DEF FeatureCheck, Step
<1>8. CASE FeatureApply BY <1>8 DEF FeatureApply
<1>9. CASE FeatureReselect BY <1>9 DEF FeatureReselect, Reselect
<1>10. CASE AckSETUP 
  <2>1. pc = "ackSETUP" /\ OnEP0  BY <1>10 DEF AckSETUP, OnFlags, ControlSelected, ControlLabels
  <2>2. ep0' = ep0 \ {"RXSTPI"} /\ pc' = AfterAck(bank) /\ USB_ControlRequest' = bank
    BY <1>10, <2>1 DEF AckSETUP, OnFlags
  <2>3. UNCHANGED <<USB_DeviceState, USB_ConfigurationNumber, UENUM, UDADDR, stalled, bank,
                    hostVars>>
    BY <1>10 DEF AckSETUP, OnFlags
  <2> QED  BY <2>1, <2>2, <2>3, AfterAckSets
<1>11. CASE SetNumber BY <1>11 DEF SetNumber
<1>12. CASE SendData BY <1>12 DEF SendData, OnFlags
<1>13. CASE WriteStreamEnds BY <1>13 DEF WriteStreamEnds, Step
<1>14. CASE WriteStream BY <1>14 DEF WriteStream
<1>15. CASE StreamWaitOUT BY <1>15 DEF StreamWaitOUT, Step
<1>16. CASE AfterStream BY <1>16 DEF AfterStream
<1>17. CASE StatusStage 
  <2>1. pc = "statusStage" /\ OnEP0
    BY <1>17 DEF StatusStage, OnFlags, ControlSelected, ControlLabels
  <2>2. pc' = AfterStatus(bank) /\ USB_ControlRequest' = bank
    BY <1>17, <2>1 DEF StatusStage, OnFlags
  <2>3. UNCHANGED <<USB_DeviceState, USB_ConfigurationNumber, UENUM, UDADDR, stalled, bank,
                    hostVars>>
    BY <1>17 DEF StatusStage, OnFlags
  <2>4. "RXSTPI" \in ep0' <=> "RXSTPI" \in ep0  BY <1>17 DEF StatusStage, OnFlags
  <2>5. CASE bank.req \in Sets
    <3>1. ep0' = ep0 \ {"TXINI"}  BY <1>17, <2>1, <2>5, AfterStatusSets DEF StatusStage, OnFlags
    <3> QED  BY <2>1, <2>2, <2>3, <2>5, <3>1, AfterStatusSets
  <2>6. CASE bank.req \notin Sets
    BY <2>1, <2>2, <2>3, <2>4, <2>6, AfterStatusSets
  <2> QED  BY <2>5, <2>6
<1>18. CASE AddrWait BY <1>18 DEF AddrWait, Step
<1>19. CASE AddrState BY <1>19 DEF AddrState, SetState
<1>20. CASE AddrWrite BY <1>20 DEF AddrWrite
<1>21. CASE CfgCommit BY <1>21 DEF CfgCommit, Step
<1>22. CASE CfgConfigured BY <1>22 DEF CfgConfigured, SetState
<1>23. CASE CfgAddressed BY <1>23 DEF CfgAddressed, SetState
<1>24. CASE CfgEvent BY <1>24 DEF CfgEvent
<1>25. CASE SofRead BY <1>25 DEF SofRead
<1>26. CASE SofWrite BY <1>26 DEF SofWrite
<1>27. CASE Tail BY <1>27 DEF Tail
<1>28. CASE TailClear BY <1>28 DEF TailClear, OnFlags
<1>29. CASE TaskRestore BY <1>29 DEF TaskRestore
<1> QED
  BY <1>1, <1>2, <1>3, <1>4, <1>5, <1>6, <1>7, <1>8, <1>9, <1>10, <1>11, <1>12, <1>13, <1>14,
     <1>15, <1>16, <1>17, <1>18, <1>19, <1>20, <1>21, <1>22, <1>23, <1>24, <1>25, <1>26,
     <1>27, <1>28, <1>29, Zenon DEF MainStep

LEMMA MainLeavesHost ==
  ASSUME MainStep
  PROVE  /\ UNCHANGED <<isr, flags, bank, vbus, xfer, hostRunning, hostAddr, hostCfg,
                         USB_IsInitialized>>
         /\ "VBUS" \in enables => "VBUS" \in enables'
  BY DEF MainStep, TaskEnter, ReadHeader, StatusSelect, StatusRead, StatusReselect,
         FeatureSelect, FeatureCheck, FeatureApply, FeatureReselect, AckSETUP,
         SetNumber, SendData, WriteStreamEnds, WriteStream, StreamWaitOUT,
         AfterStream, StatusStage, AddrWait, AddrState, AddrWrite, CfgCommit,
         CfgConfigured, CfgAddressed, CfgEvent, SofRead, SofWrite, Tail, TailClear,
         TaskRestore, Step, Reselect, OnFlags, SetState, TaskFrame,
         libVars, intVars, regVars, epVars, hostVars

\* In the middle of a reset the task only comes and goes.
LEMMA StartingMain == ASSUME Starting, MainStep PROVE Starting'
<1>1. pc \in {"app", "restore"} /\ "RXSTPI" \notin ep0  BY DEF Starting
<1>2. TaskEnter \/ TaskRestore
  BY <1>1
  DEF MainStep, ReadHeader, StatusSelect, StatusRead, StatusReselect,
      FeatureSelect, FeatureCheck, FeatureApply, FeatureReselect, AckSETUP,
      SetNumber, SendData, WriteStreamEnds, WriteStream, StreamWaitOUT,
      AfterStream, StatusStage, AddrWait, AddrState, AddrWrite, CfgCommit,
      CfgConfigured, CfgAddressed, CfgEvent, SofRead, SofWrite, Tail, TailClear,
      Step, Reselect, OnFlags, SetState, InMain
<1>3. UNCHANGED <<UDADDR, ep0>>  BY <1>2 DEF TaskEnter, TaskRestore, TaskFrame
<1>4. pc' \in {"app", "restore"}  BY <1>1, <1>2 DEF TaskEnter, TaskRestore, Goto
<1> QED  BY <1>3, <1>4, MainLeavesHost DEF Starting

LEMMA AgreeMain ==
  ASSUME TypeInv, ControlSelected, AgreeInv, MainStep PROVE AgreeInv'
<1>1. CableKnown'  BY MainLeavesHost DEF AgreeInv, CableKnown
<1>2. hostRunning' /\ "EORSTI" \in flags' => Starting'
  BY MainLeavesHost, StartingMain DEF AgreeInv
<1>3. hostRunning' /\ "EORSTI" \notin flags' => Agreeing'
  BY MainLeavesHost, AgreeingMain DEF AgreeInv
<1> QED  BY <1>1, <1>2, <1>3 DEF AgreeInv

\* A section runs for its flag, and after those before it.
LEMMA SectionDue ==
  ASSUME NEW i \in 0..5, NEW fl, NEW en
  PROVE  /\ SectionAfter(i, fl, en) = 1 => i = 0 /\ "VBUS" \in fl
         /\ SectionAfter(i, fl, en) = 4 => i < 4 /\ "EORSTI" \in fl
  BY DEF SectionAfter, SectionOrder

LEMMA AgreeISR ==
  ASSUME TypeInv, AgreeInv, ISRStep PROVE AgreeInv'
<1> USE DEF AgreeInv, mainVars, libVars, intVars, regVars, epVars, hostVars, ghosts, Leave
<1>1. CASE Interrupt
  <2>1. CableKnown'  BY <1>1, SectionDue DEF Interrupt, CableKnown
  <2> QED  BY <1>1, <2>1 DEF Interrupt, Starting, Agreeing, RequestServed, SetupPending, OnEP0,
     StatusPending, AddressAgrees, Ahead, ConfigurationAgrees, StateBehind, StateAgrees
<1>2. CASE OnVBUS
  <2>1. ~hostRunning  BY <1>2 DEF OnVBUS, CableKnown
  <2>2. CableKnown'  BY <1>2, <2>1, SectionDue DEF OnVBUS, CableKnown
  <2> QED  BY <1>2, <2>1, <2>2 DEF OnVBUS
<1>3. CASE OnSuspend \/ OnWakeup
  <2>1. CableKnown'  BY <1>3, SectionDue DEF OnSuspend, OnWakeup, CableKnown
  <2>2. Starting => Starting'  BY <1>3 DEF OnSuspend, OnWakeup, Starting
  <2>3. Agreeing => Agreeing'
    <3>1. SUFFICES ASSUME Agreeing PROVE Agreeing'  OBVIOUS
    <3>2. /\ RequestServed' /\ SetupPending' /\ StatusPending'
          /\ AddressAgrees' /\ ConfigurationAgrees'
      BY <1>3, <3>1 DEF OnSuspend, OnWakeup, Agreeing, RequestServed, SetupPending, OnEP0,
        StatusPending, AddressAgrees, Ahead, ConfigurationAgrees
    <3>3. StateAgrees'
      BY <1>3, <3>1 DEF OnSuspend, OnWakeup, Agreeing, StateBehind, StateAgrees
    <3> QED  BY <3>2, <3>3 DEF Agreeing
  <2>4. "EORSTI" \in flags' <=> "EORSTI" \in flags  BY <1>3 DEF OnSuspend, OnWakeup
  <2>5. UNCHANGED hostRunning  BY <1>3 DEF OnSuspend, OnWakeup
  <2> QED  BY <2>1, <2>2, <2>3, <2>4, <2>5
<1>4. CASE OnReset
  <2>1. CableKnown'  BY <1>4, SectionDue DEF OnReset, CableKnown
  <2>2. ASSUME hostRunning PROVE Agreeing'
    <3>1. Starting  BY <1>4, <2>2 DEF OnReset, CableKnown
    <3>2. /\ UNCHANGED <<pc, UDADDR, hostAddr, hostCfg, xfer, bank>>
          /\ USB_DeviceState' = "Default" /\ USB_ConfigurationNumber' = 0 /\ stalled' = {}
          /\ ep0' = {"TXINI"}
      BY <1>4 DEF OnReset
    <3>3. RequestServed' /\ SetupPending' /\ StatusPending'
      BY <3>1, <3>2 DEF Starting, RequestServed, SetupPending, StatusPending, OtherLabels,
        AddrLabels, Answering, SelectLabels, DataEPLabels
    <3>4. AddressAgrees' /\ ConfigurationAgrees' /\ StateAgrees'
      BY <3>1, <3>2 DEF Starting, AddressAgrees, AddrLabels, ConfigurationAgrees, Ahead, StateAgrees
    <3> QED  BY <3>3, <3>4 DEF Agreeing
  <2>3. "EORSTI" \notin flags' /\ UNCHANGED hostRunning  BY <1>4 DEF OnReset
  <2> QED  BY <2>1, <2>2, <2>3
<1>5. CASE OnSOF
  <2>1. CableKnown'  BY <1>5, SectionDue DEF OnSOF, CableKnown
  <2> QED  BY <1>5, <2>1 DEF OnSOF, Starting, Agreeing, RequestServed, SetupPending, OnEP0,
     StatusPending, AddressAgrees, Ahead, ConfigurationAgrees, StateBehind, StateAgrees
<1> QED  BY <1>1, <1>2, <1>3, <1>4, <1>5 DEF ISRStep

\* What the cable, the bus and the host leave alone while a session goes on.
LEMMA AgreeingStays ==
  ASSUME Agreeing,
         UNCHANGED <<pc, USB_ControlRequest, bank, xfer, ep0, stalled, UENUM, UDADDR, hostAddr,
                     hostCfg, USB_ConfigurationNumber, USB_DeviceState>>
  PROVE  Agreeing'
  BY DEF Agreeing, RequestServed, SetupPending, OnEP0, StatusPending, AddressAgrees, Ahead,
         ConfigurationAgrees, StateBehind, StateAgrees

LEMMA AgreeHost ==
  ASSUME HostPolicy = "paced", TypeInv, AgreeInv, BusEvent \/ HostProgress PROVE AgreeInv'
<1> USE DEF AgreeInv, HardwareFrame, mainVars, libVars, hostVars
<1>1. CASE Plug
  BY <1>1 DEF Plug, CableKnown
<1>2. CASE Unplug
  <2>1. hostRunning' = FALSE  BY <1>2 DEF Unplug, HostLosesDevice
  <2> QED  BY <1>2, <2>1 DEF Unplug, CableKnown
<1>3. CASE LineActivity \/ BusIdle \/ StartOfFrame
  <2>1. CableKnown'  BY <1>3 DEF LineActivity, BusIdle, StartOfFrame, CableKnown
  <2>2. ("EORSTI" \in flags' <=> "EORSTI" \in flags) /\ UNCHANGED hostRunning
    BY <1>3 DEF LineActivity, BusIdle, StartOfFrame
  <2>3. Starting => Starting'  BY <1>3 DEF LineActivity, BusIdle, StartOfFrame, Starting
  <2>4. Agreeing => Agreeing'  BY <1>3, AgreeingStays DEF LineActivity, BusIdle, StartOfFrame
  <2> QED  BY <2>1, <2>2, <2>3, <2>4
<1>4. CASE HostReset
  <2>1. xfer = "none" /\ Settled  BY <1>4 DEF HostReset, MayCutIn
  <2>2. Starting'  BY <1>4, <2>1 DEF HostReset, Settled, Calm, Starting
  <2>3. "VBUS" \notin flags
    BY <1>4, <2>1 DEF HostReset, Settled, Calm, Interrupts, Pending, CableKnown
  <2>4. CableKnown'  BY <1>4, <2>3 DEF HostReset, CableKnown
  <2>5. "EORSTI" \in flags'  BY <1>4 DEF HostReset
  <2> QED  BY <2>2, <2>4, <2>5
<1>5. CASE HostEndsData  BY <1>5 DEF HostEndsData
<1>6. ASSUME NEW r \in Requests, HostSetup(r) PROVE AgreeInv'
  <2>1. /\ hostRunning /\ "EORSTI" \notin flags /\ xfer = "none" /\ pc = "app"
    BY <1>6 DEF HostSetup, Reachable, MayAsk, Settled, Calm
  <2>2. CableKnown'  BY <1>6 DEF HostSetup, CableKnown
  <2>3. UNCHANGED <<flags, hostRunning>>  BY <1>6 DEF HostSetup
  <2>4. /\ bank' = r /\ ep0' = ep0 \cup {"RXSTPI", "TXINI"}
        /\ stalled' = stalled \ {ENDPOINT_CONTROLEP}
        /\ xfer' = IF DeviceToHost(r) /\ r.len > 0 THEN "data" ELSE "statusIn"
        /\ UNCHANGED <<pc, UENUM, UDADDR, hostAddr, hostCfg, USB_ConfigurationNumber,
                       USB_DeviceState>>
        /\ r.req = "SetAddress" => hostCfg = 0
    BY <1>6 DEF HostSetup, InOrder
  <2>5. r.req \in Sets => xfer' = "statusIn"  BY <2>4, AfterStatusSets
  <2>6. RequestServed' /\ SetupPending' /\ StatusPending'
    BY <2>1, <2>4, <2>5 DEF RequestServed, SetupPending, StatusPending, OtherLabels,
       AddrLabels, Answering, SelectLabels, DataEPLabels
  <2>7. AddressAgrees' /\ StateAgrees'
    BY <2>1, <2>4 DEF Agreeing, AddressAgrees, AddrLabels, StateAgrees, StateBehind
  <2>8. ConfigurationAgrees'
    BY <2>1, <2>4 DEF Agreeing, ConfigurationAgrees, Ahead
  <2> QED  BY <2>1, <2>2, <2>3, <2>6, <2>7, <2>8 DEF Agreeing
<1>7. ASSUME HostProgress PROVE AgreeInv'
  <2>1. /\ hostRunning /\ "EORSTI" \notin flags
        /\ UNCHANGED <<vbus, hostRunning, flags, isr, enables, USB_IsInitialized, pc,
                       USB_ControlRequest, bank, stalled, UENUM, UDADDR, USB_ConfigurationNumber,
                       USB_DeviceState>>
    BY <1>7 DEF HostProgress, HostTakesData, HostSendsStatus, HostTakesStatus, HostSeesStall,
       Transaction, Reachable
  <2>2. CableKnown'  BY <2>1 DEF CableKnown
  <2>3. Agreeing'
    <3> USE <2>1 DEF Agreeing, RequestServed, SetupPending, OnEP0, StatusPending, AddressAgrees,
            Ahead, ConfigurationAgrees, StateBehind, StateAgrees, Transaction, Sets, AddrLabels,
            OtherLabels, SelectLabels, DataEPLabels, Answering
    <3>1. CASE HostTakesData  BY <3>1 DEF HostTakesData
    <3>2. CASE HostSendsStatus  BY <3>2 DEF HostSendsStatus
    <3>3. CASE HostTakesStatus  BY <3>3 DEF HostTakesStatus
    <3>4. CASE HostSeesStall  BY <3>4 DEF HostSeesStall
    <3> QED  BY <1>7, <3>1, <3>2, <3>3, <3>4 DEF HostProgress
  <2> QED  BY <2>1, <2>2, <2>3
<1> QED  BY <1>1, <1>2, <1>3, <1>4, <1>5, <1>6, <1>7 DEF BusEvent

LEMMA AgreeApplication ==
  ASSUME TypeInv, AgreeInv, Application PROVE AgreeInv'
<1> USE DEF AgreeInv, InMain, mainVars, libVars, intVars, epVars, hostVars
<1>1. CASE USB_Init \/ USB_ShutDown
  BY <1>1 DEF USB_Init, USB_ShutDown, ResetInterface, HostLosesDevice, CableKnown
<1>2. ASSUME NEW e \in EndpointNums, AppSelect(e) PROVE AgreeInv'
  <2>1. CableKnown'  BY <1>2 DEF AppSelect, CableKnown
  <2>2. Starting => Starting'  BY <1>2 DEF AppSelect, Starting
  <2>3. Agreeing => Agreeing'
    BY <1>2 DEF AppSelect, Agreeing, RequestServed, SetupPending, StatusPending, AddressAgrees,
       Ahead, ConfigurationAgrees, StateBehind, StateAgrees
  <2> QED  BY <1>2, <2>1, <2>2, <2>3 DEF AppSelect
<1> QED  BY <1>1, <1>2 DEF Application

LEMMA AgreeNext ==
  HostPolicy = "paced" /\ TypeInv /\ ControlSelected /\ AgreeInv /\ [Next]_vars => AgreeInv'
<1>1. CASE AgreeInv /\ UNCHANGED vars
  <2>1. CableKnown' /\ (Starting => Starting')
    BY <1>1
    DEF AgreeInv, CableKnown, Starting, vars, mainVars, libVars, intVars, regVars, epVars,
        hostVars
  <2>2. Agreeing => Agreeing'
    BY <1>1, AgreeingStays DEF vars, mainVars, libVars, regVars, epVars, hostVars
  <2> QED  BY <1>1, <2>1, <2>2 DEF AgreeInv, vars, intVars, hostVars
<1> QED  BY <1>1, AgreeMain, AgreeISR, AgreeHost, AgreeApplication DEF Next

LEMMA AgreeInvariant ==
  ASSUME HostPolicy = "paced"
  PROVE  Spec => [](TypeInv /\ ControlSelected /\ AgreeInv)
<1>1. Init => AgreeInv  BY DEF Init, AgreeInv, CableKnown
<1> QED  BY <1>1, TypeInit, TypeNext, ControlEndpointSelected, AgreeNext, PTL DEF Spec

\* Whenever nothing is in flight the device and a paced host agree on the
\* address and the configuration, through resets, suspends, refused requests,
\* requests of other kinds and pulls of the cable anywhere.
THEOREM DeviceAndHostAgree ==
  ASSUME HostPolicy = "paced"
  PROVE  Spec => []HostDeviceAgree
<1>1. AgreeInv => HostDeviceAgree
  BY DEF AgreeInv, Agreeing, AddressAgrees, AddrLabels, ConfigurationAgrees, Ahead, StateAgrees,
     StateBehind, HostDeviceAgree, Quiet, Calm
<1> QED  BY <1>1, AgreeInvariant, PTL

\* Such a host has always seen the status stage of SET ADDRESS when the device
\* takes the address.
THEOREM AddressTakenLast ==
  ASSUME HostPolicy = "paced"
  PROVE  Spec => AddressAfterStatus
<1>1. TypeInv /\ AgreeInv /\ [Next]_vars
        => [hostRunning /\ UDADDR' # UDADDR /\ UDADDR' # 0 => hostAddr = UDADDR']_vars
  <2> SUFFICES ASSUME TypeInv, AgreeInv, Next, hostRunning, UDADDR' # UDADDR, UDADDR' # 0
               PROVE  hostAddr = UDADDR'
    BY DEF vars, regVars
  <2>1. AddrWrite
    <3>1. CASE MainStep
      BY <3>1
      DEF MainStep, TaskEnter, ReadHeader, StatusSelect, StatusRead, StatusReselect,
          FeatureSelect, FeatureCheck, FeatureApply, FeatureReselect, AckSETUP,
          SetNumber, SendData, WriteStreamEnds, WriteStream, StreamWaitOUT,
          AfterStream, StatusStage, AddrWait, AddrState, CfgCommit,
          CfgConfigured, CfgAddressed, CfgEvent, SofRead, SofWrite, Tail, TailClear,
          TaskRestore, Step, Reselect, OnFlags, SetState, TaskFrame, regVars
    <3>2. CASE ISRStep
      BY <3>2 DEF ISRStep, Interrupt, OnVBUS, OnSuspend, OnWakeup, OnReset, OnSOF, Leave, regVars
    <3>3. CASE BusEvent \/ HostProgress
      BY <3>3 DEF BusEvent, HostProgress, Plug, Unplug, LineActivity, BusIdle, StartOfFrame,
         HostReset, HostEndsData, HostSetup, HostTakesData, HostSendsStatus, HostTakesStatus,
         HostSeesStall, Transaction
    <3>4. CASE Application
      BY <3>4 DEF Application, USB_Init, USB_ShutDown, ResetInterface, AppSelect
    <3> QED  BY <3>1, <3>2, <3>3, <3>4 DEF Next
  <2>2. pc = "addrWrite" /\ UDADDR' = USB_ControlRequest.val  BY <2>1 DEF AddrWrite, InMain
  <2>3. Agreeing  BY <2>2 DEF AgreeInv, Starting
  <2> QED  BY <2>2, <2>3 DEF Agreeing, AddressAgrees, AddrLabels, RequestServed
<1> QED  BY <1>1, AgreeInvariant, PTL DEF Spec, AddressAfterStatus
=============================================================================
