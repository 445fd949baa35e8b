---------------------------- MODULE USBHostProofs ----------------------------
(***************************************************************************)
(* Proofs about USBHost: its types under every policy and, where the cable *)
(* and the supply change only where the main program spends a millisecond  *)
(* or more (HostPolicy = "long"), its safety invariants and that it        *)
(* implements HostLifecycle.                                               *)
(***************************************************************************)
EXTENDS USBHost, TLAPS

\* The types, in the parts the provers take: what is not Boolean, what is, and
\* what keeps the counter from being taken below zero.
Values ==
  /\ pc \in Labels /\ next \in HostStates
  /\ otgien \subseteq {"SRPI", "BCERRI", "VBERRI"}
  /\ WaitMSRemaining \in Nat /\ WaitMSRemaining < 65536 /\ PostWaitState \in HostStates
  /\ USB_HostState \in HostStates /\ USB_ControlRequest \in ControlRequests
  /\ isr \in 0..4 /\ flags \subseteq Interrupts
  /\ enables \subseteq {"DDISCI", "SRPI", "BCERRI", "VBERRI"}
  /\ vbus \in {"manual", "auto", "off"} /\ UHADDR \in {0, USB_HOST_DEVICEADDRESS}
  /\ devState \in {"none", "powered", "default", "addressed", "configured"}
  /\ session \in {"none", "attached", "complete"}
Booleans == plugged \in BOOLEAN /\ connected \in BOOLEAN /\ told \in BOOLEAN
Counting == pc \in {"wait", "waitNext"} => WaitMSRemaining > 0

Types == Values /\ Booleans /\ Counting

-----------------------------------------------------------------------------
(* The invariant of the policy "long".  While a disconnection is pending   *)
(* nothing is known of the main program, because the handler will reset    *)
(* the interface under it before its next step; otherwise each place in    *)
(* the main program fixes the registers, the session and the device.  The  *)
(* reset may be overwritten: WaitForDevice and Configured are written      *)
(* after code in which the device can go.                                  *)

CtlLabels   == {"ctlWait1", "ctlSetup", "ctlWait2", "ctlData", "ctlStatus"}
ResetLabels == {"rstBus", "rstLook", "rstEn"}

\* Where a wait leads.
AfterWait   == {"Powered_DoReset", "Powered_ConfigPipe", "Default_PostReset",
                "Default_PostAddressSet"}

\* The handler will find the disconnection and reset the interface.
Leaving == "DDISCI" \in flags \cap enables

\* What the registers are in each stage of a session: none; attached, with the
\* bus powered by hand; waiting for the pull-up; connected; and connected with
\* the disconnection interrupt off, during a bus reset.
Free      == session = "none" /\ ~connected /\ vbus = "manual" /\ enables = {"SRPI", "BCERRI"}
Attached  == session = "attached" /\ ~connected /\ vbus = "manual" /\ enables = {"BCERRI", "DDISCI"}
Waiting   == session = "attached" /\ vbus = "auto" /\ enables = {"BCERRI", "DDISCI"}
Connected == connected /\ enables = {"BCERRI", "VBERRI", "DDISCI"}

\* A removal in a bus reset waits for the interrupt to be enabled again.
Gone      == ~connected /\ "DDISCI" \in flags /\ (plugged => vbus # "auto")
Resetting == /\ enables = {"BCERRI", "VBERRI"} /\ "BCERRI" \notin flags
             /\ (connected /\ session = "attached") \/ Gone

\* The interface has been reset under the main program.
Pulled == Free /\ USB_HostState = "Unattached"

\* The main program waits for a device that is gone; a new one may be there.
Missed == Free \/ Attached

\* Where the main program is in the session.
InApp ==
  /\ USB_HostState = "Unattached" => Free
  /\ USB_HostState = "WaitForDeviceRemoval" => Free \/ (Connected /\ session = "complete")
  /\ USB_HostState \in {"Powered", "Powered_WaitForDeviceSettle"} => Attached
  /\ USB_HostState = "Powered_WaitForConnect" => Waiting
  /\ USB_HostState = "WaitForDevice" => Free \/ (Connected /\ session = "attached")
  /\ USB_HostState \in {"Powered_DoReset", "Powered_ConfigPipe", "Default",
                        "Default_PostReset", "Default_PostAddressSet"} =>
       Connected /\ session = "attached"
  /\ USB_HostState = "Addressed" => Connected /\ session = "complete"
  /\ USB_HostState = "Configured" => Free \/ (Connected /\ session = "complete")

Located ==
  /\ pc = "app" => InApp
  /\ pc \in {"powered", "settleDone"} => Attached
  /\ pc = "settleDelay" => (Attached /\ USB_HostState = "Powered_WaitForDeviceSettle") \/ Pulled
  /\ pc = "settleState" => Waiting
  /\ pc \in {"connClear", "connEnable"} => Waiting /\ connected
  /\ pc = "connEnable" =>
       otgien = {"BCERRI"} /\ flags \cap {"VBERRI", "DCONNI"} = {} /\ next = "Powered_DoReset"
  /\ pc \in {"waitNext", "rstDis", "configPipe", "postReset", "addrSet", "addrEvent"} =>
       Connected /\ session = "attached"
  /\ pc \in {"addrState", "appParse"} => Connected /\ session = "complete"
  /\ pc = "waitNext" => USB_HostState = "WaitForDevice"
  /\ pc = "nbWait" => Free \/ (Connected /\ session = "attached")
  /\ pc \in {"postReset", "configPipe", "appParse"} => USB_HostState # "Unattached"
  /\ pc = "wait" => (Connected /\ session = "attached" /\ USB_HostState = "WaitForDevice") \/ Missed
  /\ pc = "rstEn" /\ connected => "DDISCI" \notin flags
  /\ pc \in CtlLabels =>
       \/ /\ Connected /\ USB_HostState # "Unattached"
          /\ session = IF USB_ControlRequest \in {"GetDevice", "SetAddress"}
                       THEN "attached" ELSE "complete"
       \/ Pulled
  /\ pc = "waitFail" => Free
  /\ pc = "appConfigured" => (Connected /\ session = "complete") \/ Pulled
  /\ pc = "appUse" => (Connected /\ session = "complete") \/ Missed
  /\ pc \in {"wait", "appUse"} /\ USB_HostState = "Unattached" => Free
  /\ pc = "appFail" => (Connected /\ session = "complete") \/ Free
  /\ pc = "fail" =>
       (Connected /\ session = "attached" /\ USB_HostState # "Unattached") \/ Free
  /\ pc = "failEvent" => Connected \/ Free
  /\ pc \in {"failUnattached", "failReset"} =>
       /\ session = "none" /\ ~connected /\ vbus \in {"manual", "off"}
       /\ enables = {"SRPI", "BCERRI"}

\* What is known of the device, if it is connected.
Fresh    == UHADDR = 0 /\ devState = "default"
Assigned == UHADDR = 0 /\ devState = "addressed"
InUse    == UHADDR = USB_HOST_DEVICEADDRESS /\ devState \in {"addressed", "configured"}
About(s) ==
  /\ s \in {"Powered_ConfigPipe", "Default", "Default_PostReset"} => Fresh
  /\ s = "Default_PostAddressSet" => Assigned
  /\ s \in {"Addressed", "Configured"} => InUse

DeviceKnown ==
  connected =>
    /\ pc = "app" => About(IF USB_HostState = "WaitForDevice" THEN PostWaitState ELSE USB_HostState)
    /\ pc \in {"wait", "waitNext"} => About(PostWaitState)
    /\ pc = "nbWait" => About(next)
    /\ pc \in {"rstLook", "rstEn"} \cup {"postReset", "configPipe"} => Fresh
    /\ pc = "addrSet" => Assigned
    /\ pc \in {"addrEvent", "addrState", "appParse", "appConfigured"} => InUse
    /\ pc \in CtlLabels =>
         IF USB_ControlRequest \in {"GetDevice", "SetAddress"} THEN Fresh ELSE InUse

\* The handler is at work only where the device can go, where the host itself
\* switches the supply off, or where a bus reset is over.
Interruptible ==
  (isr # 0 \/ \E f \in Interrupts : Pending(f)) => pc \in LongLabels \cup {"app", "nbWait"}

Cable ==
  /\ connected => plugged /\ vbus = "auto"
  /\ Leaving => ~connected /\ (plugged => vbus # "auto")
  /\ "SRPI" \in enables =>
       session = "none" /\ ~connected /\ vbus # "auto" /\ UHADDR = 0 /\ "VBERRI" \notin enables
  /\ "SRPI" \in flags \cap enables => plugged /\ pc \in {"app", "wait", "appUse"}
  /\ "SRPI" \in flags \cap enables /\ pc # "app" => USB_HostState # "Unattached"
  /\ "DCONNI" \in flags => (connected /\ "VBERRI" \notin enables) \/ Leaving
  /\ session = "attached" /\ pc # "addrEvent" => UHADDR = 0
  /\ pc \in ResetLabels => Resetting
  /\ pc \in ResetLabels \cup {"rstDis"} => next \in {"Powered_ConfigPipe", "Default_PostReset"}
  /\ pc = "nbWait" => next \in AfterWait
  /\ pc \in {"wait", "waitNext"} \/ (pc = "app" /\ USB_HostState = "WaitForDevice") =>
       PostWaitState \in AfterWait

Known == Leaving \/ (Located /\ DeviceKnown)
HostInv == Interruptible /\ Cable /\ Known

-----------------------------------------------------------------------------
(* The steps.                                                              *)

\* The ways a step with several outcomes can go.
WaitBroken == USB_HostState = "Unattached" /\ Step("wait", "waitFail")
WaitPasses == USB_HostState # "Unattached" /\ Frame /\ Step("wait", "waitNext")
AskAddress == Main("postReset") /\ StartRequest("SetAddress")
NoPipe == Step("postReset", "fail")
Wait1Fails == ControlError("ctlWait1")
Wait1Passes == USB_HostState # "Unattached" /\ Frame /\ Step("ctlWait1", "ctlSetup")
SetupFails == ControlError("ctlSetup")
SetupSent == Reaches /\ Step("ctlSetup", "ctlWait2")
Wait2Fails == ControlError("ctlWait2")
Wait2Passes == USB_HostState # "Unattached" /\ Frame
               /\ Step("ctlWait2", IF DeviceToHost THEN "ctlData" ELSE "ctlStatus")
DataFails == ControlError("ctlData")
DataMoved == Reaches /\ Step("ctlData", "ctlStatus")
StatusFails == ControlError("ctlStatus")
StatusEnds ==
  /\ Main("ctlStatus") /\ Reaches
  /\ DeviceActs
  /\ pc' \in {AfterRequest[USB_ControlRequest], AfterError}
  /\ next' = CASE USB_ControlRequest = "GetDevice"  -> "Default_PostReset"
               [] USB_ControlRequest = "SetAddress" -> "Default_PostAddressSet"
               [] OTHER                             -> next
  /\ UNCHANGED <<otgien, flags, enables, vbus, UHADDR, connected, events>>
  /\ KeepLib /\ MainFrame
AskConfig == Main("appParse") /\ StartRequest("SetConfig")
NoMatch == Step("appParse", "appFail")

LEMMA MainCases ==
  ASSUME MainStep
  PROVE  \/ TaskEnter \/ TaskDefault \/ TaskWait \/ TaskSettle \/ TaskConnect \/ TaskReset
         \/ Powered \/ SettleDelay \/ SettleDone \/ SettleState \/ ConnectClear
         \/ ConnectEnable \/ NonblockWait \/ WaitBroken \/ WaitPasses \/ WaitNext \/ WaitFail
         \/ ResetDisable \/ ResetBus \/ ResetLook \/ ResetEnable \/ ConfigPipe \/ AskAddress
         \/ NoPipe \/ AddressSet \/ AddressEvent \/ AddressState \/ Fail \/ FailEvent
         \/ FailUnattached \/ FailReset \/ Wait1Fails \/ Wait1Passes \/ SetupFails
         \/ SetupSent \/ Wait2Fails \/ Wait2Passes \/ DataFails \/ DataMoved \/ StatusFails
         \/ StatusEnds \/ AppAddressed \/ AskConfig \/ NoMatch \/ AppConfigured \/ AppWork
         \/ AppUsed \/ AppWaitForRemoval
  BY DEF MainStep, WaitMS, PostReset, ControlWait1, ControlSetup, ControlWait2,
         ControlData, ControlStatus, AppParse, WaitBroken, WaitPasses, AskAddress,
         NoPipe, Wait1Fails, Wait1Passes, SetupFails, SetupSent, Wait2Fails,
         Wait2Passes, DataFails, DataMoved, StatusFails, StatusEnds, AskConfig,
         NoMatch

LEMMA SectionNames ==
  /\ SectionOrder[1] = "DDISCI" /\ SectionOrder[2] = "VBERRI"
  /\ SectionOrder[3] = "SRPI"   /\ SectionOrder[4] = "BCERRI"
  BY DEF SectionOrder

SocketStep == Plug \/ Reattach \/ Unplug \/ Connect \/ NoConnection \/ VoltageDip

\* Where the task enters a state, where a request leads and what it leaves.
LEMMA EntryLabels ==
  ASSUME USB_HostState \in DOMAIN EntryLabel
  PROVE  EntryLabel[USB_HostState] \in {"powered", "configPipe", "postReset", "addrSet"}
  BY DEF EntryLabel

LEMMA ErrorLabel == AfterError \in {"fail", "appFail"}
  BY DEF AfterError

LEMMA ErrorIsStep ==
  ASSUME NEW l, ControlError(l)
  PROVE  Step(l, AfterError) /\ (USB_HostState = "Unattached" \/ connected)
  BY DEF ControlError, Frame

LEMMA RequestLabels ==
  ASSUME USB_ControlRequest \in ControlRequests
  PROVE  AfterRequest[USB_ControlRequest] \in {"rstDis", "nbWait", "appParse", "appConfigured"}
<1> USE DEF AfterRequest, ControlRequests
<1>1. CASE USB_ControlRequest = "GetDevice" BY <1>1
<1>2. CASE USB_ControlRequest = "SetAddress" BY <1>2
<1>3. CASE USB_ControlRequest = "GetConfig" BY <1>3
<1>4. CASE USB_ControlRequest = "SetConfig" BY <1>4
<1> QED BY <1>1, <1>2, <1>3, <1>4

LEMMA RequestLeaves ==
  ASSUME StatusEnds
  PROVE  /\ next' \in {next, "Default_PostReset", "Default_PostAddressSet"}
         /\ devState' \in {devState, "addressed", "configured"}
  BY DEF StatusEnds, DeviceActs

LEMMA ErrorKeepsValues ==
  ASSUME NEW l, Values, Counting, Step(l, AfterError)
  PROVE  Values' /\ Counting'
<1> USE HostAssumption
    DEF Values, Counting, HostStates, Labels, LongLabels, WaitLabels, ControlRequests, Interrupts
<1> USE DEF Goto, MainFrame, Quiet, Keep, KeepLib, Step, SetState, StartRequest, Main,
            Section, HandlerFrame, ResetInterface, VBUSOff, EnvFrame,
            Tell, mainVars, libVars, busVars, intVars, events, hostVars
<1> QED BY ErrorLabel

\* Types.
LEMMA MainKeepsValues ==
  ASSUME Values, Counting, MainStep
  PROVE  Values' /\ Counting'
<1> USE HostAssumption
    DEF Values, Counting, HostStates, Labels, LongLabels, WaitLabels, ControlRequests, Interrupts
<1> USE DEF Goto, MainFrame, Quiet, Keep, KeepLib, Step, SetState, StartRequest, Main,
            Section, HandlerFrame, ResetInterface, VBUSOff, EnvFrame,
            Tell, mainVars, libVars, busVars, intVars, events, hostVars
<1>1. CASE TaskEnter BY <1>1, EntryLabels DEF TaskEnter
<1>2. CASE TaskDefault BY <1>2 DEF TaskDefault
<1>3. CASE TaskWait BY <1>3 DEF TaskWait
<1>4. CASE TaskSettle BY <1>4 DEF TaskSettle
<1>5. CASE TaskConnect BY <1>5 DEF TaskConnect
<1>6. CASE TaskReset BY <1>6 DEF TaskReset
<1>7. CASE Powered BY <1>7 DEF Powered
<1>8. CASE SettleDelay BY <1>8 DEF SettleDelay
<1>9. CASE SettleDone BY <1>9 DEF SettleDone
<1>10. CASE SettleState BY <1>10 DEF SettleState
<1>11. CASE ConnectClear BY <1>11 DEF ConnectClear
<1>12. CASE ConnectEnable BY <1>12 DEF ConnectEnable
<1>13. CASE NonblockWait BY <1>13 DEF NonblockWait
<1>14. CASE WaitBroken BY <1>14 DEF WaitBroken
<1>15. CASE WaitPasses BY <1>15 DEF WaitPasses
<1>16. CASE WaitNext BY <1>16 DEF WaitNext
<1>17. CASE WaitFail BY <1>17 DEF WaitFail
<1>18. CASE ResetDisable BY <1>18 DEF ResetDisable
<1>19. CASE ResetBus BY <1>19 DEF ResetBus
<1>20. CASE ResetLook BY <1>20 DEF ResetLook
<1>21. CASE ResetEnable BY <1>21 DEF ResetEnable
<1>22. CASE ConfigPipe
  <2>1. CASE SetState("configPipe", "Default", "app") BY <2>1
  <2>2. CASE Step("configPipe", "fail") BY <2>2
  <2> QED BY <1>22, <2>1, <2>2 DEF ConfigPipe
<1>23. CASE AskAddress BY <1>23 DEF AskAddress
<1>24. CASE NoPipe BY <1>24 DEF NoPipe
<1>25. CASE AddressSet BY <1>25 DEF AddressSet
<1>26. CASE AddressEvent BY <1>26 DEF AddressEvent
<1>27. CASE AddressState BY <1>27 DEF AddressState
<1>28. CASE Fail BY <1>28 DEF Fail
<1>29. CASE FailEvent BY <1>29 DEF FailEvent
<1>30. CASE FailUnattached BY <1>30 DEF FailUnattached
<1>31. CASE FailReset BY <1>31 DEF FailReset
<1>32. CASE Wait1Fails BY <1>32, ErrorIsStep, ErrorKeepsValues DEF Wait1Fails
<1>33. CASE Wait1Passes BY <1>33 DEF Wait1Passes
<1>34. CASE SetupFails BY <1>34, ErrorIsStep, ErrorKeepsValues DEF SetupFails
<1>35. CASE SetupSent BY <1>35 DEF SetupSent
<1>36. CASE Wait2Fails BY <1>36, ErrorIsStep, ErrorKeepsValues DEF Wait2Fails
<1>37. CASE Wait2Passes BY <1>37 DEF Wait2Passes
<1>38. CASE DataFails BY <1>38, ErrorIsStep, ErrorKeepsValues DEF DataFails
<1>39. CASE DataMoved BY <1>39 DEF DataMoved
<1>40. CASE StatusFails BY <1>40, ErrorIsStep, ErrorKeepsValues DEF StatusFails
<1>41. CASE StatusEnds
  <2>1. pc' \in Labels /\ pc' \notin {"wait", "waitNext"}
    BY <1>41, ErrorLabel, RequestLabels DEF StatusEnds
  <2> QED BY <1>41, <2>1, RequestLeaves DEF StatusEnds
<1>42. CASE AppAddressed BY <1>42 DEF AppAddressed
<1>43. CASE AskConfig BY <1>43 DEF AskConfig
<1>44. CASE NoMatch BY <1>44 DEF NoMatch
<1>45. CASE AppConfigured BY <1>45 DEF AppConfigured
<1>46. CASE AppWork BY <1>46 DEF AppWork
<1>47. CASE AppUsed BY <1>47 DEF AppUsed
<1>48. CASE AppWaitForRemoval BY <1>48 DEF AppWaitForRemoval
<1> QED
  BY <1>1, <1>2, <1>3, <1>4, <1>5, <1>6, <1>7, <1>8, <1>9, <1>10, <1>11, <1>12,
     <1>13, <1>14, <1>15, <1>16, <1>17, <1>18, <1>19, <1>20, <1>21, <1>22, <1>23,
     <1>24, <1>25, <1>26, <1>27, <1>28, <1>29, <1>30, <1>31, <1>32, <1>33, <1>34,
     <1>35, <1>36, <1>37, <1>38, <1>39, <1>40, <1>41, <1>42, <1>43, <1>44, <1>45,
     <1>46, <1>47, <1>48, MainCases

LEMMA HandlerKeepsValues ==
  ASSUME Values, Counting, ISRStep
  PROVE  Values' /\ Counting'
<1> USE HostAssumption
    DEF Values, Counting, HostStates, Labels, LongLabels, WaitLabels, ControlRequests, Interrupts
<1> USE DEF Goto, MainFrame, Quiet, Keep, KeepLib, Step, SetState, StartRequest, Main,
            Section, HandlerFrame, ResetInterface, VBUSOff, EnvFrame,
            Tell, mainVars, libVars, busVars, intVars, events, hostVars
<1>1. CASE ISREnter BY <1>1 DEF ISREnter
<1>2. CASE ISRSkip BY <1>2 DEF ISRSkip
<1>3. CASE ISRDisconnect BY <1>3 DEF ISRDisconnect
<1>4. CASE ISRVBUSError BY <1>4 DEF ISRVBUSError
<1>5. CASE ISRAttach BY <1>5 DEF ISRAttach
<1>6. CASE ISRNoConnection BY <1>6 DEF ISRNoConnection
<1> QED
  BY <1>1, <1>2, <1>3, <1>4, <1>5, <1>6 DEF ISRStep

LEMMA SocketKeepsValues ==
  ASSUME Values, Counting, SocketStep
  PROVE  Values' /\ Counting'
<1> USE HostAssumption
    DEF Values, Counting, HostStates, Labels, LongLabels, WaitLabels, ControlRequests, Interrupts
<1> USE DEF Goto, MainFrame, Quiet, Keep, KeepLib, Step, SetState, StartRequest, Main,
            Section, HandlerFrame, ResetInterface, VBUSOff, EnvFrame,
            Tell, mainVars, libVars, busVars, intVars, events, hostVars
<1>1. CASE Plug BY <1>1 DEF Plug
<1>2. CASE Reattach BY <1>2 DEF Reattach
<1>3. CASE Unplug BY <1>3 DEF Unplug
<1>4. CASE Connect BY <1>4 DEF Connect
<1>5. CASE NoConnection BY <1>5 DEF NoConnection
<1>6. CASE VoltageDip BY <1>6 DEF VoltageDip
<1> QED
  BY <1>1, <1>2, <1>3, <1>4, <1>5, <1>6 DEF SocketStep

LEMMA MainKeepsBooleans ==
  ASSUME Booleans, MainStep
  PROVE  Booleans'
<1> USE DEF Booleans, MainFrame, Quiet, Step, SetState, StartRequest, HandlerFrame,
            EnvFrame, busVars, events, Tell
<1>1. CASE TaskEnter BY <1>1 DEF TaskEnter
<1>2. CASE TaskDefault BY <1>2 DEF TaskDefault
<1>3. CASE TaskWait BY <1>3 DEF TaskWait
<1>4. CASE TaskSettle BY <1>4 DEF TaskSettle
<1>5. CASE TaskConnect BY <1>5 DEF TaskConnect
<1>6. CASE TaskReset BY <1>6 DEF TaskReset
<1>7. CASE Powered BY <1>7 DEF Powered
<1>8. CASE SettleDelay BY <1>8 DEF SettleDelay
<1>9. CASE SettleDone BY <1>9 DEF SettleDone
<1>10. CASE SettleState BY <1>10 DEF SettleState
<1>11. CASE ConnectClear BY <1>11 DEF ConnectClear
<1>12. CASE ConnectEnable BY <1>12 DEF ConnectEnable
<1>13. CASE NonblockWait BY <1>13 DEF NonblockWait
<1>14. CASE WaitBroken BY <1>14 DEF WaitBroken
<1>15. CASE WaitPasses BY <1>15 DEF WaitPasses
<1>16. CASE WaitNext BY <1>16 DEF WaitNext
<1>17. CASE WaitFail BY <1>17 DEF WaitFail
<1>18. CASE ResetDisable BY <1>18 DEF ResetDisable
<1>19. CASE ResetBus BY <1>19 DEF ResetBus
<1>20. CASE ResetLook BY <1>20 DEF ResetLook
<1>21. CASE ResetEnable BY <1>21 DEF ResetEnable
<1>22. CASE ConfigPipe
  <2>1. CASE SetState("configPipe", "Default", "app") BY <2>1
  <2>2. CASE Step("configPipe", "fail") BY <2>2
  <2> QED BY <1>22, <2>1, <2>2 DEF ConfigPipe
<1>23. CASE AskAddress BY <1>23 DEF AskAddress
<1>24. CASE NoPipe BY <1>24 DEF NoPipe
<1>25. CASE AddressSet BY <1>25 DEF AddressSet
<1>26. CASE AddressEvent BY <1>26 DEF AddressEvent
<1>27. CASE AddressState BY <1>27 DEF AddressState
<1>28. CASE Fail BY <1>28 DEF Fail
<1>29. CASE FailEvent
  <2>1. plugged' \in BOOLEAN BY <1>29 DEF FailEvent
  <2>2. connected' \in BOOLEAN BY <1>29 DEF FailEvent, VBUSOff
  <2>3. told' \in BOOLEAN BY <1>29 DEF FailEvent
  <2> QED BY <2>1, <2>2, <2>3
<1>30. CASE FailUnattached BY <1>30 DEF FailUnattached
<1>31. CASE FailReset
  <2>1. plugged' \in BOOLEAN BY <1>31 DEF FailReset
  <2>2. connected' \in BOOLEAN BY <1>31 DEF FailReset, ResetInterface
  <2>3. told' \in BOOLEAN BY <1>31 DEF FailReset
  <2> QED BY <2>1, <2>2, <2>3
<1>32. CASE Wait1Fails BY <1>32, ErrorIsStep DEF Wait1Fails
<1>33. CASE Wait1Passes BY <1>33 DEF Wait1Passes
<1>34. CASE SetupFails BY <1>34, ErrorIsStep DEF SetupFails
<1>35. CASE SetupSent BY <1>35 DEF SetupSent
<1>36. CASE Wait2Fails BY <1>36, ErrorIsStep DEF Wait2Fails
<1>37. CASE Wait2Passes BY <1>37 DEF Wait2Passes
<1>38. CASE DataFails BY <1>38, ErrorIsStep DEF DataFails
<1>39. CASE DataMoved BY <1>39 DEF DataMoved
<1>40. CASE StatusFails BY <1>40, ErrorIsStep DEF StatusFails
<1>41. CASE StatusEnds BY <1>41 DEF StatusEnds
<1>42. CASE AppAddressed BY <1>42 DEF AppAddressed
<1>43. CASE AskConfig BY <1>43 DEF AskConfig
<1>44. CASE NoMatch BY <1>44 DEF NoMatch
<1>45. CASE AppConfigured BY <1>45 DEF AppConfigured
<1>46. CASE AppWork BY <1>46 DEF AppWork
<1>47. CASE AppUsed BY <1>47 DEF AppUsed
<1>48. CASE AppWaitForRemoval BY <1>48 DEF AppWaitForRemoval
<1> QED
  BY <1>1, <1>2, <1>3, <1>4, <1>5, <1>6, <1>7, <1>8, <1>9, <1>10, <1>11, <1>12,
     <1>13, <1>14, <1>15, <1>16, <1>17, <1>18, <1>19, <1>20, <1>21, <1>22, <1>23,
     <1>24, <1>25, <1>26, <1>27, <1>28, <1>29, <1>30, <1>31, <1>32, <1>33, <1>34,
     <1>35, <1>36, <1>37, <1>38, <1>39, <1>40, <1>41, <1>42, <1>43, <1>44, <1>45,
     <1>46, <1>47, <1>48, MainCases

LEMMA HandlerKeepsBooleans ==
  ASSUME Booleans, ISRStep
  PROVE  Booleans'
<1> USE DEF Booleans, MainFrame, Quiet, Step, SetState, StartRequest, HandlerFrame,
            EnvFrame, busVars, events, Tell
<1>1. CASE ISREnter BY <1>1 DEF ISREnter
<1>2. CASE ISRSkip BY <1>2 DEF ISRSkip
<1>3. CASE ISRDisconnect
  <2>1. plugged' \in BOOLEAN BY <1>3 DEF ISRDisconnect
  <2>2. connected' \in BOOLEAN BY <1>3 DEF ISRDisconnect, ResetInterface
  <2>3. told' \in BOOLEAN BY <1>3 DEF ISRDisconnect
  <2> QED BY <2>1, <2>2, <2>3
<1>4. CASE ISRVBUSError
  <2>1. plugged' \in BOOLEAN BY <1>4 DEF ISRVBUSError
  <2>2. connected' \in BOOLEAN BY <1>4 DEF ISRVBUSError, VBUSOff
  <2>3. told' \in BOOLEAN BY <1>4 DEF ISRVBUSError
  <2> QED BY <2>1, <2>2, <2>3
<1>5. CASE ISRAttach BY <1>5 DEF ISRAttach
<1>6. CASE ISRNoConnection
  <2>1. plugged' \in BOOLEAN BY <1>6 DEF ISRNoConnection
  <2>2. connected' \in BOOLEAN BY <1>6 DEF ISRNoConnection, ResetInterface
  <2>3. told' \in BOOLEAN BY <1>6 DEF ISRNoConnection
  <2> QED BY <2>1, <2>2, <2>3
<1> QED
  BY <1>1, <1>2, <1>3, <1>4, <1>5, <1>6 DEF ISRStep

LEMMA SocketKeepsBooleans ==
  ASSUME Booleans, SocketStep
  PROVE  Booleans'
<1> USE DEF Booleans, MainFrame, Quiet, Step, SetState, StartRequest, HandlerFrame,
            EnvFrame, busVars, events, Tell
<1>1. CASE Plug BY <1>1 DEF Plug
<1>2. CASE Reattach BY <1>2 DEF Reattach
<1>3. CASE Unplug BY <1>3 DEF Unplug
<1>4. CASE Connect BY <1>4 DEF Connect
<1>5. CASE NoConnection BY <1>5 DEF NoConnection
<1>6. CASE VoltageDip BY <1>6 DEF VoltageDip
<1> QED
  BY <1>1, <1>2, <1>3, <1>4, <1>5, <1>6 DEF SocketStep

LEMMA NextKeepsTypes ==
  ASSUME Types, [HostNext]_hostVars
  PROVE  Types'
<1> USE DEF Types
<1>1. CASE MainStep BY <1>1, MainKeepsValues, MainKeepsBooleans
<1>2. CASE ISRStep BY <1>2, HandlerKeepsValues, HandlerKeepsBooleans
<1>3. CASE SocketStep BY <1>3, SocketKeepsValues, SocketKeepsBooleans
<1>4. CASE UNCHANGED hostVars
  <2>1. Values' /\ Counting'
    BY <1>4 DEF Values, Counting, hostVars, mainVars, libVars, intVars, busVars, events
  <2>2. Booleans' BY <1>4 DEF Booleans, hostVars, busVars, events
  <2> QED BY <2>1, <2>2
<1> QED BY <1>1, <1>2, <1>3, <1>4 DEF HostNext, SocketStep

LEMMA InitTypes == ASSUME HostInit PROVE Types
<1>1. Values BY DEF HostInit, Values, Labels, LongLabels, WaitLabels, HostStates, ControlRequests, Interrupts
<1>2. Booleans BY DEF HostInit, Booleans
<1>3. Counting BY DEF HostInit, Counting
<1> QED BY <1>1, <1>2, <1>3 DEF Types

LEMMA TypesMean == ASSUME Values, Booleans PROVE HostTypeOK
  BY DEF HostTypeOK, Values, Booleans

LEMMA HostTypes == HostSpec => []Types
<1>1. HostInit => Types BY InitTypes
<1>2. Types /\ [HostNext]_hostVars => Types' BY NextKeepsTypes
<1> QED BY <1>1, <1>2, PTL DEF HostSpec


-----------------------------------------------------------------------------
(* Every step keeps it.                                                    *)

\* What the handler and the socket find where they can interrupt.
LEMMA Interrupted ==
  ASSUME Values, Known, pc \in LongLabels \cup {"app", "nbWait"}, ~Leaving
  PROVE  /\ pc \notin ResetLabels /\ connected => "DDISCI" \in enables
         /\ pc \notin ResetLabels /\ "VBERRI" \in enables => connected
         /\ pc \in {"app", "wait", "appUse"} /\ "SRPI" \in enables => Free
<1> USE DEF Located, Known, Free, Attached, Waiting, Connected, Pulled, Missed
<1>1. CASE pc = "app"
  <2>1. Free \/ Connected \/ Attached \/ Waiting BY <1>1 DEF InApp, Values, HostStates
  <2> QED BY <2>1, <1>1
<1>2. CASE pc \in (LongLabels \cup {"nbWait"}) \ (ResetLabels \cup {"failUnattached"})
  <2>1. Free \/ Connected \/ Attached
    BY <1>2 DEF LongLabels, WaitLabels, CtlLabels, ResetLabels
  <2> QED BY <2>1, <1>2
<1>3. CASE pc = "failUnattached" BY <1>3
<1>4. CASE pc \in ResetLabels BY <1>4 DEF ResetLabels
<1> QED BY <1>1, <1>2, <1>3, <1>4

LEMMA MainKeepsPlaces ==
  ASSUME HostPolicy = "long", Values, Values', Interruptible, Cable, Known, MainStep
  PROVE  Interruptible' /\ Cable' /\ Known'
<1> USE DEF Values, ControlRequests, Interrupts, LongLabels, WaitLabels, USB_HOST_DEVICEADDRESS, Pending,
            Frame, Reaches, DeviceAddress, DeviceToHost, DeviceActs, AtLength, Settled, Stuck,
            Known, Interruptible, Cable, Located, DeviceKnown, Leaving, CtlLabels,
            ResetLabels, AfterWait, Free, Attached, Waiting, Connected, Resetting, Gone, Pulled, Missed,
            InApp, Fresh, Assigned, InUse, About
<1> USE DEF Goto, MainFrame, Quiet, Keep, KeepLib, Step, SetState, StartRequest, Main,
            Section, HandlerFrame, ResetInterface, VBUSOff, EnvFrame,
            Tell, mainVars, libVars, busVars, intVars, events, hostVars
<1>1. CASE TaskEnter BY <1>1 DEF TaskEnter, EntryLabel
<1>2. CASE TaskDefault BY <1>2 DEF TaskDefault
<1>3. CASE TaskWait BY <1>3 DEF TaskWait
<1>4. CASE TaskSettle BY <1>4 DEF TaskSettle
<1>5. CASE TaskConnect BY <1>5 DEF TaskConnect
<1>6. CASE TaskReset BY <1>6 DEF TaskReset
<1>7. CASE Powered BY <1>7 DEF Powered
<1>8. CASE SettleDelay BY <1>8 DEF SettleDelay
<1>9. CASE SettleDone BY <1>9 DEF SettleDone
<1>10. CASE SettleState BY <1>10 DEF SettleState
<1>11. CASE ConnectClear BY <1>11 DEF ConnectClear
<1>12. CASE ConnectEnable
  <2>1. ~Leaving BY <1>12 DEF ConnectEnable
  <2>2. Waiting /\ connected /\ otgien = {"BCERRI"} BY <1>12, <2>1 DEF ConnectEnable
  <2>3. enables' = {"BCERRI", "VBERRI", "DDISCI"} BY <1>12, <2>2 DEF ConnectEnable
  <2>4. Connected' BY <1>12, <2>2, <2>3 DEF ConnectEnable
  <2>5. pc' = "nbWait" /\ session' = "attached" BY <1>12, <2>2 DEF ConnectEnable
  <2>6. next' = "Powered_DoReset" BY <1>12, <2>1 DEF ConnectEnable
  <2>7. Located' BY <2>4, <2>5, <2>6
  <2>8. DeviceKnown' BY <2>5, <2>6
  <2>9. Interruptible' /\ Cable' BY <1>12 DEF ConnectEnable
  <2> QED BY <2>7, <2>8, <2>9
<1>13. CASE NonblockWait BY <1>13 DEF NonblockWait
<1>14. CASE WaitBroken BY <1>14 DEF WaitBroken
<1>15. CASE WaitPasses BY <1>15 DEF WaitPasses
<1>16. CASE WaitNext BY <1>16 DEF WaitNext
<1>17. CASE WaitFail BY <1>17 DEF WaitFail
<1>18. CASE ResetDisable BY <1>18 DEF ResetDisable
<1>19. CASE ResetBus BY <1>19 DEF ResetBus
<1>20. CASE ResetLook BY <1>20 DEF ResetLook
<1>21. CASE ResetEnable BY <1>21 DEF ResetEnable
<1>22. CASE ConfigPipe
  <2>1. CASE SetState("configPipe", "Default", "app") BY <2>1
  <2>2. CASE Step("configPipe", "fail") BY <2>2
  <2> QED BY <1>22, <2>1, <2>2 DEF ConfigPipe
<1>23. CASE AskAddress BY <1>23 DEF AskAddress
<1>24. CASE NoPipe BY <1>24 DEF NoPipe
<1>25. CASE AddressSet BY <1>25 DEF AddressSet
<1>26. CASE AddressEvent BY <1>26 DEF AddressEvent
<1>27. CASE AddressState BY <1>27 DEF AddressState
<1>28. CASE Fail BY <1>28 DEF Fail
<1>29. CASE FailEvent BY <1>29 DEF FailEvent
<1>30. CASE FailUnattached BY <1>30 DEF FailUnattached
<1>31. CASE FailReset BY <1>31 DEF FailReset
<1>32. CASE Wait1Fails BY <1>32 DEF Wait1Fails, ControlError, AfterError
<1>33. CASE Wait1Passes BY <1>33 DEF Wait1Passes
<1>34. CASE SetupFails BY <1>34 DEF SetupFails, ControlError, AfterError
<1>35. CASE SetupSent BY <1>35 DEF SetupSent
<1>36. CASE Wait2Fails BY <1>36 DEF Wait2Fails, ControlError, AfterError
<1>37. CASE Wait2Passes BY <1>37 DEF Wait2Passes
<1>38. CASE DataFails BY <1>38 DEF DataFails, ControlError, AfterError
<1>39. CASE DataMoved BY <1>39 DEF DataMoved
<1>40. CASE StatusFails BY <1>40 DEF StatusFails, ControlError, AfterError
<1>41. CASE StatusEnds
  <2>1. ~Leaving /\ connected BY <1>41 DEF StatusEnds
  <2>2. /\ Connected /\ USB_HostState # "Unattached"
        /\ session = IF USB_ControlRequest \in {"GetDevice", "SetAddress"}
                      THEN "attached" ELSE "complete"
    BY <1>41, <2>1 DEF StatusEnds
  <2>3. UNCHANGED <<isr, flags, enables, connected, session, USB_HostState, plugged, vbus,
                    UHADDR, PostWaitState>>
    BY <1>41 DEF StatusEnds
  <2>4. pc' \notin {"wait", "waitNext", "app", "addrEvent"}
    BY <1>41, ErrorLabel, RequestLabels DEF StatusEnds
  <2>5. Interruptible' BY <1>41, <2>3 DEF StatusEnds
  <2>6. Cable'
    <3>1. /\ pc' \notin ResetLabels
          /\ pc' = "rstDis" => next' = "Default_PostReset"
          /\ pc' = "nbWait" => next' = "Default_PostAddressSet"
      BY <1>41 DEF StatusEnds, AfterRequest, AfterError
    <3> QED BY <1>41, <2>3, <2>4, <3>1 DEF StatusEnds
  <2>7. Known'
    <3> USE DEF StatusEnds, AfterRequest, AfterError
    <3>1. CASE USB_ControlRequest = "GetDevice" BY <3>1, <1>41, <2>1, <2>2, <2>3
    <3>2. CASE USB_ControlRequest = "SetAddress" BY <3>2, <1>41, <2>1, <2>2, <2>3
    <3>3. CASE USB_ControlRequest = "GetConfig" BY <3>3, <1>41, <2>1, <2>2, <2>3
    <3>4. CASE USB_ControlRequest = "SetConfig" BY <3>4, <1>41, <2>1, <2>2, <2>3
    <3>5. USB_ControlRequest \in {"GetDevice", "SetAddress", "GetConfig", "SetConfig"} OBVIOUS
    <3> QED BY <3>1, <3>2, <3>3, <3>4, <3>5
  <2> QED BY <2>5, <2>6, <2>7
<1>42. CASE AppAddressed BY <1>42 DEF AppAddressed
<1>43. CASE AskConfig BY <1>43 DEF AskConfig
<1>44. CASE NoMatch BY <1>44 DEF NoMatch
<1>45. CASE AppConfigured BY <1>45 DEF AppConfigured
<1>46. CASE AppWork BY <1>46 DEF AppWork
<1>47. CASE AppUsed BY <1>47 DEF AppUsed
<1>48. CASE AppWaitForRemoval BY <1>48 DEF AppWaitForRemoval
<1> HIDE DEF Interruptible, Cable, Known
<1> QED
  BY <1>1, <1>2, <1>3, <1>4, <1>5, <1>6, <1>7, <1>8, <1>9, <1>10, <1>11, <1>12,
     <1>13, <1>14, <1>15, <1>16, <1>17, <1>18, <1>19, <1>20, <1>21, <1>22, <1>23,
     <1>24, <1>25, <1>26, <1>27, <1>28, <1>29, <1>30, <1>31, <1>32, <1>33, <1>34,
     <1>35, <1>36, <1>37, <1>38, <1>39, <1>40, <1>41, <1>42, <1>43, <1>44, <1>45,
     <1>46, <1>47, <1>48, MainCases

LEMMA HandlerKeepsPlaces ==
  ASSUME HostPolicy = "long", Values, Values', Interruptible, Cable, Known, ISRStep
  PROVE  Interruptible' /\ Cable' /\ Known'
<1> USE DEF Values, ControlRequests, Interrupts, LongLabels, WaitLabels, USB_HOST_DEVICEADDRESS, Pending,
            Frame, Reaches, DeviceAddress, DeviceToHost, DeviceActs, AtLength, Settled, Stuck,
            Known, Interruptible, Cable, Located, DeviceKnown, Leaving, CtlLabels,
            ResetLabels, AfterWait, Free, Attached, Waiting, Connected, Resetting, Gone, Pulled, Missed,
            InApp, Fresh, Assigned, InUse, About
<1> USE DEF Goto, MainFrame, Quiet, Keep, KeepLib, Step, SetState, StartRequest, Main,
            Section, HandlerFrame, ResetInterface, VBUSOff, EnvFrame,
            Tell, mainVars, libVars, busVars, intVars, events, hostVars
<1> USE SectionNames
<1>1. CASE ISREnter BY <1>1 DEF ISREnter
<1>2. CASE ISRSkip BY <1>2 DEF ISRSkip
<1>3. CASE ISRDisconnect BY <1>3 DEF ISRDisconnect
<1>4. CASE ISRVBUSError
  <2>1. pc \in LongLabels \cup {"app", "nbWait"} BY <1>4 DEF ISRVBUSError
  <2>2. pc \notin ResetLabels => Leaving'
    <3>1. CASE Leaving BY <3>1, <1>4 DEF ISRVBUSError
    <3>2. CASE ~Leaving BY <3>2, <1>4, <2>1, Interrupted DEF ISRVBUSError
    <3> QED BY <3>1, <3>2
  <2>3. ~connected' BY <1>4 DEF ISRVBUSError
  <2>4. pc \in ResetLabels => Resetting'
    <3>1. /\ UNCHANGED <<enables, plugged>> /\ vbus' = "off"
          /\ flags' = (flags \ {"VBERRI"}) \cup (IF connected THEN {"DDISCI"} ELSE {})
      BY <1>4 DEF ISRVBUSError
    <3> QED BY <2>3, <3>1
  <2>5. /\ UNCHANGED <<pc, next, enables, plugged, UHADDR, PostWaitState>>
        /\ vbus' = "off" /\ session' = "none" /\ USB_HostState' = "Unattached"
        /\ flags' \subseteq flags \cup {"DDISCI"}
    BY <1>4 DEF ISRVBUSError
  <2>6. "SRPI" \notin flags \cap enables
    BY <1>4, SectionNames DEF ISRVBUSError
  <2>7. "DCONNI" \in flags' => Leaving'
    BY <2>2, <2>5
  <2>8. Cable' BY <2>2, <2>3, <2>4, <2>5, <2>6, <2>7
  <2>9. Interruptible' BY <1>4, <2>1 DEF ISRVBUSError
  <2>10. Known'
    <3>1. CASE pc \in ResetLabels BY <3>1, <2>1, <2>3, <2>5
    <3>2. CASE pc \notin ResetLabels BY <3>2, <2>2
    <3> QED BY <3>1, <3>2
  <2> QED BY <2>8, <2>9, <2>10
<1>5. CASE ISRAttach
  <2>1. pc \in {"app", "wait", "appUse"} /\ Pending("SRPI") BY <1>5, SectionNames DEF ISRAttach
  <2>2. ~connected' BY <1>5, <2>1 DEF ISRAttach
  <2>3. Interruptible' /\ Cable' BY <1>5, SectionNames DEF ISRAttach
  <2>4. CASE Leaving BY <2>4, <2>3, <2>1, <1>5 DEF ISRAttach
  <2>5. CASE ~Leaving
    <3>1. Free BY <2>5, <2>1, Interrupted
    <3>2. Attached' BY <3>1, <1>5 DEF ISRAttach
    <3>3. pc' = pc /\ USB_HostState' = "Powered" BY <1>5, <2>1 DEF ISRAttach
    <3>4. Located' BY <2>1, <3>2, <3>3
    <3> QED BY <3>4, <2>2, <2>3
  <2> QED BY <2>4, <2>5
<1>6. CASE ISRNoConnection BY <1>6 DEF ISRNoConnection
<1> HIDE DEF Interruptible, Cable, Known
<1> QED
  BY <1>1, <1>2, <1>3, <1>4, <1>5, <1>6 DEF ISRStep

LEMMA SocketKeepsPlaces ==
  ASSUME HostPolicy = "long", Values, Values', Interruptible, Cable, Known, SocketStep
  PROVE  Interruptible' /\ Cable' /\ Known'
<1> USE DEF Values, ControlRequests, Interrupts, LongLabels, WaitLabels, USB_HOST_DEVICEADDRESS, Pending,
            Frame, Reaches, DeviceAddress, DeviceToHost, DeviceActs, AtLength, Settled, Stuck,
            Known, Interruptible, Cable, Located, DeviceKnown, Leaving, CtlLabels,
            ResetLabels, AfterWait, Free, Attached, Waiting, Connected, Resetting, Gone, Pulled, Missed,
            InApp, Fresh, Assigned, InUse, About
<1> USE DEF Goto, MainFrame, Quiet, Keep, KeepLib, Step, SetState, StartRequest, Main,
            Section, HandlerFrame, ResetInterface, VBUSOff, EnvFrame,
            Tell, mainVars, libVars, busVars, intVars, events, hostVars
<1>1. CASE Plug BY <1>1 DEF Plug
<1>2. CASE Reattach BY <1>2 DEF Reattach
<1>3. CASE Unplug
  <2>1. pc \in LongLabels \cup {"app"} /\ isr = 0 /\ ~Leaving BY <1>3 DEF Unplug
  <2>2. connected /\ pc \notin ResetLabels => Leaving' BY <2>1, <1>3, Interrupted DEF Unplug
  <2>3. ~connected => "DCONNI" \notin flags BY <2>1
  <2>4. flags' \subseteq flags \cup {"DDISCI"} BY <1>3 DEF Unplug
  <2>5. "DCONNI" \in flags' => Leaving' BY <2>2, <2>3, <2>4
  <2>6. /\ UNCHANGED <<enables, session, pc, vbus, UHADDR, USB_HostState, PostWaitState>>
        /\ ~connected' /\ ~plugged'
    BY <1>3 DEF Unplug
  <2>7. "SRPI" \notin flags \cap enables BY <1>3 DEF Unplug
  <2>8. pc \in ResetLabels => Resetting' BY <1>3, <2>6 DEF Unplug
  <2>10. next' = next BY <1>3 DEF Unplug
  <2>11. Cable' BY <2>4, <2>5, <2>6, <2>7, <2>8, <2>10
  <2>9. Interruptible' /\ Known' BY <1>3 DEF Unplug
  <2> QED BY <2>9, <2>11
<1>4. CASE Connect
  <2>1. ~Leaving /\ pc \notin ResetLabels BY <1>4 DEF Connect
  <2>2. Waiting /\ pc \in {"app", "settleState"}
    BY <1>4, <2>1 DEF Connect, Labels, HostStates
  <2>3. pc = "app" => USB_HostState = "Powered_WaitForConnect"
    BY <2>1, <2>2 DEF HostStates
  <2>4. /\ UNCHANGED <<pc, next, enables, plugged, UHADDR, PostWaitState, vbus, isr, session,
                       USB_HostState>>
        /\ connected' /\ flags' = flags \cup {"DCONNI"}
    BY <1>4 DEF Connect
  <2>5. Cable' BY <1>4, <2>1, <2>2, <2>4 DEF Connect
  <2>6. Interruptible' BY <2>2, <2>4
  <2>7. Located' BY <2>2, <2>3, <2>4
  <2>8. DeviceKnown' BY <2>2, <2>3, <2>4
  <2> QED BY <2>5, <2>6, <2>7, <2>8
<1>5. CASE NoConnection BY <1>5 DEF NoConnection
<1>6. CASE VoltageDip BY <1>6 DEF VoltageDip
<1> HIDE DEF Interruptible, Cable, Known
<1> QED
  BY <1>1, <1>2, <1>3, <1>4, <1>5, <1>6 DEF SocketStep

LEMMA NextKeepsPlaces ==
  ASSUME HostPolicy = "long", Values, Values', Interruptible, Cable, Known,
         [HostNext]_hostVars
  PROVE  Interruptible' /\ Cable' /\ Known'
<1>1. CASE MainStep BY <1>1, MainKeepsPlaces
<1>2. CASE ISRStep BY <1>2, HandlerKeepsPlaces
<1>3. CASE SocketStep BY <1>3, SocketKeepsPlaces
<1>4. CASE UNCHANGED hostVars
  <2> USE DEF Values, ControlRequests, Interrupts, LongLabels, WaitLabels, USB_HOST_DEVICEADDRESS, Pending,
              Frame, Reaches, DeviceAddress, DeviceToHost, DeviceActs, AtLength, Settled, Stuck,
              Known, Interruptible, Cable, Located, DeviceKnown, Leaving, CtlLabels,
              ResetLabels, AfterWait, Free, Attached, Waiting, Connected, Resetting, Gone, Pulled, Missed,
              InApp, Fresh, Assigned, InUse, About
  <2> USE DEF hostVars, mainVars, libVars, intVars, busVars, events, Main
  <2>1. Interruptible' BY <1>4
  <2>2. Cable' BY <1>4
  <2>3. Known' BY <1>4
  <2> QED BY <2>1, <2>2, <2>3
<1> QED BY <1>1, <1>2, <1>3, <1>4 DEF HostNext, SocketStep

LEMMA InitPlaces == ASSUME HostInit PROVE Interruptible /\ Cable /\ Known
  BY DEF HostInit, Interruptible, Cable, Known, Pending, Leaving, Located, DeviceKnown, InApp,
         Free, Connected, About, Fresh, CtlLabels, ResetLabels, LongLabels, WaitLabels, Interrupts

LEMMA HostInvariant ==
  ASSUME HostPolicy = "long"
  PROVE  HostSpec => [](Types /\ HostInv)
<1> DEFINE Inv == Types /\ HostInv
<1>1. HostInit => Inv BY InitTypes, InitPlaces DEF HostInv
<1>2. Inv /\ [HostNext]_hostVars => Inv'
  <2> SUFFICES ASSUME Inv, [HostNext]_hostVars PROVE Inv'
    OBVIOUS
  <2>1. Types' BY NextKeepsTypes
  <2>2. Values /\ Values' BY <2>1 DEF Types
  <2>3. HostInv' BY <2>2, NextKeepsPlaces DEF HostInv
  <2> QED BY <2>1, <2>3
<1> HIDE DEF Inv
<1>3. HostSpec => []Inv BY <1>1, <1>2, PTL DEF HostSpec
<1> QED BY <1>3 DEF Inv

-----------------------------------------------------------------------------
(* The theorems.                                                           *)

\* Every variable keeps its type, whatever the cable does, and the counter of
\* USB_Host_ProcessNextHostState its 16 bits.
THEOREM HostTypeCorrect == HostSpec => []HostTypeOK
<1>1. Types => HostTypeOK BY TypesMean DEF Types
<1> QED BY <1>1, HostTypes, PTL

\* Each SETUP packet to a connected device goes to the address the device has,
\* after a bus reset.
THEOREM RequestsReach ==
  ASSUME HostPolicy = "long"
  PROVE  HostSpec => []RequestsReachDevice
<1>1. Types /\ HostInv => RequestsReachDevice
  BY DEF HostInv, Cable, Known, Located, DeviceKnown, CtlLabels, Fresh, InUse,
         RequestsReachDevice, DeviceAddress
<1> QED BY <1>1, HostInvariant, PTL

\* Whenever no device is attached for the application, the attach interrupt is
\* enabled, after every way a session ends.
THEOREM HostKeepsListening ==
  ASSUME HostPolicy = "long"
  PROVE  HostSpec => []HostListens
<1>1. Types /\ HostInv => HostListens
  <2> SUFFICES ASSUME Types, HostInv, Main("app"), session = "none" PROVE "SRPI" \in enables
    BY DEF HostListens
  <2>1. ~Leaving BY DEF Main, Pending, Leaving, Interrupts
  <2>2. InApp BY <2>1 DEF HostInv, Known, Located, Main
  <2> QED BY <2>2 DEF InApp, Free, Attached, Waiting, Connected, Types, Values, HostStates
<1> QED BY <1>1, HostInvariant, PTL

-----------------------------------------------------------------------------
(* The refinement of HostLifecycle.                                        *)

\* Every step of the stack is a step of the lifecycle or leaves it alone.
MoveOn == [Lifecycle!Next]_<<plugged, session, told>>

LEMMA MainImplements ==
  ASSUME HostInv, MainStep
  PROVE  MoveOn
<1> USE DEF MoveOn, events, Tell, Lifecycle!Tell, MainFrame, Quiet, Step, SetState, StartRequest, HandlerFrame, EnvFrame
<1>1. CASE TaskEnter BY <1>1 DEF TaskEnter
<1>2. CASE TaskDefault BY <1>2 DEF TaskDefault
<1>3. CASE TaskWait BY <1>3 DEF TaskWait
<1>4. CASE TaskSettle BY <1>4 DEF TaskSettle
<1>5. CASE TaskConnect BY <1>5 DEF TaskConnect
<1>6. CASE TaskReset BY <1>6 DEF TaskReset
<1>7. CASE Powered BY <1>7 DEF Powered
<1>8. CASE SettleDelay BY <1>8 DEF SettleDelay
<1>9. CASE SettleDone BY <1>9 DEF SettleDone
<1>10. CASE SettleState BY <1>10 DEF SettleState
<1>11. CASE ConnectClear BY <1>11 DEF ConnectClear
<1>12. CASE ConnectEnable BY <1>12 DEF ConnectEnable
<1>13. CASE NonblockWait BY <1>13 DEF NonblockWait
<1>14. CASE WaitBroken BY <1>14 DEF WaitBroken
<1>15. CASE WaitPasses BY <1>15 DEF WaitPasses
<1>16. CASE WaitNext BY <1>16 DEF WaitNext
<1>17. CASE WaitFail BY <1>17 DEF WaitFail
<1>18. CASE ResetDisable BY <1>18 DEF ResetDisable
<1>19. CASE ResetBus BY <1>19 DEF ResetBus
<1>20. CASE ResetLook BY <1>20 DEF ResetLook
<1>21. CASE ResetEnable BY <1>21 DEF ResetEnable
<1>22. CASE ConfigPipe
  <2>1. CASE SetState("configPipe", "Default", "app") BY <2>1
  <2>2. CASE Step("configPipe", "fail") BY <2>2
  <2> QED BY <1>22, <2>1, <2>2 DEF ConfigPipe
<1>23. CASE AskAddress BY <1>23 DEF AskAddress
<1>24. CASE NoPipe BY <1>24 DEF NoPipe
<1>25. CASE AddressSet BY <1>25 DEF AddressSet
<1>26. CASE AddressEvent
  <2>1. ~Leaving /\ pc = "addrEvent" BY <1>26 DEF AddressEvent, Main, Pending, Leaving, Interrupts
  <2>2. session = "attached" /\ plugged
    BY <2>1 DEF HostInv, Known, Located, Connected, Cable
  <2> QED BY <1>26, <2>2 DEF AddressEvent, Lifecycle!Complete, Lifecycle!Next
<1>27. CASE AddressState BY <1>27 DEF AddressState
<1>28. CASE Fail BY <1>28 DEF Fail
<1>29. CASE FailEvent BY <1>29 DEF FailEvent
<1>30. CASE FailUnattached
  <2>1. Lifecycle!CloseAgain \/ Lifecycle!Close
    BY <1>30 DEF FailUnattached, Lifecycle!Close, Lifecycle!CloseAgain
  <2> QED BY <1>30, <2>1 DEF FailUnattached, Lifecycle!Next
<1>31. CASE FailReset BY <1>31 DEF FailReset
<1>32. CASE Wait1Fails BY <1>32, ErrorIsStep DEF Wait1Fails
<1>33. CASE Wait1Passes BY <1>33 DEF Wait1Passes
<1>34. CASE SetupFails BY <1>34, ErrorIsStep DEF SetupFails
<1>35. CASE SetupSent BY <1>35 DEF SetupSent
<1>36. CASE Wait2Fails BY <1>36, ErrorIsStep DEF Wait2Fails
<1>37. CASE Wait2Passes BY <1>37 DEF Wait2Passes
<1>38. CASE DataFails BY <1>38, ErrorIsStep DEF DataFails
<1>39. CASE DataMoved BY <1>39 DEF DataMoved
<1>40. CASE StatusFails BY <1>40, ErrorIsStep DEF StatusFails
<1>41. CASE StatusEnds BY <1>41 DEF StatusEnds
<1>42. CASE AppAddressed BY <1>42 DEF AppAddressed
<1>43. CASE AskConfig BY <1>43 DEF AskConfig
<1>44. CASE NoMatch BY <1>44 DEF NoMatch
<1>45. CASE AppConfigured BY <1>45 DEF AppConfigured
<1>46. CASE AppWork BY <1>46 DEF AppWork
<1>47. CASE AppUsed BY <1>47 DEF AppUsed
<1>48. CASE AppWaitForRemoval BY <1>48 DEF AppWaitForRemoval
<1> QED
  BY <1>1, <1>2, <1>3, <1>4, <1>5, <1>6, <1>7, <1>8, <1>9, <1>10, <1>11, <1>12,
     <1>13, <1>14, <1>15, <1>16, <1>17, <1>18, <1>19, <1>20, <1>21, <1>22, <1>23,
     <1>24, <1>25, <1>26, <1>27, <1>28, <1>29, <1>30, <1>31, <1>32, <1>33, <1>34,
     <1>35, <1>36, <1>37, <1>38, <1>39, <1>40, <1>41, <1>42, <1>43, <1>44, <1>45,
     <1>46, <1>47, <1>48, MainCases

LEMMA HandlerImplements ==
  ASSUME HostInv, ISRStep
  PROVE  MoveOn
<1> USE DEF MoveOn, events, Tell, Lifecycle!Tell, MainFrame, Quiet, Step, SetState, StartRequest, HandlerFrame, EnvFrame
<1>1. CASE ISREnter BY <1>1 DEF ISREnter
<1>2. CASE ISRSkip BY <1>2 DEF ISRSkip
<1>3. CASE ISRDisconnect
  <2>1. Lifecycle!CloseAgain \/ Lifecycle!Close
    BY <1>3 DEF ISRDisconnect, Lifecycle!Close, Lifecycle!CloseAgain
  <2> QED BY <1>3, <2>1 DEF ISRDisconnect, Lifecycle!Next
<1>4. CASE ISRVBUSError
  <2>1. Lifecycle!CloseAgain \/ Lifecycle!Close
    BY <1>4 DEF ISRVBUSError, Lifecycle!Close, Lifecycle!CloseAgain
  <2> QED BY <1>4, <2>1 DEF ISRVBUSError, Lifecycle!Next
<1>5. CASE ISRAttach
  <2>1. Pending("SRPI") BY <1>5, SectionNames DEF ISRAttach
  <2>2. session = "none" /\ plugged BY <2>1 DEF HostInv, Cable, Pending
  <2> QED BY <1>5, <2>2 DEF ISRAttach, Lifecycle!Attach, Lifecycle!Next
<1>6. CASE ISRNoConnection
  <2>1. Lifecycle!CloseAgain \/ Lifecycle!Close
    BY <1>6 DEF ISRNoConnection, Lifecycle!Close, Lifecycle!CloseAgain
  <2> QED BY <1>6, <2>1 DEF ISRNoConnection, Lifecycle!Next
<1> QED
  BY <1>1, <1>2, <1>3, <1>4, <1>5, <1>6 DEF ISRStep

LEMMA SocketImplements ==
  ASSUME HostInv, SocketStep
  PROVE  MoveOn
<1> USE DEF MoveOn, events, Tell, Lifecycle!Tell, MainFrame, Quiet, Step, SetState, StartRequest, HandlerFrame, EnvFrame
<1>1. CASE Plug BY <1>1 DEF Plug, Lifecycle!Plug, Lifecycle!Next
<1>2. CASE Reattach BY <1>2 DEF Reattach
<1>3. CASE Unplug BY <1>3 DEF Unplug, Lifecycle!Unplug, Lifecycle!Next
<1>4. CASE Connect BY <1>4 DEF Connect
<1>5. CASE NoConnection BY <1>5 DEF NoConnection
<1>6. CASE VoltageDip BY <1>6 DEF VoltageDip
<1> QED
  BY <1>1, <1>2, <1>3, <1>4, <1>5, <1>6 DEF SocketStep

\* The stack tells the application of attachments and complete enumerations
\* once, in order, for a device that is there, and of removals once or more.
THEOREM HostImplementsLifecycle ==
  ASSUME HostPolicy = "long"
  PROVE  HostSpec => ImplementsLifecycle
<1>1. HostInit => Lifecycle!Init BY DEF HostInit, Lifecycle!Init
<1>2. Types /\ HostInv /\ [HostNext]_hostVars => [Lifecycle!Next]_(Lifecycle!vars)
  <2> SUFFICES ASSUME HostInv, [HostNext]_hostVars PROVE MoveOn
    BY DEF MoveOn, Lifecycle!vars
  <2>1. CASE MainStep BY <2>1, MainImplements
  <2>2. CASE ISRStep BY <2>2, HandlerImplements
  <2>3. CASE SocketStep BY <2>3, SocketImplements
  <2>4. CASE UNCHANGED hostVars BY <2>4 DEF hostVars, events, MoveOn
  <2> QED BY <2>1, <2>2, <2>3, <2>4 DEF HostNext, SocketStep
<1> QED BY <1>1, <1>2, HostInvariant, PTL DEF HostSpec, ImplementsLifecycle, Lifecycle!Spec
=============================================================================
