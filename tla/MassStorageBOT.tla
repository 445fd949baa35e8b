---------------------------- MODULE MassStorageBOT ----------------------------
(***************************************************************************)
(* Mass storage bulk-only transport between the class driver in device     *)
(* mode (Class/Device/MassStorage.c) with the demo's SCSI layer and block  *)
(* transfer loops, and a host: either the class driver in host mode        *)
(* (Class/Host/MassStorage.c) under an application that stops at the first *)
(* error, as the demo does, or a host that follows the transport's         *)
(* specification and recovers.                                             *)
(*                                                                         *)
(* The device demo is built with INTERRUPT_CONTROL_ENDPOINT: a control     *)
(* request runs whole in ISR(USB_COM_vect), between any two steps of the   *)
(* main program.  Packets are whole: a command block, one packet of data,  *)
(* or a status block.                                                      *)
(***************************************************************************)
EXTENDS Naturals

CONSTANTS
  HostKinds,          \* kinds of host to try: "LUFA", "BOT"
  Operations,         \* SCSI operations the host uses
  BlockPackets,       \* packets of a READ (10) or WRITE (10)
  TotalLUNs,          \* Config.TotalLUNs of the device
  TAG_MAX,            \* the tag the host wraps at (0xFFFFFFFF)
  DataINPipe, DataOUTPipe,           \* Config of the host's interface
  DataINEndpoint, DataOUTEndpoint    \* Config of the device's interface

Inquiries  == {"INQUIRY", "REQUEST_SENSE", "READ_CAPACITY"}
NoDataOps  == {"TEST_UNIT_READY", "PREVENT_ALLOW_MEDIUM_REMOVAL"}

ASSUME ConstantsAssumption ==
  /\ HostKinds \subseteq {"LUFA", "BOT"}
  /\ Operations \subseteq Inquiries \cup NoDataOps \cup {"READ", "WRITE"} /\ Operations # {}
  /\ BlockPackets \in Nat \ {0} /\ TotalLUNs \in Nat \ {0}
  /\ TAG_MAX \in Nat /\ TAG_MAX > 1
  /\ {DataINPipe, DataOUTPipe, DataINEndpoint, DataOUTEndpoint} \subseteq 1..6
  /\ DataINPipe # DataOUTPipe /\ DataINEndpoint # DataOUTEndpoint

VARIABLES
  \* The device.
  dpc,                \* next step of MS_Device_USBTask
  CommandBlock,       \* State.CommandBlock
  Status,             \* State.CommandStatus.Status
  dleft,              \* packets of data left to move
  IsMassStoreReset,
  inBank, outBank,    \* the endpoints' banks
  stalled,            \* endpoints that answer STALL
  \* The host.
  kind, hpc,
  command,            \* the command block it sent last
  hleft,              \* packets of data it still expects or sends
  TransactionTag,
  inPipe, outPipe,    \* the pipes' banks
  halted,             \* pipes that received STALL
  \* History.
  executed,           \* tags of commands the device has carried out
  gaveUp,             \* a wait of the device ran out since the command was sent
  mixed,              \* the host took something else for the data it waited for
  cleared             \* pipes whose stall the host has asked to clear

deviceVars == <<dpc, CommandBlock, Status, dleft>>
busVars    == <<inBank, outBank, stalled>>
hostVars   == <<kind, hpc, command, hleft, TransactionTag>>
pipeVars   == <<inPipe, outPipe, halted>>
ghostVars  == <<executed, gaveUp, mixed, cleared>>
vars == <<deviceVars, IsMassStoreReset, busVars, hostVars, pipeVars, ghostVars>>

\* What the host may ask for: a unit that is not there, parameters the device
\* does not take.
Commands ==
  {c \in [op : Operations, lun : 0..TotalLUNs, valid : BOOLEAN] :
     c.op \in NoDataOps \cup {"REQUEST_SENSE", "READ_CAPACITY"} => c.valid}

Direction(op) == IF op = "WRITE" THEN "out" ELSE IF op \in NoDataOps THEN "none" ELSE "in"
Packets(op)   == IF op \in NoDataOps THEN 0 ELSE IF op \in Inquiries THEN 1 ELSE BlockPackets

Tags   == 0..TAG_MAX
Empty  == [type |-> "empty"]
CBW    == [type : {"cbw"}, tag : Tags, what : Commands]
Data   == [type : {"data"}, tag : Tags]
CSW    == [type : {"csw"}, tag : Tags, status : {"Pass", "Fail"}]
Packet == {Empty} \cup CBW \cup Data \cup CSW
NoCommand == [type |-> "cbw", tag |-> 0, what |-> CHOOSE c \in Commands : TRUE]

TypeOK ==
  /\ dpc \in {"task", "read", "refuse", "decode", "dataIN", "dataOUT", "clearOUT",
              "status", "stall", "statusOUT", "statusIN", "csw",
              "resetTest", "clearStalls", "resetDone"}
  /\ CommandBlock \in CBW /\ Status \in {"Pass", "Fail"} /\ dleft \in 0..BlockPackets
  /\ IsMassStoreReset \in BOOLEAN
  /\ {inBank, outBank, inPipe, outPipe} \subseteq Packet
  /\ stalled \subseteq {"in", "out"} /\ halted \subseteq {"in", "out"}
  /\ kind \in HostKinds /\ command \in CBW /\ hleft \in 0..BlockPackets
  /\ hpc \in {"idle", "cbw", "dataWait", "in", "out", "outWait", "statusWait", "done",
              "clearIN", "clearOUT", "reset", "resetIN", "resetOUT", "stopped"}
  /\ TransactionTag \in Tags \ {TAG_MAX}
  /\ executed \subseteq Tags /\ gaveUp \in BOOLEAN /\ mixed \in BOOLEAN
  /\ cleared \subseteq {"in", "out"}

\* MS_Device_ConfigureEndpoints and MS_Host_ConfigurePipes have run.
Init ==
  /\ dpc = "task" /\ CommandBlock = NoCommand /\ Status = "Pass" /\ dleft = 0
  /\ IsMassStoreReset = FALSE
  /\ inBank = Empty /\ outBank = Empty /\ stalled = {}
  /\ kind \in HostKinds /\ hpc = "idle" /\ command = NoCommand /\ hleft = 0
  /\ TransactionTag = 0
  /\ inPipe = Empty /\ outPipe = Empty /\ halted = {}
  /\ executed = {} /\ gaveUp = FALSE /\ mixed = FALSE /\ cleared = {}

-----------------------------------------------------------------------------
(* MS_Device_USBTask and what it calls.                                    *)

At(l)       == dpc = l
Then(l)     == dpc' = l
HostFrame   == UNCHANGED <<hostVars, pipeVars, mixed, cleared>>
DeviceFrame == UNCHANGED IsMassStoreReset /\ HostFrame
NoWait      == UNCHANGED gaveUp
Branch(from, to) ==
  /\ At(from) /\ Then(to)
  /\ UNCHANGED <<CommandBlock, Status, dleft, busVars, executed>> /\ NoWait /\ DeviceFrame

\* Endpoint_IsReadWriteAllowed of the OUT endpoint.
OUTReadable == outBank # Empty /\ "out" \notin stalled

DeviceTask == Branch("task", IF OUTReadable THEN "read" ELSE "resetTest")

\* MS_Device_ReadInCommandBlock.  What is refused stays in the bank.  A host
\* may have had the endpoint cleared since it was found readable; the wait
\* then takes what comes next or runs out.
Acceptable(p) == p.type = "cbw" /\ p.what.lun < TotalLUNs

ReadCommand ==
  /\ At("read") /\ outBank # Empty
  /\ \/ /\ Acceptable(outBank)
        /\ CommandBlock' = outBank /\ outBank' = Empty /\ Then("decode")
        /\ UNCHANGED stalled
     \/ /\ ~Acceptable(outBank)
        /\ stalled' = stalled \cup {"out"} /\ Then("refuse")
        /\ UNCHANGED <<CommandBlock, outBank>>
  /\ UNCHANGED <<Status, dleft, inBank, executed>> /\ NoWait /\ DeviceFrame

Refuse ==
  /\ At("refuse") /\ Then("resetTest")
  /\ stalled' = stalled \cup {"in"}
  /\ UNCHANGED <<CommandBlock, Status, dleft, inBank, outBank, executed>> /\ NoWait /\ DeviceFrame

\* Mutant: parameters out of range do not fail the command.
DecodeWithoutSense ==
  /\ At("decode") /\ Status' = "Pass"
  /\ LET c == CommandBlock.what IN
       /\ dleft' = IF c.valid THEN Packets(c.op) ELSE 0
       /\ Then(IF ~c.valid \/ c.op \in NoDataOps THEN "status"
               ELSE IF Direction(c.op) = "in" THEN "dataIN" ELSE "dataOUT")
       /\ executed' = IF c.op \in NoDataOps THEN executed \cup {CommandBlock.tag} ELSE executed
  /\ UNCHANGED <<CommandBlock, busVars>> /\ NoWait /\ DeviceFrame

\* SCSI_DecodeSCSICommand up to the transfer of data.
Decode ==
  /\ At("decode")
  /\ LET c == CommandBlock.what IN
       /\ Status' = IF c.valid THEN "Pass" ELSE "Fail"
       /\ dleft' = IF c.valid THEN Packets(c.op) ELSE 0
       /\ Then(IF ~c.valid \/ c.op \in NoDataOps THEN "status"
               ELSE IF Direction(c.op) = "in" THEN "dataIN" ELSE "dataOUT")
       /\ executed' = IF c.op \in NoDataOps THEN executed \cup {CommandBlock.tag} ELSE executed
  /\ UNCHANGED <<CommandBlock, busVars>> /\ NoWait /\ DeviceFrame

Carried == IF dleft = 1 THEN executed \cup {CommandBlock.tag} ELSE executed

\* A packet to the host.  READ (10) looks at the reset before a packet is
\* sent, the inquiries never do.
SendData ==
  /\ At("dataIN") /\ inBank = Empty
  /\ IF CommandBlock.what.op = "READ" /\ IsMassStoreReset
     THEN Then("status") /\ UNCHANGED <<inBank, dleft, executed>>
     ELSE /\ inBank' = [type |-> "data", tag |-> CommandBlock.tag]
          /\ dleft' = dleft - 1 /\ executed' = Carried
          /\ Then(IF dleft = 1 THEN "status" ELSE "dataIN")
  /\ UNCHANGED <<CommandBlock, Status, outBank, stalled>> /\ NoWait /\ DeviceFrame

\* A packet from the host is taken to the flash; a reset leaves it in the bank.
WriteData ==
  /\ At("dataOUT") /\ outBank # Empty
  /\ IF IsMassStoreReset THEN Then("status") /\ UNCHANGED <<dleft, executed>>
     ELSE Then("clearOUT") /\ dleft' = dleft - 1 /\ executed' = Carried
  /\ UNCHANGED <<CommandBlock, Status, busVars>> /\ NoWait /\ DeviceFrame

ClearData ==
  /\ At("clearOUT") /\ Then(IF dleft = 0 THEN "status" ELSE "dataOUT")
  /\ outBank' = Empty
  /\ UNCHANGED <<CommandBlock, Status, dleft, inBank, stalled, executed>> /\ NoWait /\ DeviceFrame

\* Endpoint_WaitUntilReady runs out, or finds the endpoint stalled.  The
\* caller leaves, and the command counts as done.
WaitOf == [l \in {"read", "dataIN", "dataOUT", "csw"} |->
             IF l \in {"read", "dataOUT"} THEN "out" ELSE "in"]
AfterWait == [l \in {"read", "dataIN", "dataOUT", "csw"} |->
             IF l \in {"read", "csw"} THEN "resetTest" ELSE "status"]

DeviceGivesUp ==
  /\ dpc \in DOMAIN WaitOf
  /\ IF WaitOf[dpc] = "out" THEN outBank = Empty ELSE inBank # Empty
  /\ Then(AfterWait[dpc])
  /\ gaveUp' = TRUE
  /\ UNCHANGED <<CommandBlock, Status, dleft, busVars, executed>> /\ DeviceFrame

\* The residue of a failed command is the data it asked for.
ReturnStatus ==
  Branch("status", IF Status = "Fail" /\ Packets(CommandBlock.what.op) > 0
                   THEN "stall" ELSE "statusOUT")

StallData ==
  /\ At("stall") /\ Then("statusOUT")
  /\ stalled' = stalled \cup {Direction(CommandBlock.what.op)}
  /\ UNCHANGED <<CommandBlock, Status, dleft, inBank, outBank, executed>> /\ NoWait /\ DeviceFrame

\* Mutant: the wait for the host to clear the stall ignores a reset.
StatusWaitIgnoresReset ==
  \/ "out" \notin stalled /\ Branch("statusOUT", "statusIN")
  \/ "in" \notin stalled /\ Branch("statusIN", "csw")

\* MS_Device_ReturnCommandStatus waits for both stalls to be cleared.
StatusWait ==
  \/ "out" \notin stalled /\ Branch("statusOUT", "statusIN")
  \/ "in" \notin stalled /\ Branch("statusIN", "csw")
  \/ "out" \in stalled /\ IsMassStoreReset /\ Branch("statusOUT", "resetTest")
  \/ "in" \in stalled /\ IsMassStoreReset /\ Branch("statusIN", "resetTest")

SendStatus ==
  /\ At("csw") /\ inBank = Empty /\ Then("resetTest")
  /\ inBank' = [type |-> "csw", tag |-> CommandBlock.tag, status |-> Status]
  /\ UNCHANGED <<CommandBlock, Status, dleft, outBank, stalled, executed>> /\ NoWait /\ DeviceFrame

\* Mutant: a reset leaves what the host sent.
ResetKeepsOUT ==
  \/ ~IsMassStoreReset /\ Branch("resetTest", "task")
  \/ /\ At("resetTest") /\ IsMassStoreReset /\ Then("clearStalls")
     /\ inBank' = Empty
     /\ UNCHANGED <<CommandBlock, Status, dleft, outBank, stalled, executed>> /\ NoWait /\ DeviceFrame

\* The end of MS_Device_USBTask.
ResetTest ==
  \/ ~IsMassStoreReset /\ Branch("resetTest", "task")
  \/ /\ At("resetTest") /\ IsMassStoreReset /\ Then("clearStalls")
     /\ inBank' = Empty /\ outBank' = Empty
     /\ UNCHANGED <<CommandBlock, Status, dleft, stalled, executed>> /\ NoWait /\ DeviceFrame

ClearStalls ==
  /\ At("clearStalls") /\ Then("resetDone")
  /\ stalled' = {}
  /\ UNCHANGED <<CommandBlock, Status, dleft, inBank, outBank, executed>> /\ NoWait /\ DeviceFrame

ResetDone ==
  /\ At("resetDone") /\ Then("task") /\ IsMassStoreReset' = FALSE
  /\ UNCHANGED <<CommandBlock, Status, dleft, busVars, executed>> /\ NoWait /\ HostFrame

DeviceStep ==
  \/ DeviceTask \/ ReadCommand \/ Refuse \/ Decode \/ SendData \/ WriteData \/ ClearData
  \/ DeviceGivesUp \/ ReturnStatus \/ StallData \/ StatusWait \/ SendStatus
  \/ ResetTest \/ ClearStalls \/ ResetDone

-----------------------------------------------------------------------------
(* The bus.  A pipe sends and asks only while the host has it unfrozen.    *)

BusFrame == UNCHANGED <<deviceVars, IsMassStoreReset, hostVars, ghostVars, stalled>>
Waiting  == hpc \in {"dataWait", "statusWait"}

DeliverOUT ==
  /\ outPipe # Empty /\ "out" \notin halted
  /\ Waiting \/ hpc \in {"cbw", "out", "outWait"}
  /\ \/ /\ "out" \in stalled /\ halted' = halted \cup {"out"} /\ UNCHANGED <<outBank, outPipe>>
     \/ /\ "out" \notin stalled /\ outBank = Empty
        /\ outBank' = outPipe /\ outPipe' = Empty /\ UNCHANGED halted
  /\ UNCHANGED <<inBank, inPipe>> /\ BusFrame

DeliverIN ==
  /\ inPipe = Empty /\ "in" \notin halted
  /\ Waiting \/ hpc = "in"
  /\ \/ /\ "in" \in stalled /\ halted' = halted \cup {"in"} /\ UNCHANGED <<inBank, inPipe>>
     \/ /\ "in" \notin stalled /\ inBank # Empty
        /\ inPipe' = inBank /\ inBank' = Empty /\ UNCHANGED halted
  /\ UNCHANGED <<outBank, outPipe>> /\ BusFrame

-----------------------------------------------------------------------------
(* The host: what both kinds do.                                           *)

Host(k, l) == kind = k /\ hpc = l
Move(l)    == hpc' = l
SameHost   == UNCHANGED <<kind, command, TransactionTag>>
SameDevice == UNCHANGED <<deviceVars, IsMassStoreReset, busVars, executed, gaveUp>>
HostMove(k, from, to) ==
  /\ Host(k, from) /\ Move(to)
  /\ SameHost /\ SameDevice /\ UNCHANGED <<hleft, pipeVars, mixed, cleared>>

\* Mutant: the tag is not kept within its width.
SendCommandNoWrap ==
  /\ hpc = "idle" /\ outPipe = Empty
  /\ \E c \in Commands :
       /\ kind = "LUFA" /\ c.op = "INQUIRY" => c.valid
       /\ command' = [type |-> "cbw", tag |-> TransactionTag + 1, what |-> c]
       /\ outPipe' = command' /\ hleft' = Packets(c.op)
  /\ TransactionTag' = TransactionTag + 1
  /\ executed' = executed \ {TransactionTag + 1} /\ mixed' = FALSE /\ gaveUp' = FALSE
  /\ Move("cbw")
  /\ UNCHANGED <<kind, deviceVars, IsMassStoreReset, busVars, inPipe, halted, cleared>>

\* The first half of MS_Host_SendCommand.  The host's own inquiries are valid.
SendCommand ==
  /\ hpc = "idle" /\ outPipe = Empty
  /\ \E c \in Commands :
       /\ kind = "LUFA" /\ c.op = "INQUIRY" => c.valid
       /\ command' = [type |-> "cbw", tag |-> TransactionTag + 1, what |-> c]
       /\ outPipe' = command' /\ hleft' = Packets(c.op)
  /\ TransactionTag' = IF TransactionTag + 1 = TAG_MAX THEN 1 ELSE TransactionTag + 1
  /\ executed' = executed \ {TransactionTag + 1} /\ mixed' = FALSE /\ gaveUp' = FALSE
  /\ Move("cbw")
  /\ UNCHANGED <<kind, deviceVars, IsMassStoreReset, busVars, inPipe, halted, cleared>>

DataStage == CASE Direction(command.what.op) = "none" -> "statusWait"
               [] Direction(command.what.op) = "out"  -> "out"
               [] OTHER -> IF kind = "LUFA" THEN "dataWait" ELSE "in"

\* Data is read until it is all there; the LUFA host takes a short packet for
\* part of it, the other for the end.
TakeData ==
  /\ hpc = "in" /\ inPipe # Empty
  /\ inPipe' = Empty
  /\ IF inPipe.type = "data"
     THEN /\ hleft' = hleft - 1 /\ Move(IF hleft = 1 THEN "statusWait" ELSE "in")
          /\ UNCHANGED mixed
     ELSE /\ mixed' = TRUE /\ Move(IF kind = "LUFA" THEN "in" ELSE "statusWait")
          /\ UNCHANGED hleft
  /\ SameHost /\ SameDevice /\ UNCHANGED <<outPipe, halted, cleared>>

PutData ==
  /\ hpc = "out" /\ outPipe = Empty
  /\ outPipe' = [type |-> "data", tag |-> command.tag]
  /\ hleft' = hleft - 1 /\ Move(IF hleft = 1 THEN "outWait" ELSE "out")
  /\ SameHost /\ SameDevice /\ UNCHANGED <<inPipe, halted, mixed, cleared>>

\* The status has been read; whatever it says, the application goes on.
Done ==
  /\ hpc = "done" /\ Move("idle") /\ inPipe' = Empty /\ cleared' = {}
  /\ SameHost /\ SameDevice /\ UNCHANGED <<hleft, outPipe, halted, mixed>>

DataSent == outPipe = Empty /\ HostMove(kind, "outWait", "statusWait")

-----------------------------------------------------------------------------
(* The class driver in host mode.                                          *)

\* CLEAR FEATURE (ENDPOINT HALT), served by the device's interrupt handler.
EndpointOf(n) == IF n = DataINEndpoint THEN "in" ELSE IF n = DataOUTEndpoint THEN "out" ELSE "none"

ClearFeature(e) ==
  /\ stalled' = stalled \ {e}
  /\ inBank'  = IF e = "in"  THEN Empty ELSE inBank
  /\ outBank' = IF e = "out" THEN Empty ELSE outBank

\* The result of the wait for the command block to leave is not used.
CommandSent ==
  HostMove("LUFA", "cbw", DataStage)

\* MS_Host_WaitForDataReceived.  The stall flag of the pipe stays set.
Received == inPipe # Empty /\
  (HostMove("LUFA", "dataWait", "in") \/ HostMove("LUFA", "statusWait", "done"))

PipeNumber(e) == IF e = "in" THEN DataINPipe ELSE DataOUTPipe

PipeStalled ==
  /\ kind = "LUFA" /\ Waiting /\ inPipe = Empty /\ halted # {}
  /\ LET e == IF "out" \in halted THEN "out" ELSE "in" IN
       ClearFeature(EndpointOf(PipeNumber(e))) /\ cleared' = {e}
  /\ Move("stopped")
  /\ SameHost /\ UNCHANGED <<hleft, pipeVars, mixed, deviceVars, IsMassStoreReset, executed, gaveUp>>

\* Every other wait stops at a stall, and every wait but one runs out.
Fails ==
  \/ inPipe = Empty /\ \E l \in {"dataWait", "in", "statusWait"} : HostMove("LUFA", l, "stopped")
  \/ outPipe # Empty /\ HostMove("LUFA", "out", "stopped")

\* Mutant: the pipes are not cleared for a new device.
ReplugKeepsPipes ==
  /\ kind = "LUFA" /\ hpc # "idle" /\ Move("idle")
  /\ Then("task") /\ CommandBlock' = NoCommand /\ Status' = "Pass" /\ dleft' = 0
  /\ IsMassStoreReset' = FALSE /\ inBank' = Empty /\ outBank' = Empty /\ stalled' = {}
  /\ hleft' = 0 /\ TransactionTag' = 0 /\ command' = NoCommand
  /\ cleared' = {} /\ executed' = {} /\ gaveUp' = FALSE /\ mixed' = FALSE
  /\ UNCHANGED <<kind, pipeVars>>

\* The user pulls the device and plugs it in again, and it is enumerated.
Replug ==
  /\ kind = "LUFA" /\ hpc # "idle" /\ Move("idle")
  /\ Then("task") /\ CommandBlock' = NoCommand /\ Status' = "Pass" /\ dleft' = 0
  /\ IsMassStoreReset' = FALSE /\ inBank' = Empty /\ outBank' = Empty /\ stalled' = {}
  /\ hleft' = 0 /\ TransactionTag' = 0 /\ command' = NoCommand
  /\ inPipe' = Empty /\ outPipe' = Empty /\ halted' = {} /\ cleared' = {}
  /\ executed' = {} /\ gaveUp' = FALSE /\ mixed' = FALSE /\ UNCHANGED kind

-----------------------------------------------------------------------------
(* A host that follows the transport's specification.                      *)

BOTCommandSent == outPipe = Empty /\ HostMove("BOT", "cbw", DataStage)

BOTStalled ==
  \/ "out" \in halted /\ HostMove("BOT", "cbw", "reset")
  \/ "in"  \in halted /\ HostMove("BOT", "in", "clearIN")
  \/ "out" \in halted /\ \E l \in {"out", "outWait"} : HostMove("BOT", l, "clearOUT")
  \/ "in"  \in halted /\ HostMove("BOT", "statusWait", "clearIN")

BOTReceived ==
  /\ inPipe # Empty
  /\ HostMove("BOT", "statusWait",
       IF inPipe.type = "csw" /\ inPipe.tag = command.tag THEN "done" ELSE "reset")

BOTTimeout == \E l \in {"cbw", "in", "out", "outWait", "statusWait"} :
                 HostMove("BOT", l, "reset")

BOTClear(from, e, to) ==
  /\ Host("BOT", from) /\ Move(to)
  /\ ClearFeature(e) /\ halted' = halted \ {e}
  /\ inPipe'  = IF e = "in"  THEN Empty ELSE inPipe
  /\ outPipe' = IF e = "out" THEN Empty ELSE outPipe
  /\ SameHost /\ UNCHANGED <<hleft, mixed, cleared, deviceVars, IsMassStoreReset, executed, gaveUp>>

\* MS_Device_ProcessControlRequest.  The host gives the device the time to
\* serve a reset.
BOTReset ==
  /\ Host("BOT", "reset") /\ Move("resetIN") /\ IsMassStoreReset' = TRUE
  /\ SameHost /\ UNCHANGED <<hleft, pipeVars, mixed, cleared, deviceVars, busVars, executed, gaveUp>>

BOTRecovery ==
  \/ BOTClear("clearIN", "in", "statusWait")
  \/ BOTClear("clearOUT", "out", "statusWait")
  \/ ~IsMassStoreReset /\ BOTClear("resetIN", "in", "resetOUT")
  \/ BOTClear("resetOUT", "out", "idle")

HostStep ==
  \/ SendCommand \/ TakeData \/ PutData \/ DataSent \/ Done
  \/ CommandSent \/ Received \/ PipeStalled \/ Fails
  \/ BOTCommandSent \/ BOTStalled \/ BOTReceived \/ BOTTimeout \/ BOTReset \/ BOTRecovery

Next == DeviceStep \/ DeliverOUT \/ DeliverIN \/ HostStep \/ Replug

\* Both programs run on; the bus delivers what can be delivered.  Nobody has
\* to replug.
Fairness == WF_vars(DeviceStep) /\ WF_vars(HostStep) /\ WF_vars(DeliverOUT) /\ WF_vars(DeliverIN)
Spec == Init /\ [][Next]_vars /\ Fairness

-----------------------------------------------------------------------------
(* Properties.                                                             *)

\* A command is reported good exactly when the device carried it out and the
\* host took nothing else for its data, and then the class driver in host mode
\* has moved all of it; only a wait of the device that ran out, whose result the
\* SCSI layer drops, can make a difference.
SuccessMeansDone ==
  hpc = "done" /\ ~gaveUp =>
    /\ (inPipe.status = "Pass") = (command.tag \in executed /\ ~mixed)
    /\ kind = "LUFA" => hleft = 0

\* Neither side takes a packet of another command, or of another kind, for the
\* status or the data it waits for: a late status never survives timeouts,
\* stalls, resets and replugging, though the class driver in host mode does not
\* compare the tags.
PacketsOfCommand ==
  /\ hpc \in {"statusWait", "done"} /\ inPipe.type = "csw" => inPipe.tag = command.tag
  /\ hpc = "done" => inPipe.type = "csw"
  /\ dpc = "clearOUT" => outBank = [type |-> "data", tag |-> CommandBlock.tag]
  /\ hpc = "in" /\ inPipe.type = "data" => inPipe.tag = command.tag

\* When a host that recovers is done with a command, by whatever way, nothing
\* of it is left to spoil the next.
NothingLeftBehind ==
  kind = "BOT" /\ hpc = "idle" /\ ~gaveUp => stalled = {} /\ inBank = Empty /\ outBank = Empty

\* The wait of MS_Host_SendReceiveData for the last packet of a write has no
\* way out when the device stalls it.
HangsOnStalledWrite == Host("LUFA", "outWait") /\ "out" \in halted

\* A command the host starts ends, with a result, an error or a recovery.
CommandsEnd == [](hpc = "cbw" => <>(hpc \in {"idle", "stopped"} \/ HangsOnStalledWrite))

\* The device comes back to its main loop from every stage of every command,
\* unless its host is one that has stopped or hangs with the stall not cleared.
DeviceReturns == []<>(dpc = "task" \/ Host("LUFA", "stopped") \/ HangsOnStalledWrite)

\* The stall of a pipe the host asks to clear is cleared.
StallIsCleared == cleared \cap stalled = {}
=============================================================================
