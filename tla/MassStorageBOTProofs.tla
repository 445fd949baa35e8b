------------------------ MODULE MassStorageBOTProofs ------------------------
(***************************************************************************)
(* Proofs of the safety invariants of MassStorageBOT, for every set of     *)
(* operations, length of a transfer, number of units, width of the tag and *)
(* choice of pipes and endpoints.                                          *)
(*                                                                         *)
(* Types is TypeOK; Protocol is what makes the properties inductive: where *)
(* the command the host is about can be, what it has left behind, which    *)
(* stalls can be set meanwhile, and how much data is still on its way.     *)
(***************************************************************************)
EXTENDS MassStorageBOT, TLAPS

\* The device is at work on the command block it has read.
Processing == dpc \in {"decode", "dataIN", "dataOUT", "clearOUT", "status", "stall",
                       "statusOUT", "statusIN", "csw"}

\* It has not yet stalled an endpoint for it.
BeforeStall == dpc \in {"decode", "dataIN", "dataOUT", "clearOUT", "status", "stall"}

Op == command.what.op

\* The counters, and where the host can be with which kind of command.
Counters ==
  /\ dpc \in {"dataIN", "dataOUT"} => dleft > 0
  /\ hpc \in {"in", "out", "dataWait"} => hleft > 0
  /\ hpc = "cbw" => hleft = Packets(Op)
  /\ hpc \in {"in", "dataWait"} => Direction(Op) = "in"
  /\ hpc \in {"out", "outWait", "clearOUT"} => Direction(Op) = "out"
  /\ dpc = "stall" => Direction(CommandBlock.what.op) # "none" /\ Status = "Fail"
  /\ dpc = "dataIN" => Direction(Op) = "in"
  /\ dpc \in {"dataOUT", "clearOUT"} => Direction(Op) = "out"
  /\ hpc \in {"clearIN", "clearOUT", "reset", "resetIN", "resetOUT"} => kind = "BOT"
  /\ hpc \in {"dataWait", "stopped"} => kind = "LUFA"

\* A mass storage reset is served while the host waits for it, and leaves
\* nothing in the device.
Resets ==
  /\ IsMassStoreReset => hpc = "resetIN"
  /\ dpc \in {"clearStalls", "resetDone"} =>
       IsMassStoreReset /\ inBank = Empty /\ outBank = Empty
  /\ dpc = "resetDone" => stalled = {}
  /\ hpc = "resetOUT" \/ (hpc = "resetIN" /\ ~IsMassStoreReset) =>
       /\ dpc \in {"task", "resetTest"} /\ stalled = {}
       /\ inBank = Empty /\ outBank = Empty
  /\ hpc = "resetOUT" => inPipe = Empty /\ "in" \notin halted

\* The command the host is about goes from the pipe to the bank, the device,
\* and as its status to the other bank and pipe: it is at one of these places,
\* or has been given up.
Places ==
  /\ {inBank.type, inPipe.type} \subseteq {"empty", "data", "csw"}
  /\ {outBank.type, outPipe.type} \subseteq {"empty", "data", "cbw"}
  /\ outPipe.type = "cbw" \/ outBank.type = "cbw" =>
       /\ ~Processing /\ inBank = Empty /\ inPipe = Empty
       /\ outPipe.type = "cbw" => outPipe = command /\ outBank.type # "cbw"
       /\ outBank.type = "cbw" => outBank = command
  /\ inBank.type = "csw" \/ inPipe.type = "csw" =>
       ~Processing /\ (inPipe.type = "csw" => inBank = Empty)
  /\ Processing => CommandBlock = command
  /\ inBank # Empty => inBank.tag = command.tag
  /\ inPipe # Empty => inPipe.tag = command.tag
  /\ outPipe.type = "data" => outPipe.tag = command.tag /\ Direction(Op) = "out"
  /\ Processing /\ outBank # Empty => outBank.tag = command.tag /\ Direction(Op) = "out"
  /\ dpc = "clearOUT" => outBank.type = "data"
  /\ hpc \in {"idle", "done"} =>
       ~Processing /\ outPipe = Empty /\ inBank = Empty /\ outBank.type # "cbw"
  /\ hpc = "idle" => inPipe = Empty
  /\ hpc = "done" => inPipe.type = "csw"
  /\ kind = "BOT" /\ hpc \in {"in", "out", "statusWait", "clearIN", "clearOUT"} =>
       outPipe.type # "cbw"
  /\ hpc = "outWait" => outPipe.type # "cbw"
  /\ outPipe.type = "data" =>
       hpc \in {"out", "outWait", "clearOUT", "reset", "resetIN", "resetOUT", "stopped"}
  /\ mixed /\ hpc # "idle" =>
       /\ ~Processing
       /\ {inBank.type, inPipe.type, outBank.type, outPipe.type} \subseteq {"empty", "data"}

\* What a stall goes with.
Stalls ==
  /\ "out" \in halted => outPipe # Empty
  /\ "in" \in halted => inPipe = Empty
  /\ hpc = "clearOUT" => "out" \in halted
  /\ "out" \in halted => "out" \in stalled \/ hpc \in {"resetIN", "resetOUT", "stopped"}
  /\ "out" \in stalled /\ ~IsMassStoreReset => outBank # Empty \/ dpc = "statusOUT"
  /\ outBank.type = "cbw" /\ outBank.what.lun < TotalLUNs =>
       "out" \notin stalled /\ "out" \notin halted
  /\ BeforeStall => "out" \notin stalled /\ "out" \notin halted
  /\ dpc = "statusOUT" /\ "out" \in stalled => Status = "Fail"
  /\ dpc = "statusIN" => "out" \notin stalled
  /\ dpc = "csw" => stalled = {}
  /\ dpc = "read" /\ outBank # Empty => "out" \notin stalled

\* The class driver in host mode never has a stall cleared and goes on, so a
\* command is accepted only where nothing is stalled.
Stuck == outBank # Empty /\ ~Acceptable(outBank)
LUFAStalls ==
  kind = "LUFA" /\ hpc # "stopped" =>
    /\ "in" \in halted => "in" \in stalled
    /\ "in" \in stalled \/ dpc = "refuse" =>
         dpc \in {"statusOUT", "statusIN"} \/ (Stuck /\ ~Processing)

\* Packets of data on their way.
One(p)  == IF p.type = "data" THEN 1 ELSE 0
DataIN  == One(inBank) + One(inPipe)
DataOUT == One(outBank) + One(outPipe)
Unread  == outPipe.type = "cbw" \/ outBank.type = "cbw" \/ dpc = "decode"

\* The class driver in host mode gets no more data than it waits for.
Amounts ==
  /\ Unread /\ Direction(Op) = "in" => hleft = Packets(Op) /\ DataIN = 0
  /\ kind = "LUFA" /\ Direction(Op) = "in" =>
       (IF dpc = "dataIN" THEN dleft ELSE 0) + DataIN <= hleft
  /\ Direction(Op) # "in" => DataIN = 0
  /\ hpc = "outWait" => hleft = 0
  /\ kind = "LUFA" /\ hpc \in {"statusWait", "done"} => hleft = 0

\* The status says whether the device has carried out the command.
Outcome ==
  /\ Unread \/ dpc \in {"dataIN", "dataOUT"} => command.tag \notin executed
  /\ dpc = "clearOUT" => (dleft = 0) = (command.tag \in executed)
  /\ dpc \in {"dataIN", "dataOUT", "clearOUT"} => Status = "Pass"
  /\ ~gaveUp /\ ~IsMassStoreReset =>
       /\ dpc \in {"status", "stall", "statusOUT", "statusIN", "csw"} =>
            (Status = "Pass") = (command.tag \in executed)
       /\ inBank.type = "csw" => (inBank.status = "Pass") = (command.tag \in executed)
  /\ ~gaveUp /\ inPipe.type = "csw" => (inPipe.status = "Pass") = (command.tag \in executed)

\* A host that recovers sends as much data as the device takes, if the device
\* takes any.
Sending == hpc \in {"cbw", "out", "outWait", "statusWait", "clearIN", "reset"}
Supply ==
  kind = "BOT" /\ ~gaveUp /\ Direction(Op) = "out" =>
    /\ (outBank.type = "cbw" \/ dpc = "decode") /\ Sending => hleft + DataOUT = BlockPackets
    /\ dpc = "dataOUT" /\ Sending => dleft = hleft + DataOUT
    /\ dpc = "clearOUT" /\ Sending => dleft + 1 = hleft + DataOUT
    /\ dpc \in {"status", "statusOUT", "statusIN", "csw"} /\ Status = "Pass" /\ Sending =>
         hleft = 0 /\ DataOUT = 0
    /\ dpc \in {"statusOUT", "statusIN", "csw"} /\ Status = "Fail" =>
         "out" \in stalled \/ (DataOUT = 0 /\ hpc \notin {"cbw", "out"}) \/ IsMassStoreReset
    /\ inBank.type = "csw" \/ inPipe.type = "csw" => hpc \notin {"cbw", "out"}

\* With its status on the way, a command has left nothing else.
Settled ==
  kind = "BOT" /\ ~gaveUp /\ hpc # "resetIN" /\
  (inBank.type = "csw" \/ inPipe.type = "csw" \/ hpc = "idle") =>
    outBank = Empty /\ outPipe = Empty /\ stalled = {} /\ dpc \in {"task", "resetTest"}

Protocol == Counters /\ Resets /\ Places /\ Stalls /\ LUFAStalls /\ Amounts
              /\ Outcome /\ Supply /\ Settled

-----------------------------------------------------------------------------
(* Lemmas on commands and packets.                                         *)

LEMMA CommandKinds ==
  ASSUME NEW c \in Commands
  PROVE  /\ Packets(c.op) \in 0..BlockPackets
         /\ Direction(c.op) \in {"in", "out", "none"}
         /\ Packets(c.op) = 0 <=> Direction(c.op) = "none"
         /\ Direction(c.op) = "none" <=> c.op \in NoDataOps
         /\ Direction(c.op) = "none" => c.valid
         /\ Direction(c.op) = "out" => Packets(c.op) = BlockPackets
         /\ c.valid \in BOOLEAN
  BY ConstantsAssumption DEF Commands, Packets, Direction, NoDataOps, Inquiries

LEMMA SomeCommand == NoCommand \in CBW
<1>1. PICK o \in Operations : TRUE BY ConstantsAssumption
<1>2. [op |-> o, lun |-> 0, valid |-> TRUE] \in Commands
  BY ConstantsAssumption DEF Commands
<1>3. (CHOOSE c \in Commands : TRUE) \in Commands BY <1>2
<1> QED BY <1>3, ConstantsAssumption DEF NoCommand, CBW, Tags

LEMMA PacketKinds ==
  ASSUME NEW p \in Packet
  PROVE  /\ p.type \in {"empty", "cbw", "data", "csw"}
         /\ p = Empty <=> p.type = "empty"
         /\ p.type = "cbw" <=> p \in CBW
         /\ p.type = "csw" => p.status \in {"Pass", "Fail"}
         /\ One(p) = IF p.type = "data" THEN 1 ELSE 0
  BY DEF Packet, Empty, CBW, Data, CSW, One

\* The same of the packets in the banks and pipes, and of the command.
Contents ==
  /\ \A p \in {inBank, outBank, inPipe, outPipe} :
       /\ p.type \in {"empty", "cbw", "data", "csw"}
       /\ p = Empty <=> p.type = "empty"
       /\ p.type = "csw" => p.status \in {"Pass", "Fail"}
       /\ One(p) = IF p.type = "data" THEN 1 ELSE 0
  /\ command.type = "cbw" /\ command.what \in Commands
  /\ CommandBlock.type = "cbw" /\ CommandBlock.what \in Commands

LEMMA ContentsKnown == ASSUME TypeOK PROVE Contents
<1>1. \A p \in {inBank, outBank, inPipe, outPipe} : p \in Packet BY DEF TypeOK
<1>2. command \in CBW /\ CommandBlock \in CBW BY DEF TypeOK
<1> QED BY <1>1, <1>2, PacketKinds DEF Contents, CBW

LEMMA ContentsKnownNext == ASSUME TypeOK' PROVE Contents'
<1>1. \A p \in {inBank, outBank, inPipe, outPipe}' : p \in Packet BY DEF TypeOK
<1>2. command' \in CBW /\ CommandBlock' \in CBW BY DEF TypeOK
<1> QED BY <1>1, <1>2, PacketKinds DEF Contents, CBW

\* TypeOK, with a conjunct for each bank and pipe.
Types ==
  /\ dpc \in {"task", "read", "refuse", "decode", "dataIN", "dataOUT", "clearOUT",
              "status", "stall", "statusOUT", "statusIN", "csw",
              "resetTest", "clearStalls", "resetDone"}
  /\ CommandBlock \in CBW /\ Status \in {"Pass", "Fail"} /\ dleft \in 0..BlockPackets
  /\ IsMassStoreReset \in BOOLEAN
  /\ inBank \in Packet /\ outBank \in Packet /\ inPipe \in Packet /\ outPipe \in Packet
  /\ stalled \subseteq {"in", "out"} /\ halted \subseteq {"in", "out"}
  /\ kind \in HostKinds /\ command \in CBW /\ hleft \in 0..BlockPackets
  /\ hpc \in {"idle", "cbw", "dataWait", "in", "out", "outWait", "statusWait", "done",
              "clearIN", "clearOUT", "reset", "resetIN", "resetOUT", "stopped"}
  /\ TransactionTag \in 0..(TAG_MAX - 1)
  /\ executed \subseteq Tags /\ gaveUp \in BOOLEAN /\ mixed \in BOOLEAN
  /\ cleared \subseteq {"in", "out"}

LEMMA TypesOK == TypeOK <=> Types
  BY ConstantsAssumption DEF TypeOK, Types, Tags

LEMMA TypesOKNext == TypeOK' <=> Types'
  BY ConstantsAssumption DEF TypeOK, Types, Tags

\* The packets the two sides make.
LEMMA PacketsMade ==
  /\ Empty \in Packet /\ CBW \subseteq Packet
  /\ \A t \in Tags : [type |-> "data", tag |-> t] \in Packet
  /\ \A t \in Tags, s \in {"Pass", "Fail"} : [type |-> "csw", tag |-> t, status |-> s] \in Packet
  /\ \A t \in Tags, c \in Commands : [type |-> "cbw", tag |-> t, what |-> c] \in CBW
  BY DEF Packet, Data, CSW, CBW

LEMMA BlockFields == \A b \in CBW : b.type = "cbw" /\ b.tag \in Tags /\ b.what \in Commands
  BY DEF CBW

-----------------------------------------------------------------------------
(* The steps.                                                              *)

\* Frames, and where the two programs are.
USE DEF At, Then, HostFrame, DeviceFrame, NoWait, Branch, OUTReadable, Acceptable,
        BusFrame, Waiting, Host, Move, SameHost, SameDevice, HostMove,
        deviceVars, busVars, hostVars, pipeVars, ghostVars, vars

\* Types.
LEMMA DeviceKeepsTypes ==
  ASSUME Types, Counters, DeviceStep PROVE Types'
<1> USE CommandKinds, PacketKinds, PacketsMade, BlockFields, ConstantsAssumption
        DEF Types, Counters
<1>1. CASE DeviceTask BY <1>1 DEF DeviceTask
<1>2. CASE ReadCommand BY <1>2 DEF ReadCommand
<1>3. CASE Refuse BY <1>3 DEF Refuse
<1>4. CASE Decode BY <1>4 DEF Decode
<1>5. CASE SendData BY <1>5 DEF SendData, Carried
<1>6. CASE WriteData BY <1>6 DEF WriteData, Carried
<1>7. CASE ClearData BY <1>7 DEF ClearData
<1>8. CASE DeviceGivesUp BY <1>8 DEF DeviceGivesUp, WaitOf, AfterWait
<1>9. CASE ReturnStatus BY <1>9 DEF ReturnStatus
<1>10. CASE StallData BY <1>10 DEF StallData
<1>11. CASE StatusWait BY <1>11 DEF StatusWait
<1>12. CASE SendStatus BY <1>12 DEF SendStatus
<1>13. CASE ResetTest BY <1>13 DEF ResetTest
<1>14. CASE ClearStalls BY <1>14 DEF ClearStalls
<1>15. CASE ResetDone BY <1>15 DEF ResetDone
<1> QED
  BY <1>1, <1>2, <1>3, <1>4, <1>5, <1>6, <1>7, <1>8, <1>9, <1>10,
     <1>11, <1>12, <1>13, <1>14, <1>15 DEF DeviceStep

LEMMA HostKeepsTypes ==
  ASSUME Types, Counters, HostStep PROVE Types'
<1> USE CommandKinds, PacketKinds, PacketsMade, BlockFields, ConstantsAssumption
        DEF Types, Counters
<1>1. CASE SendCommand
  <2>1. TransactionTag + 1 \in Tags BY DEF Tags
  <2>2. TransactionTag' \in 0..(TAG_MAX - 1) BY <1>1 DEF SendCommand
  <2>3. PICK c \in Commands : /\ command' = [type |-> "cbw", tag |-> TransactionTag + 1, what |-> c]
                              /\ outPipe' = command' /\ hleft' = Packets(c.op)
    BY <1>1 DEF SendCommand
  <2>4. command' \in CBW /\ outPipe' \in Packet /\ hleft' \in 0..BlockPackets
    BY <2>1, <2>3
  <2> QED BY <1>1, <2>2, <2>4 DEF SendCommand
<1>2. CASE TakeData
  <2>1. hleft - 1 \in 0..BlockPackets BY <1>2 DEF TakeData
  <2>2. hleft' \in 0..BlockPackets BY <1>2, <2>1 DEF TakeData
  <2> QED BY <1>2, <2>2 DEF TakeData
<1>3. CASE PutData BY <1>3 DEF PutData
<1>4. CASE DataSent BY <1>4 DEF DataSent
<1>5. CASE Done BY <1>5 DEF Done
<1>6. CASE CommandSent BY <1>6 DEF CommandSent, DataStage
<1>7. CASE Received BY <1>7 DEF Received
<1>8. CASE PipeStalled BY <1>8 DEF PipeStalled, ClearFeature, EndpointOf
<1>9. CASE Fails BY <1>9 DEF Fails
<1>10. CASE BOTCommandSent BY <1>10 DEF BOTCommandSent, DataStage
<1>11. CASE BOTStalled BY <1>11 DEF BOTStalled
<1>12. CASE BOTReceived BY <1>12 DEF BOTReceived
<1>13. CASE BOTTimeout BY <1>13 DEF BOTTimeout
<1>14. CASE BOTReset BY <1>14 DEF BOTReset
<1>15. CASE BOTRecovery BY <1>15 DEF BOTRecovery, BOTClear, ClearFeature
<1> QED
  BY <1>1, <1>2, <1>3, <1>4, <1>5, <1>6, <1>7, <1>8, <1>9, <1>10,
     <1>11, <1>12, <1>13, <1>14, <1>15 DEF HostStep

LEMMA NextKeepsTypes == ASSUME Types, Counters, [Next]_vars PROVE Types'
<1> USE CommandKinds, PacketKinds, PacketsMade, BlockFields, ConstantsAssumption DEF Types
<1>1. CASE DeviceStep BY <1>1, DeviceKeepsTypes
<1>2. CASE HostStep BY <1>2, HostKeepsTypes
<1>3. CASE DeliverOUT BY <1>3 DEF DeliverOUT
<1>4. CASE DeliverIN BY <1>4 DEF DeliverIN
<1>5. CASE Replug
  <2>1. CommandBlock' \in CBW /\ command' \in CBW BY <1>5, SomeCommand DEF Replug
  <2>2. TransactionTag' \in 0..(TAG_MAX - 1) BY <1>5 DEF Replug
  <2>3. dleft' \in 0..BlockPackets /\ hleft' \in 0..BlockPackets BY <1>5 DEF Replug
  <2> QED BY <1>5, <2>1, <2>2, <2>3 DEF Replug
<1>6. CASE UNCHANGED vars BY <1>6
<1> QED BY <1>1, <1>2, <1>3, <1>4, <1>5, <1>6 DEF Next

\* The protocol.
LEMMA DeviceKeepsProtocol ==
  ASSUME Types, Types', Protocol, DeviceStep PROVE Protocol'
<1>0. Contents /\ Contents' BY TypesOK, TypesOKNext, ContentsKnown, ContentsKnownNext
<1> USE <1>0, CommandKinds, ConstantsAssumption
        DEF Types, Protocol, Counters, Resets, Places, Stalls, LUFAStalls, Amounts, Outcome,
            Supply, Settled, Contents, Processing, BeforeStall, Op, Stuck, DataIN, DataOUT,
            Unread, Sending
<1>1. CASE DeviceTask BY <1>1 DEF DeviceTask
<1>2. CASE ReadCommand BY <1>2 DEF ReadCommand
<1>3. CASE Refuse BY <1>3 DEF Refuse
<1>4. CASE Decode BY <1>4 DEF Decode
<1>5. CASE SendData BY <1>5 DEF SendData, Carried
<1>6. CASE WriteData BY <1>6 DEF WriteData, Carried
<1>7. CASE ClearData BY <1>7 DEF ClearData
<1>8. CASE DeviceGivesUp BY <1>8 DEF DeviceGivesUp, WaitOf, AfterWait
<1>9. CASE ReturnStatus BY <1>9 DEF ReturnStatus
<1>10. CASE StallData BY <1>10 DEF StallData
<1>11. CASE StatusWait BY <1>11 DEF StatusWait
<1>12. CASE SendStatus BY <1>12 DEF SendStatus
<1>13. CASE ResetTest BY <1>13 DEF ResetTest
<1>14. CASE ClearStalls BY <1>14 DEF ClearStalls
<1>15. CASE ResetDone BY <1>15 DEF ResetDone
<1> QED
  BY <1>1, <1>2, <1>3, <1>4, <1>5, <1>6, <1>7, <1>8, <1>9, <1>10,
     <1>11, <1>12, <1>13, <1>14, <1>15 DEF DeviceStep

LEMMA HostKeepsProtocol ==
  ASSUME Types, Types', Protocol, HostStep PROVE Protocol'
<1>0. Contents /\ Contents' BY TypesOK, TypesOKNext, ContentsKnown, ContentsKnownNext
<1> USE <1>0, CommandKinds, ConstantsAssumption
        DEF Types, Protocol, Counters, Resets, Places, Stalls, LUFAStalls, Amounts, Outcome,
            Supply, Settled, Contents, Processing, BeforeStall, Op, Stuck, DataIN, DataOUT,
            Unread, Sending
<1>1. CASE SendCommand BY <1>1 DEF SendCommand
<1>2. CASE TakeData BY <1>2 DEF TakeData
<1>3. CASE PutData BY <1>3 DEF PutData
<1>4. CASE DataSent BY <1>4 DEF DataSent
<1>5. CASE Done BY <1>5 DEF Done
<1>6. CASE CommandSent BY <1>6 DEF CommandSent, DataStage
<1>7. CASE Received BY <1>7 DEF Received
<1>8. CASE PipeStalled
  <2>0. "in" \in halted \/ "out" \in halted
    <3>1. halted # {} BY <1>8 DEF PipeStalled
    <3>2. PICK e \in halted : TRUE BY <3>1
    <3> QED BY <3>2
  <2>1. Counters' BY <1>8, <2>0 DEF PipeStalled, ClearFeature, EndpointOf
  <2>2. Resets' BY <1>8, <2>0 DEF PipeStalled, ClearFeature, EndpointOf
  <2>3. Places' BY <1>8, <2>0 DEF PipeStalled, ClearFeature, EndpointOf
  <2>4. Stalls' BY <1>8, <2>0 DEF PipeStalled, ClearFeature, EndpointOf
  <2>5. LUFAStalls' BY <1>8, <2>0 DEF PipeStalled, ClearFeature, EndpointOf
  <2>6. Amounts' BY <1>8, <2>0 DEF PipeStalled, ClearFeature, EndpointOf
  <2>7. Outcome' BY <1>8, <2>0 DEF PipeStalled, ClearFeature, EndpointOf
  <2>8. Supply' BY <1>8, <2>0 DEF PipeStalled, ClearFeature, EndpointOf
  <2>9. Settled' BY <1>8, <2>0 DEF PipeStalled, ClearFeature, EndpointOf
  <2> QED BY <2>1, <2>2, <2>3, <2>4, <2>5, <2>6, <2>7, <2>8, <2>9
<1>9. CASE Fails BY <1>9 DEF Fails
<1>10. CASE BOTCommandSent BY <1>10 DEF BOTCommandSent, DataStage
<1>11. CASE BOTStalled BY <1>11 DEF BOTStalled
<1>12. CASE BOTReceived BY <1>12 DEF BOTReceived
<1>13. CASE BOTTimeout BY <1>13 DEF BOTTimeout
<1>14. CASE BOTReset BY <1>14 DEF BOTReset
<1>15. CASE BOTRecovery BY <1>15 DEF BOTRecovery, BOTClear, ClearFeature
<1> QED
  BY <1>1, <1>2, <1>3, <1>4, <1>5, <1>6, <1>7, <1>8, <1>9, <1>10,
     <1>11, <1>12, <1>13, <1>14, <1>15 DEF HostStep

LEMMA NextKeepsProtocol == ASSUME Types, Types', Protocol, [Next]_vars PROVE Protocol'
<1>0. Contents /\ Contents' BY TypesOK, TypesOKNext, ContentsKnown, ContentsKnownNext
<1> USE <1>0, CommandKinds, ConstantsAssumption
        DEF Types, Protocol, Counters, Resets, Places, Stalls, LUFAStalls, Amounts, Outcome,
            Supply, Settled, Contents, Processing, BeforeStall, Op, Stuck, DataIN, DataOUT,
            Unread, Sending
<1>1. CASE DeviceStep BY <1>1, DeviceKeepsProtocol
<1>2. CASE HostStep BY <1>2, HostKeepsProtocol
<1>3. CASE DeliverOUT BY <1>3 DEF DeliverOUT
<1>4. CASE DeliverIN BY <1>4 DEF DeliverIN
<1>5. CASE Replug BY <1>5 DEF Replug
<1>6. CASE UNCHANGED vars BY <1>6
<1> QED BY <1>1, <1>2, <1>3, <1>4, <1>5, <1>6 DEF Next

LEMMA InitHolds == Init => Types /\ Protocol
<1> SUFFICES ASSUME Init PROVE Types /\ Protocol OBVIOUS
<1>1. Types
  <2>1. CommandBlock \in CBW /\ command \in CBW BY SomeCommand DEF Init
  <2>2. TransactionTag \in 0..(TAG_MAX - 1) BY ConstantsAssumption DEF Init
  <2>3. dleft \in 0..BlockPackets /\ hleft \in 0..BlockPackets
    BY ConstantsAssumption DEF Init
  <2> QED BY <2>1, <2>2, <2>3, PacketsMade DEF Init, Types
<1>2. Contents BY <1>1, TypesOK, ContentsKnown
<1> QED
  BY <1>1, <1>2 DEF Init, Contents, Protocol, Counters, Resets, Places, Stalls, LUFAStalls,
     Amounts, Outcome, Supply, Settled, Processing, BeforeStall, Op, Stuck, DataIN, DataOUT,
     Unread, Sending

LEMMA BOTInvariant == Spec => [](Types /\ Protocol)
<1>1. Types /\ Protocol /\ [Next]_vars => (Types /\ Protocol)'
  BY NextKeepsTypes, NextKeepsProtocol DEF Protocol
<1> QED BY <1>1, InitHolds, PTL DEF Spec

-----------------------------------------------------------------------------
(* The results.                                                            *)

\* Every variable keeps its type: the tag its width, the data counted on
\* either side its range, an endpoint its own banks' packets.
THEOREM StorageTypeCorrect == Spec => []TypeOK
<1>1. Types => TypeOK BY TypesOK
<1> QED BY <1>1, BOTInvariant, PTL

\* Neither side ever takes another command's packet, or one of another kind,
\* for the status or the data it waits for, though nobody compares tags.
THEOREM PacketsBelong == Spec => []PacketsOfCommand
<1>1. Types /\ Protocol => PacketsOfCommand
  <2> SUFFICES ASSUME Types, Protocol PROVE PacketsOfCommand OBVIOUS
  <2>1. Contents BY TypesOK, ContentsKnown
  <2>2. CommandBlock \in CBW /\ outBank \in Packet BY DEF Types
  <2>3. dpc = "clearOUT" => outBank \in Data /\ outBank.tag = CommandBlock.tag
    BY <2>1, <2>2 DEF Protocol, Places, Processing, Packet, Empty, CBW, CSW
  <2>4. dpc = "clearOUT" => outBank = [type |-> "data", tag |-> CommandBlock.tag]
    BY <2>3 DEF Data
  <2> QED BY <2>1, <2>4 DEF PacketsOfCommand, Protocol, Places, Contents
<1> QED BY <1>1, BOTInvariant, PTL

\* A command is reported good exactly when the device carried it out and the
\* host has its data.
THEOREM SuccessTold == Spec => []SuccessMeansDone
<1>1. Types /\ Protocol => SuccessMeansDone
  <2> SUFFICES ASSUME Types, Protocol PROVE SuccessMeansDone OBVIOUS
  <2> QED BY DEF SuccessMeansDone, Types, Protocol, Places, Outcome, Amounts
<1> QED BY <1>1, BOTInvariant, PTL

\* A host that recovers begins every command with nothing left of the last.
THEOREM CommandsLeaveNothing == Spec => []NothingLeftBehind
<1>1. Types /\ Protocol => NothingLeftBehind
  <2> SUFFICES ASSUME Types, Protocol PROVE NothingLeftBehind OBVIOUS
  <2> QED BY DEF NothingLeftBehind, Protocol, Places, Settled
<1> QED BY <1>1, BOTInvariant, PTL
=============================================================================
