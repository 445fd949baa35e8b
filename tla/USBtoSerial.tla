----------------------------- MODULE USBtoSerial ----------------------------
(***************************************************************************)
(* The USB to serial bridge, Projects/USBtoSerial, with the CDC class      *)
(* driver it is built on: the main loop, its calls into CDC.c and the      *)
(* endpoint waits, the USART receive handler, and the USB handler's        *)
(* changes of USB_DeviceState, which strike between any two steps.         *)
(*                                                                         *)
(* The ring buffers are BoundedQueues, which RingBuff implements.  A byte  *)
(* is its place in the stream it belongs to: the host sends 1, 2, 3, ...   *)
(* and so does the serial line; NoByte is the 0 that stands for no byte.   *)
(* The bulk endpoints have one bank each (DataIN/OUTEndpointDoubleBank are *)
(* false).  A bus reset clears them and selects the control endpoint: what *)
(* the rest of a call then reads is left open (~banks below), except that  *)
(* nothing has been received on it.                                        *)
(***************************************************************************)
EXTENDS Naturals, Sequences

CONSTANTS
  BUFF_STATICSIZE,
  CDC_TXRX_EPSIZE,
  MaxOut,          \* bound: bytes the host sends
  MaxIn,           \* bound: bytes the serial line brings
  MaxDisruptions   \* bound: detaches, bus resets, suspends and repeated
                   \* configurations

ASSUME SizeAssumption ==
  /\ BUFF_STATICSIZE \in Nat \ {0} /\ CDC_TXRX_EPSIZE \in Nat \ {0}
  /\ MaxOut \in Nat /\ MaxIn \in Nat /\ MaxDisruptions \in Nat

VARIABLES
  pc, DataBytesRem, held,   \* main: where it is, and the byte it is sending
  USB_DeviceState,
  BaudRateBPS,              \* whether State.LineEncoding.BaudRateBPS # 0
  RXCIE1,                   \* whether the USART receive interrupt is on
  USBtoUSART, USARTtoUSB,   \* contents of the two ring buffers
  banks,                    \* whether the bulk endpoints are configured
  OUTReceived, outBank,     \* the OUT endpoint's flag and bank
  inOwner, inBank,          \* the IN endpoint's bank and who may touch it
  sent, line,               \* bytes the host sent; bytes out of the USART
  arrived, got,             \* bytes into the USART; bytes the host received
  lastIN,                   \* length of the last IN packet the host took
  outGap, inGap, late,      \* a byte may be missing; a wait gave up
  configured, disruptions   \* whether the host has configured the device

mainVars == <<pc, DataBytesRem, held>>
outVars  == <<OUTReceived, outBank>>
inVars   == <<inOwner, inBank>>
usbVars  == <<USB_DeviceState, BaudRateBPS, RXCIE1, banks, configured, disruptions>>
hostVars == <<sent, got, lastIN>>
gaps     == <<outGap, inGap, late>>
vars == <<mainVars, outVars, inVars, usbVars, hostVars, gaps,
          USBtoUSART, USARTtoUSB, line, arrived>>

NoByte == 0
Labels == {"received", "count", "loop", "readByte", "drain", "sendTest",
           "sendSelect", "sendWait", "write", "transmit", "task", "taskOUT",
           "flushTest", "flush", "flushWait", "usb"}

\* The ring buffers as their callers see them.
Ring == INSTANCE BoundedQueue WITH
  Capacity <- BUFF_STATICSIZE, Data <- Nat, queue <- USARTtoUSB, taken <- held
\* Mutant: the buffer is built with BUFF_NODROPCHECK.
StoreUnbounded(B, b) == Append(B, b)

Buffer_StoreElement(B, b) == Ring!PutInto(B, b)

SeqUpTo(S, n) == UNION {[1..k -> S] : k \in 0..n}

TypeOK ==
  /\ pc \in Labels /\ DataBytesRem \in 0..CDC_TXRX_EPSIZE /\ held \in 0..MaxIn
  /\ USB_DeviceState \in {"Default", "Configured", "Suspended", "Unattached"}
  /\ {BaudRateBPS, RXCIE1, banks, configured, OUTReceived} \subseteq BOOLEAN
  /\ {outGap, inGap, late} \subseteq BOOLEAN
  /\ USBtoUSART \in SeqUpTo(0..MaxOut, BUFF_STATICSIZE)
  /\ USARTtoUSB \in SeqUpTo(1..MaxIn, BUFF_STATICSIZE)
  /\ outBank \in SeqUpTo(1..MaxOut, CDC_TXRX_EPSIZE)
  /\ inBank \in SeqUpTo(1..MaxIn, CDC_TXRX_EPSIZE) /\ inOwner \in {"cpu", "host"}
  /\ sent \in 0..MaxOut /\ arrived \in 0..MaxIn
  /\ lastIN \in 0..CDC_TXRX_EPSIZE
  /\ disruptions \in 0..MaxDisruptions

Init ==
  /\ pc = "received" /\ DataBytesRem = 0 /\ held = NoByte
  /\ USB_DeviceState = "Unattached"
  /\ BaudRateBPS = FALSE /\ RXCIE1 = FALSE
  /\ banks = FALSE /\ configured = FALSE
  /\ USBtoUSART = <<>> /\ USARTtoUSB = <<>>
  /\ OUTReceived = FALSE /\ outBank = <<>> /\ inOwner = "cpu" /\ inBank = <<>>
  /\ sent = 0 /\ line = <<>> /\ arrived = 0 /\ got = <<>> /\ lastIN = 0
  /\ outGap = FALSE /\ inGap = FALSE /\ late = FALSE /\ disruptions = 0

-----------------------------------------------------------------------------
(***************************************************************************)
(* The main loop.  Every CDC_Device_ function first tests Ready and then   *)
(* selects its endpoint: the two are separate steps.                       *)
(***************************************************************************)
Ready == USB_DeviceState = "Configured" /\ BaudRateBPS

\* `main' moves on from one place to another, leaving DataBytesRem and held.
Goto(from, to) == pc = from /\ pc' = to /\ UNCHANGED <<DataBytesRem, held>>

\* What only the main program, or only one direction of it, touches.
OutFrame == UNCHANGED <<inVars, usbVars, hostVars, gaps, USARTtoUSB, arrived>>
InFrame  == UNCHANGED <<outVars, usbVars, hostVars, outGap, USBtoUSART, line, arrived>>

RWAL == inOwner = "cpu" /\ Len(inBank) < CDC_TXRX_EPSIZE

\* CDC_Device_BytesReceived.
Received ==
  /\ pc = "received"
  /\ IF Ready THEN pc' = "count" /\ UNCHANGED DataBytesRem
              ELSE pc' = "loop" /\ DataBytesRem' = 0
  /\ UNCHANGED <<held, outVars, USBtoUSART, line>> /\ OutFrame

Count ==
  /\ pc = "count" /\ pc' = "loop"
  /\ DataBytesRem' = IF OUTReceived THEN Len(outBank) ELSE 0
  /\ OUTReceived' = (OUTReceived /\ outBank # <<>>)
  /\ UNCHANGED <<held, outBank, USBtoUSART, line>> /\ OutFrame

\* Mutant: with a full buffer the loop goes round again and does not break.
LoopSpins ==
  /\ \/ DataBytesRem = 0 /\ Goto("loop", "drain")
     \/ Len(USBtoUSART) = BUFF_STATICSIZE /\ Goto("loop", "loop")
  /\ UNCHANGED <<outVars, USBtoUSART, line>> /\ OutFrame

\* The for loop ends, or breaks because the buffer is full.
LoopEnds ==
  /\ DataBytesRem = 0 \/ Len(USBtoUSART) = BUFF_STATICSIZE
  /\ Goto("loop", "drain")
  /\ UNCHANGED <<outVars, USBtoUSART, line>> /\ OutFrame

\* Mutant: the loop has no test for room.
LoopReceivesIntoFull ==
  /\ pc = "loop" /\ DataBytesRem # 0
  /\ IF Ready
     THEN pc' = "readByte" /\ UNCHANGED <<DataBytesRem, USBtoUSART>>
     ELSE /\ USBtoUSART' = Buffer_StoreElement(USBtoUSART, NoByte)
          /\ DataBytesRem' = DataBytesRem - 1 /\ UNCHANGED pc
  /\ UNCHANGED <<held, outVars, line>> /\ OutFrame

\* CDC_Device_ReceiveByte: with a device that is not ready it returns 0, and
\* the loop stores that 0.
LoopReceives ==
  /\ pc = "loop" /\ DataBytesRem # 0 /\ Len(USBtoUSART) < BUFF_STATICSIZE
  /\ IF Ready
     THEN pc' = "readByte" /\ UNCHANGED <<DataBytesRem, USBtoUSART>>
     ELSE /\ USBtoUSART' = Buffer_StoreElement(USBtoUSART, NoByte)
          /\ DataBytesRem' = DataBytesRem - 1 /\ UNCHANGED pc
  /\ UNCHANGED <<held, outVars, line>> /\ OutFrame

\* Once the endpoints are cleared, what it reads is no byte of the stream.
ReadByte ==
  /\ pc = "readByte" /\ pc' = "loop" /\ DataBytesRem' = DataBytesRem - 1
  /\ \/ /\ banks
        /\ USBtoUSART' = Buffer_StoreElement(USBtoUSART, Head(outBank))
        /\ outBank' = Tail(outBank)
        /\ OUTReceived' = (Tail(outBank) # <<>>)
     \/ /\ ~banks /\ USBtoUSART' = Buffer_StoreElement(USBtoUSART, NoByte)
        /\ UNCHANGED outVars
  /\ UNCHANGED <<held, line>> /\ OutFrame

\* while (USARTtoUSB_Buffer.Elements), and the byte for CDC_Device_SendByte.
DrainEnds ==
  /\ USARTtoUSB = <<>> /\ Goto("drain", "transmit")
  /\ UNCHANGED <<inVars, USARTtoUSB, inGap, late>> /\ InFrame

DrainTakes ==
  /\ pc = "drain" /\ USARTtoUSB # <<>> /\ pc' = "sendTest"
  /\ held' = Head(USARTtoUSB) /\ USARTtoUSB' = Tail(USARTtoUSB)
  /\ UNCHANGED <<DataBytesRem, inVars, inGap, late>> /\ InFrame

\* CDC_Device_SendByte; `main' ignores its result, so an error loses the byte.
SendTest ==
  /\ pc = "sendTest" /\ pc' = IF Ready THEN "sendSelect" ELSE "drain"
  /\ inGap' = (inGap \/ ~Ready) /\ held' = IF Ready THEN held ELSE NoByte
  /\ UNCHANGED <<DataBytesRem, inVars, USARTtoUSB, late>> /\ InFrame

\* Mutant: the byte is written without looking at the bank.
SendSelectBlindly ==
  /\ Goto("sendSelect", "write")
  /\ UNCHANGED <<inVars, USARTtoUSB, inGap, late>> /\ InFrame

SendSelect ==
  /\ pc = "sendSelect"
  /\ \/ /\ banks /\ pc' = (IF RWAL THEN "write" ELSE "sendWait")
        /\ inOwner' = IF RWAL THEN "cpu" ELSE "host"
     \/ /\ ~banks /\ pc' \in {"write", "sendWait"} /\ UNCHANGED inOwner
  /\ UNCHANGED <<DataBytesRem, held, inBank, USARTtoUSB, inGap, late>> /\ InFrame

\* Endpoint_WaitUntilReady finds the endpoint ready, or gives up: the SOF count
\* runs out, the endpoint is halted, or the device is unattached.
MayFindReady == ~banks \/ inOwner = "cpu"
MayGiveUp    == ~banks \/ inOwner = "host"

SendWait ==
  /\ pc = "sendWait"
  /\ \/ MayFindReady /\ pc' = "write" /\ UNCHANGED <<held, inGap, late>>
     \/ /\ MayGiveUp /\ pc' = "drain"
        /\ held' = NoByte /\ inGap' = TRUE /\ late' = TRUE
  /\ UNCHANGED <<DataBytesRem, inVars, USARTtoUSB>> /\ InFrame

\* Endpoint_Write_Byte: a byte for a bank that has gone is lost, and so is one
\* for a bank with no room.
Write ==
  /\ pc = "write" /\ pc' = "drain" /\ held' = NoByte
  /\ inBank' = IF banks /\ RWAL THEN Append(inBank, held) ELSE inBank
  /\ inGap' = (inGap \/ ~banks)
  /\ UNCHANGED <<DataBytesRem, inOwner, USARTtoUSB, late>> /\ InFrame

\* while (USBtoUSART_Buffer.Elements) Serial_TxByte(Buffer_GetElement(...)).
Transmit ==
  /\ pc = "transmit" /\ USBtoUSART # <<>>
  /\ line' = Append(line, Head(USBtoUSART)) /\ USBtoUSART' = Tail(USBtoUSART)
  /\ UNCHANGED <<mainVars, outVars>> /\ OutFrame

TransmitEnds ==
  /\ USBtoUSART = <<>> /\ Goto("transmit", "task")
  /\ UNCHANGED <<outVars, USBtoUSART, line>> /\ OutFrame

\* CDC_Device_USBTask.
Task ==
  /\ Goto("task", IF Ready THEN "taskOUT" ELSE "usb")
  /\ UNCHANGED <<outVars, USBtoUSART, line>> /\ OutFrame

TaskOUT ==
  /\ Goto("taskOUT", "flushTest")
  /\ OUTReceived' = (OUTReceived /\ outBank # <<>>)
  /\ UNCHANGED <<outBank, USBtoUSART, line>> /\ OutFrame

\* CDC_Device_Flush.
FlushTest ==
  /\ Goto("flushTest", IF Ready THEN "flush" ELSE "usb")
  /\ UNCHANGED <<outVars, USBtoUSART, line>> /\ OutFrame

\* Mutant: a full bank is sent like any other.
FlushWithoutZLP ==
  /\ banks /\ Goto("flush", "usb")
  /\ inOwner' = IF inBank = <<>> THEN inOwner ELSE "host"
  /\ UNCHANGED <<inBank, USARTtoUSB, inGap, late>> /\ InFrame

\* Mutant: only a full bank is sent.
FlushFullOnly ==
  /\ banks /\ Goto("flush", IF RWAL THEN "usb" ELSE "flushWait")
  /\ inOwner' = IF RWAL THEN inOwner ELSE "host"
  /\ UNCHANGED <<inBank, USARTtoUSB, inGap, late>> /\ InFrame

\* Of a bank the host has not taken yet, the byte count may read either way.
Flush ==
  /\ \/ /\ banks /\ inBank # <<>>
        /\ Goto("flush", IF RWAL THEN "usb" ELSE "flushWait")
        /\ inOwner' = "host"
     \/ /\ inBank = <<>> \/ inOwner = "host" \/ ~banks
        /\ Goto("flush", "usb") /\ UNCHANGED inOwner
     \/ ~banks /\ Goto("flush", "flushWait") /\ UNCHANGED inOwner
  /\ UNCHANGED <<inBank, USARTtoUSB, inGap, late>> /\ InFrame

\* A full bank is followed by an empty packet.
FlushWait ==
  /\ Goto("flushWait", "usb")
  /\ \/ MayFindReady /\ inOwner' = (IF banks THEN "host" ELSE inOwner)
        /\ UNCHANGED late
     \/ MayGiveUp /\ late' = TRUE /\ UNCHANGED inOwner
  /\ UNCHANGED <<inBank, USARTtoUSB, inGap>> /\ InFrame

-----------------------------------------------------------------------------
(***************************************************************************)
(* USB_USBTask serves at most one control request, after which the loop    *)
(* starts again.                                                           *)
(***************************************************************************)
Disrupt == disruptions < MaxDisruptions /\ disruptions' = disruptions + 1

\* The bulk endpoints are set up, or torn down: their banks come up empty, and
\* the host gives up the transfers it had on them.
EmptyBanks ==
  /\ OUTReceived' = FALSE /\ outBank' = <<>>
  /\ inOwner' = "cpu" /\ inBank' = <<>>
  /\ outGap' = (outGap \/ outBank # <<>>)
  /\ inGap' = (inGap \/ inBank # <<>>)
  /\ lastIN' = 0

NoRequest ==
  /\ Goto("usb", "received")
  /\ UNCHANGED <<outVars, USBtoUSART, line>> /\ OutFrame

\* SET CONFIGURATION, and EVENT_USB_Device_ConfigurationChanged with its
\* CDC_Device_ConfigureEndpoints, which forgets the line encoding.
SetConfiguration ==
  /\ Goto("usb", "received")
  /\ \/ USB_DeviceState = "Default" /\ ~banks /\ UNCHANGED disruptions
     \/ USB_DeviceState = "Configured" /\ configured /\ Disrupt
  /\ configured' = TRUE
  /\ USB_DeviceState' = "Configured" /\ banks' = TRUE /\ BaudRateBPS' = FALSE
  /\ EmptyBanks
  /\ UNCHANGED <<RXCIE1, sent, got, late, USBtoUSART, USARTtoUSB, line, arrived>>

\* CDC's SetLineEncoding, whose event turns the USART receiver on.
SetLineEncoding ==
  /\ Goto("usb", "received") /\ USB_DeviceState = "Configured" /\ configured
  /\ ~BaudRateBPS
  /\ BaudRateBPS' = TRUE /\ RXCIE1' = TRUE
  /\ UNCHANGED <<USB_DeviceState, banks, configured, disruptions, outVars, inVars, hostVars,
                 gaps, USBtoUSART, USARTtoUSB, line, arrived>>

MainStep ==
  \/ Received \/ Count \/ LoopEnds \/ LoopReceives \/ ReadByte
  \/ DrainEnds \/ DrainTakes \/ SendTest \/ SendSelect \/ SendWait \/ Write
  \/ Transmit \/ TransmitEnds \/ Task \/ TaskOUT \/ FlushTest \/ Flush
  \/ FlushWait \/ NoRequest

Request == SetConfiguration \/ SetLineEncoding

-----------------------------------------------------------------------------
(***************************************************************************)
(* The interrupt handlers.  USARTReceive is ISR(USART1_RX_vect); the       *)
(* others are the parts of ISR(USB_GEN_vect) that change USB_DeviceState   *)
(* or the endpoints.                                                       *)
(***************************************************************************)
USARTReceive ==
  /\ RXCIE1 /\ arrived < MaxIn /\ arrived' = arrived + 1
  /\ IF USB_DeviceState = "Configured"
     THEN /\ USARTtoUSB' = Buffer_StoreElement(USARTtoUSB, arrived')
          /\ inGap' = (inGap \/ Len(USARTtoUSB) = BUFF_STATICSIZE)
     ELSE inGap' = TRUE /\ UNCHANGED USARTtoUSB
  /\ UNCHANGED <<mainVars, outVars, inVars, usbVars, hostVars, outGap, late,
                 USBtoUSART, line>>

HandlerFrame ==
  UNCHANGED <<mainVars, BaudRateBPS, RXCIE1, sent, got, late, USBtoUSART,
              USARTtoUSB, line, arrived>>
BanksFrame == UNCHANGED <<outVars, inVars, banks, outGap, inGap>>

\* VBUS rises: DEVICE_STATE_Powered.
Attach ==
  /\ USB_DeviceState = "Unattached" /\ USB_DeviceState' = "Default"
  /\ UNCHANGED <<lastIN, configured, disruptions>> /\ BanksFrame /\ HandlerFrame

\* VBUS falls: the endpoints and USB_ConfigurationNumber stay as they are.
Detach ==
  /\ USB_DeviceState # "Unattached" /\ USB_DeviceState' = "Unattached"
  /\ Disrupt /\ configured' = FALSE /\ lastIN' = 0
  /\ BanksFrame /\ HandlerFrame

\* A bus reset clears both.  The one that starts an enumeration is free.
BusReset ==
  /\ USB_DeviceState # "Unattached" /\ USB_DeviceState' = "Default"
  /\ Disrupt \/ (banks /\ ~configured /\ UNCHANGED disruptions)
  /\ configured' = FALSE
  /\ banks' = FALSE /\ EmptyBanks /\ HandlerFrame

Suspend ==
  /\ USB_DeviceState \in {"Default", "Configured"} /\ USB_DeviceState' = "Suspended"
  /\ Disrupt
  /\ UNCHANGED <<lastIN, configured>> /\ BanksFrame /\ HandlerFrame

\* USB_ConfigurationNumber decides, also when it is left from before a detach.
WakeUp ==
  /\ USB_DeviceState = "Suspended"
  /\ USB_DeviceState' = IF banks THEN "Configured" ELSE "Default"
  /\ UNCHANGED <<lastIN, configured, disruptions>> /\ BanksFrame /\ HandlerFrame

USBHandler == Attach \/ Detach \/ BusReset \/ Suspend \/ WakeUp

-----------------------------------------------------------------------------
(***************************************************************************)
(* The host's bulk transfers, with whole packets.                          *)
(***************************************************************************)
Bus == USB_DeviceState = "Configured" /\ configured

HostSends(n) ==
  /\ Bus /\ ~OUTReceived /\ sent + n <= MaxOut
  /\ OUTReceived' = TRUE /\ outBank' = [i \in 1..n |-> sent + i] /\ sent' = sent + n
  /\ UNCHANGED <<mainVars, inVars, usbVars, got, lastIN, gaps, USBtoUSART,
                 USARTtoUSB, line, arrived>>

HostTakes ==
  /\ Bus /\ inOwner = "host"
  /\ got' = got \o inBank /\ lastIN' = Len(inBank)
  /\ inOwner' = "cpu" /\ inBank' = <<>>
  /\ UNCHANGED <<mainVars, outVars, usbVars, sent, gaps, USBtoUSART,
                 USARTtoUSB, line, arrived>>

Next ==
  \/ MainStep \/ Request \/ USARTReceive \/ USBHandler
  \/ \E n \in 0..CDC_TXRX_EPSIZE : HostSends(n)
  \/ HostTakes

\* The main program runs whenever no handler does, and a host that has opened
\* the port keeps polling the IN endpoint.
Fairness == WF_vars(MainStep) /\ WF_vars(HostTakes)

Spec == Init /\ [][Next]_vars /\ Fairness

-----------------------------------------------------------------------------
Served == <>[](Ready /\ configured)

\* The bytes of a stream with gaps, each after those that were sent before it.
Bytes(s)   == {s[i] : i \in DOMAIN s} \ {NoByte}
InOrder(s) == \A i, j \in DOMAIN s : i < j /\ NoByte \notin {s[i], s[j]} => s[i] < s[j]

OutStream == line \o USBtoUSART \o outBank
InStream  == got \o inBank \o <<held>> \o USARTtoUSB

\* From the host to the serial line: no byte is duplicated or overtaken, even
\* across bus resets, and none is lost unless its packet sat in the bank when
\* the endpoints were cleared.  The buffer, which would drop its oldest byte,
\* never has to.
HostBytesInOrder ==
  /\ InOrder(OutStream) /\ Bytes(OutStream) \subseteq 1..sent
  /\ ~outGap => 1..sent \subseteq Bytes(OutStream)

\* From the serial line to the host: the same, with the losses CDC_Device_SendByte
\* reports (not configured, gave up waiting), the full buffer's oldest byte and
\* the bank that was cleared.
SerialBytesInOrder ==
  /\ InOrder(InStream) /\ Bytes(InStream) \subseteq 1..arrived
  /\ ~inGap => 1..arrived \subseteq Bytes(InStream)

\* With a device that the host configures and leaves alone, every byte the host sent gets out of the
\* USART: the loop never starves this direction.
HostBytesArrive ==
  Served => \A b \in 1..MaxOut : sent >= b ~> (outGap \/ \E i \in DOMAIN line : line[i] = b)

\* And every byte the USART received gets to the host: CDC_Device_USBTask
\* leaves none in a bank that is not full.
SerialBytesArrive ==
  Served => \A b \in 1..MaxIn : arrived >= b ~> (inGap \/ \E i \in DOMAIN got : got[i] = b)

\* The host's read ends: a full packet is followed by a shorter one, unless a
\* byte was lost or a wait gave up.
ReadsClose ==
  Served => []<>(lastIN < CDC_TXRX_EPSIZE \/ inGap \/ late)

\* What leaves the USART was sent by the host: CDC.h says that querying
\* CDC_Device_BytesReceived first ensures that no data underflow occurs.
NothingFabricated == \A i \in DOMAIN line : line[i] # NoByte
=============================================================================
