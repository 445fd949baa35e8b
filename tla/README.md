# A verification of LUFA

LUFA is a USB stack for Atmel's USB AVRs, with class drivers, demonstrations,
bootloaders and complete projects built on it.  It is C for one small
processor: a main loop, a few interrupt handlers that preempt it, and a USB
controller with a host at the other end of the cable that does as it likes.
What is hard here is not the data but who changes what when.  These modules
model that: the stack in device mode and in host mode, the mass storage
transport between the two, the USB to serial bridge, the scheduler, the HID
report parser, the Dataflash manager, the DFU bootloader, the magnetic stripe
reader and the web server of the RNDIS demo.  TLC checks them on small
instances; TLAPS proves the invariants for every value of the constants.

Paths below are relative to `src/trunk/LUFA/Drivers/USB/` unless they start
with `Projects/` or another directory of `src/trunk/`.

## 1. The system

| Component | State it keeps | Operations | Interacts with |
|---|---|---|---|
| Device stack (`HighLevel/USBTask.c`, `USBInterrupt.c`, `LowLevel/DevChapter9.c`, `LowLevel.c`) | `USB_DeviceState`, `USB_ConfigurationNumber`, `USB_ControlRequest`, the controller's registers | `USB_Init`, `USB_ShutDown`, `USB_USBTask`, the standard requests, `ISR(USB_GEN_vect)` | application (events), controller, host |
| Endpoints (`LowLevel/Endpoint.c/.h`, `LowLevel/Template`) | selected endpoint (`UENUM`), flags, banks | configure, clear, wait, status stage, control and bulk streams | device stack, class drivers |
| Host stack (`LowLevel/Host.c`, `HostChapter9.c`, `Pipe.c`) | `USB_HostState`, wait counters, pipes | enumeration state machine, control requests, pipe streams | interrupt handler, class drivers |
| Class drivers, device (`Class/Device`) | per-interface state (line encoding, reset flag, idle counter) | `ProcessControlRequest`, `ConfigureEndpoints`, `USBTask`, data calls | endpoints, application |
| Class drivers, host (`Class/Host`) | pipe numbers, tags, report items | configure, class commands | pipes, application |
| HID and configuration parsers | item tables | parse | class drivers |
| Scheduler (`Scheduler/`) | task list, tick counter | start, enable, delay test | tick handler, tasks |
| Ring buffer (`Projects/*/Lib/RingBuff.c`) | array, two pointers, count | store, get | handler and main program |
| USB to serial bridge (`Projects/USBtoSerial`) | two ring buffers | main loop, receive handler | CDC driver, USART |
| Mass storage (`Class/Device/MassStorage.c`, `SCSI.c`, `DataflashManager.c`) | command and status block, reset flag | command, data and status phases | endpoints, host |
| DFU bootloader (`Bootloaders/DFU`) | DFU state, pending command, secure flag | DFU requests, downloads, uploads | USB task, flash, EEPROM |
| Magstripe reader (`Projects/Magstripe`, `Class/Device/HID.c`) | bit buffer per track, previous report, idle period | read a card, type it | HID driver, host |
| RNDIS web server (`Demos/Device/ClassDriver/RNDISEthernet`, `Class/Device/RNDIS.c`) | two frame buffers, control message, connection table, block counter | frames in and out, TCP states, pages | RNDIS driver, web clients |
| Other bootloaders, programmers | protocol states | their protocols | USB task |

`PROJECT.json` lists all of them, those that are not modelled with the reason.

The hard behaviours:

* **Preemption.**  Everything the handlers share with the main program:
  `USB_DeviceState` is written by both sides; the selected endpoint is a
  register that the reset handler changes and nobody saves; enable bits are
  changed by read-modify-write.
* **Order of handler sections.**  One pass of `ISR(USB_GEN_vect)` serves
  whatever is pending, in the order of the text and not of the events.
* **Wait loops** inside the task, released only by the host or by
  `USB_DeviceState`.
* **Tests that go stale**: every class driver function tests the device state
  first and works on the endpoint afterwards.
* **The host**: gives up transfers, resets, suspends, comes late.
* **Limits**: full banks and transfers that end on a packet boundary, full
  buffers.

What makes each component correct: the device answers every request once and
on the right endpoint, agrees with the host on address and configuration, can
always be woken, and never hangs after an unplug; the ring buffer is a queue;
the bridge neither reorders nor loses bytes without saying so, and ends the
host's reads.  For the rest: the host stack reports each attachment and completion
once, in order and for a device that is there, and a removal once or more (a
supply error tells it at `USBInterrupt.c:187`, the disconnection it causes at line
173, and `Host.c:193` tells it again after a failed enumeration), it talks to a
device only after resetting it and at the address it has, and it hears of the
next device; a mass storage command is
followed by its data, its stall and its status in that order under resets and
stalls at any point; a task waits for the delay it asked for.

## 2. Modules

| Module | Models | Role |
|---|---|---|
| `USBDevice` | device stack, controller, host | the core |
| `MCUSBDevice` | sets of requests for TLC | |
| `USBDeviceProofs` | theorems about `USBDevice` | |
| `BoundedQueue` | abstract: a queue that drops its oldest element | what the ring promises |
| `RingBuff` | `RingBuff.c` | implements `BoundedQueue` |
| `USBtoSerial` | the bridge's main loop, CDC driver, handlers, host | uses `BoundedQueue` for both rings |
| `USBtoSerialProofs` | theorems about `USBtoSerial` | |
| `HostLifecycle` | abstract: attached, complete, gone, in that order | what the host stack promises |
| `USBHost` | `Host.c`, `HostChapter9.c`, host half of the handler, socket and device | implements `HostLifecycle` |
| `USBHostProofs` | theorems about `USBHost`, refinement included | |
| `MassStorageBOT` | mass storage drivers of both modes and the SCSI layer | device and host composed |
| `MassStorageBOTProofs` | theorems about `MassStorageBOT` | |
| `Scheduler` | `Scheduler.c`, tick handler | |
| `UtilityProofs` | theorems about `RingBuff`, refinement included, `Scheduler` and `Magstripe` | |
| `Dataflash` | `DataflashManager.c` over the chips | |
| `BootloaderDFU` | `BootloaderDFU.c` and the host | |
| `FlashProofs` | theorems about `Dataflash` and `BootloaderDFU` | |
| `HIDParser` | `HIDParser.c`, reports of the device | |
| `HIDParserProofs` | theorems about `HIDParser` | |
| `Magstripe` | `Magstripe.c`, its bit buffers, `Class/Device/HID.c`, host | |
| `RNDISEthernet` | TCP, Ethernet layer and web server of the RNDIS demo, frames of `Class/Device/RNDIS.c`, web clients | |
| `EthernetProofs` | theorems about `RNDISEthernet` | |
| `MCParts` | the parts that work by themselves, one per behaviour | for TLC |

### USBDevice

A `USB_DEVICE_ONLY` build on an AVR of series 4, 6 or 7, control endpoint
served by polling (`INTERRUPT_CONTROL_ENDPOINT` off), endpoint streams without
callbacks.

*State.*  Library globals and registers keep their names.  `pc` is the place
in the main program: `"app"` is application code, every other label a place
inside `USB_DeviceTask` between two accesses to shared state.  `isr` is the
next section of the handler (0: not running); while it is not 0 the main
program does not move.  `ep0` holds the flags RXSTPI, RXOUTI and TXINI of the
control endpoint, `bank` the last SETUP.  On the host's side `xfer` is the
stage of the control transfer and `hostAddr`, `hostCfg` what the host believes.
`unread`, `appEndpoint` and `clobbered` are history.

*Actions.*  `MainStep` is the task: `TaskEnter`, `ReadHeader` with `Dispatch`
(the switch on bRequest), and the steps of the handlers, shared where the code
is (`AckSETUP`, `WriteStream`, `StatusStage`, ...), down to `Tail` (the final
RXSTPI test) and `TaskRestore`.  `ISRStep` is one section of
`ISR(USB_GEN_vect)`: `OnVBUS`, `OnSuspend`, `OnWakeup`, `OnReset`, `OnSOF`.
`USB_Init`, `USB_ShutDown` and `AppSelect` are calls of the application.
`BusEvent` and `HostProgress` are the controller's hardware, the cable and the
host, and external: modelled from how the code uses them and the USB
specification's control transfers.

*The SOF step.*  The Keyboard demo enables SOF events in its
ConfigurationChanged handler; `SofRead` and `SofWrite` are the two halves of
that read-modify-write.  `SOFEvents` says whether the application does so.

*Abstractions.*  Descriptors are numbers of packets, `wLength` counts packets,
strings and the serial number descriptor are left out; so is remote wake-up
signalling.  `StreamPackets` may or may not send the closing empty packet where
the length in bytes would decide.

*HostPolicy.*  `"any"` hosts reset, suspend and start transfers at any moment.
The USB specification gives a device time to recover and hosts use it;
`"paced"` hosts ask only when the device's loop is idle.  The device measures none of
these times, so the safety invariants are checked against `"any"`, and only what
cannot hold then (agreement, ends of transfers) against `"paced"`.  The cable
may be pulled at any moment under each.

### RingBuff and BoundedQueue

As its three users configure it: operations run with interrupts off
(`BUFF_VOLATILE`), a store into a full buffer drops the oldest element
(`BUFF_DROPOLD`), a get does not check (`BUFF_NOEMPTYCHECK`).  Pointers are
slot numbers.  `TestElements` and `Buffer_GetElement` are the consumer, in two
steps; a store may come between them.  `ElementsRange` is the width of
`RingBuff_Elements_t`.  `Contents` maps the ring to the queue.

### USBtoSerial

`pc` follows the main loop of `USBtoSerial.c` into the CDC functions it calls.
Each function's test of the state (`Received`, `SendTest`, `Task`, `FlushTest`
and the test in `LoopReceives`) and its work on the endpoint (`Count`,
`ReadByte`, `SendSelect`, `Write`, `TaskOUT`, `Flush`) are separate steps, and
`SendWait`, `FlushWait` are `Endpoint_WaitUntilReady`.  Its count of 100 frames
is not kept: while the host has the bank, the wait may give up at any moment.
The test of `Elements` and the get after it are one step here, since
`RingBuff` shows that nothing can come between them.  `USARTReceive` is the
receive handler; `Attach`, `Detach`, `BusReset`, `Suspend`, `WakeUp` are what
the USB handler does to `USB_DeviceState` and the endpoints (their detail is in
`USBDevice`).  `USB_USBTask` is `NoRequest`, `SetConfiguration` or
`SetLineEncoding`.

Bytes are numbered, so that loss, duplication and order can be seen; 0 is the
value `CDC_Device_ReceiveByte` returns for no byte.  `outGap`, `inGap` and `late` record
that the code has reported or caused a loss it documents (bank cleared by a
reset, oldest byte dropped, byte discarded while not configured, wait given
up): without one of them nothing may be missing.

### USBHost and HostLifecycle

A `USB_HOST_ONLY` build under the main loop of a host demo
(`Demos/Host/ClassDriver/MassStorageHost`).  `pc` is the next step of the main
program and `isr` the section of the handler, as in `USBDevice`.  Each state of
`USB_Host_ProcessNextHostState` is a step or several, cut where the code waits,
touches a register that the handler touches too (`ConnectEnable`, the two halves
of the read-modify-write of OTGIEN), or raises an event.  `USB_HostState` is
written by both sides.  The waits count down `WaitMSRemaining`; `USB_Host_WaitMS`
looks for errors, and the control requests (`ControlWait1` to `ControlStatus`)
give up after a timeout or a stall.  The application configures the device as
the demo does and waits for its removal after an error.
`EVENT_USB_Host_HostError` loops forever in the demos; the model's handler
returns from it, since the library goes on after it.

`Plug`, `Unplug`, `Connect`, `NoConnection`, `Reattach` and `VoltageDip` are the
socket and the controller's detectors.  With `HostPolicy = "long"` a device is pulled
and the supply dips wherever the main program spends a millisecond or more
(`LongLabels`): in its waits, in the bus reset and the 10 ms after it, where the
disconnection interrupt is disabled, in what the events and the application print,
and in the idle loop.  What this leaves out are windows of a few instructions
between two of these places.  A new device is plugged when the main program is back
in its loop or hangs in a wait (`Stuck`): a person is slower than a print.  With
`"any"` all of them act between any two steps.  `ConfigPipe` may fail for want of
memory in the controller (`Host.c:113`).

`session` is what the application has been told by the events, and `told` changes
with each of them, so that an event that tells what was told before is a step of
its own.  `Lifecycle` maps both and the device's presence to `HostLifecycle`, which
lists the steps there may be: attachment, completion, end, and its repetition
(`CloseAgain`).  It promises no progress; `SessionsMoveOn` and `AttachmentSettles` are
about that.  `SessionsMoveOn` asks that an announced device is enumerated or given up
and that the application learns of a removal.  One exception is stated:
`Overwritten`, a main program that waits for ever for the frames of a device whose
removal the handler told, because it wrote `USB_HostState` over the handler's
Unattached.  `AttachmentSettles` is the same without the exception, for one that stays
in the socket; `host_reset` violates it.

### MassStorageBOT

The device: `MS_Device_USBTask` and what it calls (`ReadCommand`, `Decode`, the
streams `SendData` and `WriteData`, `StallData`, `StatusWait`, `SendStatus`,
`ResetTest`, `ClearStalls`), one step between two accesses to the banks or the
reset flag.  The demo is built with `INTERRUPT_CONTROL_ENDPOINT` (its makefile,
line 124), so a control request (`BOTReset`, `ClearFeature`) runs whole, between
any two of these steps.  The host is either the class driver in host mode with
an application that stops at the first error (`kind = "LUFA"`), or a host that
follows the transport's specification and recovers (`"BOT"`).  `Deliver...` is
the bus, `Replug` starts everything again.  Packets are whole and carry the tag
of their command, so that one taken for another's shows.  Data toggles are left
out.  `gaveUp` records a wait of the device that ran out: the SCSI layer drops
that result (`SCSI.c:284`) and reports success, so that `SuccessMeansDone` holds
only without it.  For the host driver of the library it also says that all the
data of a successful command were moved; a host that recovers may have lost some
to a stall that an earlier command, given up, left on the pipe.

### Scheduler

`Scheduler_GoSchedule`'s loop is `Stopped`, `Elapsed` or `NotElapsed` for the task
it is at, with the test of `Scheduler_HasDelayElapsed` as an operator.  `Tick` is
the application's timer interrupt; it comes at most once per round of the list
(`polled`), since a round that takes longer than a tick makes delays late by
itself.  `age` is the true age of a counter.  A body may stop and start tasks.

### Dataflash

Two chips that program a page from one of their two buffers by themselves while
the manager fills another.  A unit is what the manager's inner loop moves; its
value names the write it is from and the place it was meant for.  Writes come
from the host, which may give up at any packet, or from the file system
(`_RAM` functions).  A chip is taken to be done with a page before the next
command starts: the code does not wait there, and what the chip does with the
buffer then is not in the source.

`DataflashConstants` says for which memories the code is right: pages and blocks end
together, as on every board (the test at the end of a page counts whole blocks, so a
page that ended inside one would lose its tail), commands are of at least one block
and within the memory (the SCSI layer tests the first block only), and those of the
file system stay in one row of pages.

### BootloaderDFU

`Refuse`, `SelectRead`, `CheckBlank`, `GetInfo`, `Erase`, `StartApplication`,
`BeginDownload` and `EmptyDownload` are the commands a DFU_DNLOAD carries, `Upload`,
`ClearStatus` and `Abort` other requests; `DiscardByte`, `DataPacket`, `WriteWord` and
`WriteByte` are the loops of a download over packets, which `Unattached` may leave
anywhere, and `Restart` is a reset of the chip.  Every byte of memory is
blank or names the download and the address it was sent for.  One 64 KB page of
flash; `SECURE_MODE` is TRUE, so that there is something to keep secret.

The controller's page buffer (`pageFill`) is the AVR's: a word it holds is not
loaded again, a page write or a reset empties it, erasing a page does not, and an
EEPROM write loses it.  `fresh` says whether it was empty when a download began.
`AlignedDownloadsLand` is about downloads that begin where a packet does, in flash
with a page or within one (`Aligned`), on an empty buffer.  `parts_dfu` shows what the
first of these conditions is for, section 3 the other two.

### HIDParser

A step of `USB_ProcessHIDReport` is one item of the descriptor, with all its
error returns, or one field of a main item.  `laid` is what the device sends for
each report: the sequence of the bits of its fields; `meant` what the descriptor
says of each stored item.  `Push` includes the copy that is 14 bytes too long
(`HIDParser.c:86`): when it starts in the last entry it may fall on memory nobody
uses or on the usages that wait.  That it may also fall on saved registers or the
return address is outside the model.  `Descriptors = "plain"` are those with one
top-level collection, PUSH only where no usage waits, and POP only where the
report ID has not changed since the PUSH; the code serves the others wrongly.

### Magstripe

`ReadMagstripeData` fills the bit buffers of the tracks, the task of the class
driver is `HID_Device_USBTask` with `CALLBACK_HID_Device_CreateHIDReport` inside,
`GetReport` and `SetIdle` are requests, `HostPolls` is the host.  `typed` is what the host
has seen pressed, and `text` what the cards that were read are to be typed as, line
by line.  A behaviour begins when the host has configured the device and stays so:
detach and bus reset, which empty the endpoint's banks and lose the keys in them,
are left out (`configured` never returns to FALSE).
`Use = "plain"`: a card is read when the last is typed and GET REPORT comes only
in between.

### RNDISEthernet

The main loop of the demo, place by place (`at`): the frame in `FrameIN` is processed
(`ProcessSYN`, `ProcessRST`, `ChangeState`, `ProcessData`, `ProcessOther`: the cases of
`TCP_ProcessTCPPacket`; `ProcessPing`: ARP and ICMP), the web server is called for
each entry of the connection table (`ServeRequest`, `ServeBlock`, `Idle`), a buffer
that is ready goes to `FrameOUT` (`SendBuffer`), and the class driver's task moves
frames from and to the bus (`ReadFrame`, `WriteFrame`) unless a control message waits
to be fetched (`KeepAlive`, `GetResponse`).  `Transitions` is the table of the changes
of state in the code's `switch`.  A frame is one unit and so is the data of a
segment; sequence numbers count units.  The clients of the host follow TCP, with
no retransmission, since the bus loses nothing: they open, ask, acknowledge,
close first or last, or give up.  `Answer` is what a request is to bring.
`MAX_TCP_CONNECTIONS` is a variable that never changes: a behaviour is one of a demo
built with any of `TableSizes`.

`Traffic = "plain"`: the host takes a frame before the device looks for the next
(full-speed polling is faster than a pass of the loop), and while a client waits
for its answer nobody else sends what wants one.  That is one browser with one
connection at a time in use, which is what the demo serves.

### MCParts

Components that do not interact (ring, scheduler, host, parser, Dataflash,
bootloader, magstripe, web server) share a run: `part` chooses the one a behaviour is about,
and the rest stay in their initial states.  Every property is one of the part's
own, evaluated on its states.

## 3. Runs

| Run | Host and bounds | Checks |
|---|---|---|
| `device_any` | `"any"`; 1 endpoint, 1 address, 4 requests | `TypeOK`, `ControlSelected`, `WakeSourceArmed`, `ClockHasPLL`, `NoUnansweredSetup`, `AppEndpointKept` |
| `device_paced` | `"paced"`; 8 requests, SOF events | `HostDeviceAgree`, `AddressAfterStatus` |
| `device_live` | `"paced"`; the 4 requests of an enumeration | `TransferEnds`, `UnattachedReleasesTask` |
| `bridge` | buffer 1, packets of 2, 2 bytes each way, 2 disruptions | `TypeOK`, `HostBytesInOrder`, `SerialBytesInOrder`, `HostBytesArrive`, `SerialBytesArrive`, `ReadsClose` |
| `storage` | both hosts; no data, data in, data out, refused; transfers of 2 packets; tags up to 3 | `TypeOK`, `PacketsOfCommand`, `SuccessMeansDone`, `NothingLeftBehind`, `CommandsEnd`, `DeviceReturns` |
| `parts`: ring | length 3, 3 values | `PointersAgree`, `ImplementsQueue` |
| `parts`: scheduler | counter of 6 values, 2 tasks in one group, delays 0, 3 and the largest | `DelaysOnTime` |
| `parts`: host | `"long"`; waits of 1 and 2 ms | `RequestsReachDevice`, `HostListens`, `ImplementsLifecycle`, `SessionsMoveOn` |
| `parts`: dataflash | 2 chips, 3 pages each, pages of 2 blocks, 2 writes | `BlocksKept`, `ReadsReturnWrites` |
| `parts`: bootloader | packets of 4, pages of 8, 2 downloads to flash and EEPROM | `AlignedDownloadsLand`, `FirmwareStaysSecret` |
| `parts`: parser | 5 repertoires of items, up to 3 fields, all tables of 2 or 3 | `ValuesRead`, `ReportSizesAgree`, `ItemsKeepMeaning` |
| `parts`: magstripe | 2 tracks of at most 4 bits, 2 cards, 2 banks | `CardsTyped` |
| `parts`: web server | `"plain"`; tables of 1 and of 2 entries, 2 clients, 2 connections, a header and 2 blocks | `AnswersIntact`, `BothAgree` |
| `parts`: all | | `PartsTypeOK` |
| `device_unplug` | `"any"` or milder, cable pulled | `UnattachedWithoutVBUS` is violated |
| `device_sof` | SOF events | `WakeSourceArmed` is violated |
| `host_reset` | `"long"`; waits of 1 ms | `AttachmentSettles` is violated |
| `bridge_zero` | 2 bytes out, 1 disruption | `NothingFabricated` is violated |
| `storage_stall` | host driver, pipes 1 and 2, endpoints 3 and 4 | `StallIsCleared` is violated |
| `parts_dfu` | EEPROM from address 3 | `DownloadsLand` is violated |

*Why the bounds are enough.*  `USBDevice` has no counters to speak of: its state
is finite once endpoints, addresses and requests are, one data endpoint is
enough to be the wrong one, and each kind of path through the request handlers
has a request (with and without a data stage, device and endpoint recipient,
stalled, class request).  The four requests of `device_any` cover an IN data
stage, an endpoint selection, a change of state and a refusal; the theorems cover
the rest.
`device_any` explores states up to `LiveView`: two states that differ only in a
value nothing reads before it is written again (a finished request, a spent
counter) count as one, which is sound for the invariants it checks.
In the bridge a packet is longer than the buffer, so that the loop's break
happens, and two bytes in fill a packet, which an empty one must follow.  Two
disruptions are a suspend with its wake-up, a reset that loses the
configuration, or a detach and the attach after it.  A ring of three wraps,
fills and drops.
In `storage` a transfer has a first and a last packet, a command can be refused
as a whole (missing unit) or fail with data left, and the tags wrap.
The scheduler's counter wraps within every delay it tests.  The Dataflash
commands of the run are a write from a page on the second chip to the last page (all four
buffers, one page whose tail must be kept), one inside a page, and one of the file
system that goes over to the next chip.  The bootloader's 10 bytes of flash are a
page and a part of the next, in packets that do not end with them.  The two cards of the
reader have equal neighbouring bits, an empty track, and lengths that wrap the
bit buffer at different places.  Each repertoire of the parser is the set of
items whose effects meet: report layout, PUSH and POP, usages, collections.  In a
connection table of one entry the second client is refused or takes the entry
over; in one of two both are connected.

*Deadlock* is checked in every run.

*Sizes* (distinct states, minutes with two workers): `device_any` 4.2 million, 1.6;
`device_paced` 3.9 million, 1; `device_live` 357 000, 1; `bridge` 269 000, 0.8;
`storage` 134 000, 0.3; `parts` 624 000, 2.5, of which ring 900, scheduler 64 000,
host 13 000, Dataflash 28 000, bootloader 189 000, parser 70 000, magstripe 20 000,
web server 233 000.

### Fairness

An AVR executes at least one instruction of the main program after a handler
returns, so handlers cannot starve it: strong fairness of `MainStep`, weak
fairness of `ISRStep`, whose handler is never preempted (`ISR_BLOCK`).  A host
finishes the stage of a transfer it has begun, or its stack gives it up with a
reset (weak fairness of `HostProgress`), and a transfer is activity on the
lines, which the controller reports (`WAKEUPI`).  Nothing else is fair: no
plug, reset, request or suspend has to happen or to stop.  In the bridge the
handlers are single steps and the main loop always has a step to take, so weak
fairness is enough, and a host that has opened the port polls the IN endpoint.
The three arrival properties assume that the host at some point has the device
configured and leaves it so (`Served`).

In `USBHost` the main loop and the handler run on (weak fairness), and the cable is
not moved so fast forever that the controller never finds a device there or not
there (strong fairness of `Connect \/ NoConnection`); nobody has to plug, pull or
dip, so that a main program that hangs for want of a frame (`Overwritten`) hangs for
good.  In `MassStorageBOT` both programs run on and the bus delivers what it can;
nobody has to replug.  A host that has stopped (the demo's application, at the
first error) ends no more commands, and one exception is stated:
`HangsOnStalledWrite`, the loop at `Class/Host/MassStorage.c:249` that looks only
for a removal while the device has stalled the pipe.

### What the violated properties show

* `device_unplug`: after the cable is pulled, `USB_DeviceState` may end as
  Suspended (SUSPEND pending in the same pass of the handler as VBUS), or as
  what the task writes at the end of SET CONFIGURATION.  Wait loops and class
  drivers rely on Unattached.
* `device_sof`: `USB_Device_EnableSOFEvents` loads UDIEN, the suspend handler
  swaps SUSPEND and WAKEUP and freezes the clock, and the store restores the
  old enables: nothing can wake the device.
* `host_reset`: a device pulled in the bus reset of the enumeration is told to have
  gone when `USB_Host_ResetDevice` enables the interrupt again (`Host.c:277`), and line
  106 then writes WaitForDevice over the handler's Unattached.  The main program stays
  in `USB_Host_WaitMS`, which leaves for a frame or for Unattached; the next device is
  announced, and never enumerated.
* `bridge_zero`: a reset after `CDC_Device_BytesReceived` has counted n bytes
  sends n zero bytes out of the USART.
* `storage_stall`: the host driver passes the number of its pipe where the number
  of the endpoint is wanted; the stall stays unless the two are equal.
* `parts_dfu`: the turn of `DiscardFillerBytes` that takes the next packet counts
  as a byte.  With the real sizes 6 + 26 filler bytes end with the first packet of
  32, so a start address that is not a multiple of the packet's size stores every
  byte one address too high.

### Seen with other constants, or in the code, without a run

* `USBHost` with `HostPolicy = "any"`: `RequestsReachDevice` and `HostListens` (the
  read-modify-write of OTGIEN in `ConnectEnable` undoes what the handler changed) are
  violated, and completion may be reported for a device that was pulled (between
  the last frame of the wait after SET ADDRESS and `Host.c:182`).  These windows are a
  few instructions long.
* The application of the demo writes Configured after its prints
  (`MassStorageHost.c:103`-104), over a removal told in the meantime, and then hangs in
  the waits of its next request as in `host_reset`.  `Overwritten` covers it.
* `USBDevice` with `HostPolicy = "any"`: a SETUP that arrives between the status stage of
  one request and the last test of `USB_Device_ProcessControlRequest`
  (`DevChapter9.c:118`-121) is taken for the one just served, and is stalled and cleared
  unread; and a host that has seen a refusal's stall may send its next SETUP before
  that test clears RXSTPI, and loses it.  A `"paced"` host meets neither, and nothing
  in the repository says how soon a host may ask again.
* `HIDParser` with `Descriptors = "any"`: `ValuesRead` is violated when POP takes the
  report ID back and `CurrReportIDInfo` stays (`HIDParser.c:96`), `ItemsKeepMeaning`
  when PUSH overwrites waiting usages or a second top-level collection takes the
  first one's path (line 170).
* `Magstripe` with `Use = "any"`: a second card before the first is typed mixes
  the tracks, and may store more bits than the buffer has; GET REPORT takes a key.
* `HIDParser.c:332`: `USB_SetHIDReportItemInfo` tests bit `CurrentBit % 8` of the value
  and sets bit `BitMask` of the report, the reverse of what it should; the largest
  report size leaves out the last field.
* `DataflashManager.c:353`: the `_RAM` write sends the command of buffer 1 whatever
  buffer is in use, so a write that goes on beyond the first two pages loses data.
  `DataflashConstants` keeps the `_RAM` commands within one row of pages.
* `BootloaderDFU` with `Ranges = {<<"flash", 4, 9>>}` and pages of 8: `DownloadsLand` is
  violated.  The words of a page are counted from where the download begins
  (`BootloaderDFU.c:226`), so that a download that begins in the middle of a page wraps
  to the start of the page buffer, and what belongs to the next page is written to
  the first one.  The proof of `AlignedDownloadsLand` found this: with pages and
  packets of one size, as they once were here, it could not happen.
* With `Ranges = {<<"flash", 8, 17>>}` and two downloads `DownloadsLand` is violated too:
  the handler that returns because the cable was pulled leaves its words in the page
  buffer, and the next download erases a page of flash (the comment of line 570 says
  "temp buffer") and programs the old words with its own.
* `BootloaderDFU.c:212`: a range of all 64 KB counts 0 bytes.  A chip erase leaves the
  EEPROM.
* `RNDISEthernet` with `Traffic = "any"`: `AnswersIntact` and `BothAgree` are violated.  The
  FIN that answers whatever reaches a connection in Closing (`Lib/TCP.c:486`) overtakes
  the last block, with the same sequence number, when the host is slow to take
  frames; a response, or the answer to a ping, overwrites a frame that waits in
  `FrameOUT` (`Lib/Ethernet.c:95` does not look), and since nothing is sent again its
  client waits for ever; two pages read at once mix their blocks, and the one that
  ends later runs past the end of `HTTPPage` (`Lib/Webserver.c:108`); a SYN takes an
  entry over with a buffer that is still marked ready.
* In `"plain"` traffic too, a client that closes first never ends (state `half`): the
  FIN that answers its own is numbered one too high (`Lib/TCP.c:437`).  `BothAgree` lets
  it be.  A segment for a closed port is answered through a connection that is not
  in the table, a NULL pointer (line 559).
* `MassStorage.c:249` of the host driver: see `HangsOnStalledWrite`.

## 4. Proofs

All theorems hold for every value of the constants that the modules' `ASSUME`s
allow (sets of endpoints and addresses, any requests of the listed kinds, any
descriptors; any buffer length below the count's range and any element type that
contains 0; any sizes of packets, pages and memories).  Where a theorem needs a
particular host or particular descriptors it says so in its statement, and the
reason is below.

`USBDeviceProofs`:

* `TypeCorrect`.  `TypeOK` is not inductive: `SetNumber` and the address steps
  need to know that the request being served is of the kind their place
  implies, and `ReadHeader` that descriptors it will send exist.  `RequestAtPC`
  says so, and `TypeInv` is their conjunction.
* `ControlEndpointSelected`, `EverySetupAnswered`, `ApplicationEndpointKept`
  come from one invariant, `TaskInv`: `ControlSelected` (the control endpoint is the
  selected one wherever its registers are used; the exception, which the property
  states, is the last test of RXSTPI after a SET CONFIGURATION, whose
  ConfigurationChanged handler has configured the data endpoints and left one of
  them selected: that test then reads a data endpoint's register), `EndpointSaved` (the
  application's endpoint is in `PrevEndpoint` inside the task, unless a reset
  was served) and `SetupHeld` (until the acknowledgement, a pending SETUP is
  either the one read or a later, unread one).
* `ClockNeverWithoutPLL` is inductive as it stands.
* `WakeUpArmed` assumes an application without SOF events; that the assumption
  is needed is what `device_sof` shows.  `NoSofSteps` carries it.

* `DeviceAndHostAgree` (`HostDeviceAgree`) and `AddressTakenLast`
  (`AddressAfterStatus`) assume `HostPolicy = "paced"`: a host that waits for the end
  of a transfer, without which a SETUP may be lost (section 3).  Their invariant
  `AgreeInv` follows the host through a transfer: `RequestServed`, `SetupPending` and
  `StatusPending` say where the SETUP is and which side has to move next,
  `AddressAgrees`, `ConfigurationAgrees` and `StateAgrees` which side is ahead in
  between.  After a bus reset the two sides differ until the handler has served it
  (`Starting`), and a host that runs transfers means that no change of VBUS is
  waiting (`CableKnown`).

Each invariant has one lemma per party (main program, handler, host and
hardware, application) and in it one step per action.

`USBHostProofs`: `HostTypeCorrect` for any host policy.  `RequestsReach`
(`RequestsReachDevice`), `HostKeepsListening` (`HostListens`) and
`HostImplementsLifecycle` (`ImplementsLifecycle`) assume `HostPolicy = "long"`, for every
length of the waits.  The types count the milliseconds down within 16 bits.
`HostInv` says where the handler may run (`Interruptible`), what the registers tell of
the cable (`Cable`), and what each place of the main program knows of the device:
while a disconnection waits to be served nothing is known (`Leaving`), in a bus
reset the device may have gone with the interrupt disabled (`Resetting`, `Gone`),
otherwise the place fixes the enabled interrupts, the session and the device's
state (`Located`, `DeviceKnown`).  The handler's reset of the interface may be
overwritten: `Located` allows a main program that waits for a device that is gone,
whether or not a new one has been announced (`Missed`), and shows that none of its
requests goes out.  `HostImplementsLifecycle` is the whole refinement, which
speaks of steps only: an event counts as a step, a removal may be told again,
attachment and completion may not.

`MassStorageBOTProofs`: `StorageTypeCorrect`, `PacketsBelong` (`PacketsOfCommand`),
`SuccessTold` (`SuccessMeansDone`) and `CommandsLeaveNothing` (`NothingLeftBehind`), for
any operations, any length of transfers and any range of tags.  Their invariant,
`Types` and `Protocol`, says for each side where the command can be while that side is at
a given place, what an earlier command may have left in the pipes, when an endpoint
is stalled, and that what is left to send, on its way and received add up to what
the command asked for.

`FlashProofs`, the DFU bootloader: `BootloaderTypeCorrect`, `DownloadsComplete`
(`AlignedDownloadsLand`) and `SecureModeHolds` (`FirmwareStaysSecret`), for every even
size of packets and pages, any memories and any ranges in them.  That ranges exist
and hold whole words of flash is assumed of the host (`RangesExist`): the bootloader
does not test it.  Command and filler are assumed to take one packet, as they do.
`DownloadSoFar` is the state of a download: where it is in its packet
(`PacketsKept`: every packet but the last is full, so a word is never split, from
`EvenMultiple`), what the page being filled holds in the buffer and in flash
(`PageUnderWay`: it is erased, and the buffer has its words up to the cursor), and
what is behind it (`PagesDone`).  The lemmas on pages (`PageIs`, `SamePage`,
`OffsetsDiffer`, `WordInPage`) are the arithmetic of quotients that no back end does
by itself.  `Secrets` says that while the lock stands no upload is selected and
nothing received, and once it is gone neither flash nor page buffer holds a byte of
before.

`FlashProofs`, the Dataflash manager: `FlashTypeCorrect`, `BlocksAlwaysKept` (`BlocksKept`) and
`ReadsReturnLastWrite` (`ReadsReturnWrites`), for any number of chips and rows, any
pages and blocks that fit each other, and any commands that `DataflashConstants`
allows.  `BlocksKept` is not inductive, because what the manager fills is not stored yet.
`FlashInv` adds what the alternation of the buffers is for: while a write goes on, the
chips before the page's own may be programming the buffer in use, the others only the
other one, and each a page already passed (`InTurn`); what of the page at hand is not
to be written any more is in the buffer as it should be, fetched or written
(`BufferGood`); the units of the write are stored in every page passed (`Done`).  A page
that is begun without being fetched is written as a whole (`WholePage`, and
`WholePages` where pages are not longer than blocks).

`UtilityProofs`, the ring buffer: `Inv`, the conjunction of the three invariants, is inductive
(`TypeCorrect`, `PointersAlwaysAgree`, `NeverReadEmpty`).  `RefinesQueue` rests on
`ContentsSeq` (the mapped contents are a sequence of `Elements` elements),
`SlotFacts` (the slot a store writes holds no element that is kept) and
`AdvanceSlot` (a slot counted from the moved OutPtr is the next one counted from
the old): a store is a `Put`, a get is a `Take`, a test is a stutter.

`UtilityProofs`, the scheduler: `DelaysEndOnTime`, for every width of the counter, any number of
tasks and any delays up to `TASK_MAX_DELAY` (that bound is an assumption:
`Scheduler.h` states it, and the code does not test it).  A running task that is
polled once per tick resets its counter before it comes round twice; the
inductive invariant `SchedInv` says so: the counter is its age behind the ticks,
modulo the range (`InStep`), and no task is later than the poll that is due
(`InTime`).  `ElapsedOnTime` is the arithmetic of the two branches of
`Scheduler_HasDelayElapsed`: it errs by one tick, on the late side, across the wrap.

`UtilityProofs`, the stripe reader: `StripeTypeCorrect` and `CardsAreTyped`
(`CardsTyped`), for any cards, any number of tracks, size of the bit buffers, banks of
the endpoint and idle periods, with `Use = "plain"` (`Use = "any"` loses and mixes keys,
see above).  `MagInv` is `CardsTyped` with the types, `BuffersKept` (in every bit
buffer the two pointers are as far apart as it has elements, around the end of the
array, slots that hold no bit are clear, and the tracks before the current one are
empty) and `ReportsInStep` (the last
report the host has or will get is `PrevReportIN`, with no key in it when a release is
due).  `CardsTyped` is about a concatenation: what was
typed, what the host and the endpoint's banks hold, and the lines left in the buffers
are the text.  The step of each action shows which of these pieces a key moves from
and to; lemmas on `FlattenSeq`, by induction over a set of numbers
(`NatSetInduction`), say that a line taken from one piece and put to the next leaves
the whole as it was.

`EthernetProofs`: `WebServerTypeCorrect`, `AnswersStayIntact` (`AnswersIntact`) and
`BothSidesAgree` (`BothAgree`), for any clients and number of sessions, any size of the
table of connections and any page of up to 256 blocks, with `Traffic = "plain"` (with
`"any"` all three are violated, see above; the types because sequence numbers then
run past those of an answer).  `EthInv` is the invariant:

* `ClientsAgree` says for each client what can be true at once of its state, its entry
  in the table, the frame read from it, the one still in the endpoint, the frame on
  its way to it, and `PageBlock`.  There is one case per state of a client
  (`ClosedOK` to `HalfOK`), and `WaitOK` for one that waits: what it has is the first
  pieces of its answer; the next piece is on its way (`OnItsWay`) or in the buffer of
  its entry, or will be made from `PageBlock` (`ToSend`), without a gap.
* `TableOK`: a client has one entry, which is what `TCP_SetConnectionState`, looking for
  the first match, relies on.
* `BusInTurn`, `FrameInTurn`: when a frame is processed `FrameOUT` is free, so that a
  response overwrites nothing.
* `OneWaits`, `OthersAside`: one client waits at a time, and until it has its answer
  the frames that are about are acknowledgements and its own.
* `BuffersOK`: a buffer that is ready is being taken for a request or given with a
  piece of an answer, and one in use belongs to the client that waits.

The steps of a client and its entry are lemmas about values (`AckEstablishes`,
`PshTaken`, `BlockNext`, `PieceSeen` and so on, one per segment and state); three
lemmas carry them to the state: `Handled` for what `TCP_ProcessTCPPacket` does to an
entry, `CalledKeeps` for what the application does, `SentKeeps` for what a client
sends.

`HIDParserProofs`: `ParserTypeCorrect` holds for all descriptors.  `ItemValues` (the
value read for a stored item is that of the device's field) and
`ReportSizesCorrect` (the size the parser reports for a report is the number of
its bits) assume `Descriptors = "plain"`, and hold for every size of the tables, any
set of report IDs, usages, sizes and counts.  Their invariant is `HIDTypeOK /\
Layout /\ ValuesRead`: `Layout` ties the parser's table of sizes to the bits laid so
far (every ID has one entry, the entry in use is that of the ID in force, its
sizes are the lengths of the reports, an ID not yet seen has no bits).
`ItemsMeaning` (`ItemsKeepMeaning`: usages and collections of stored items) has an
invariant of its own, `HIDTypeOK /\ Meaning`: a path that is in use keeps its trail to
the top (`Placed`), and what is left of the usage list and of the usage range is what the
descriptor has not handed out yet (`ListLeft`, `RangeLeft`, `UsagesKept`).  That
plain descriptors are needed is what `Descriptors = "any"` shows.

`USBtoSerialProofs`: `BridgeTypeCorrect`, `HostOrder` and `SerialOrder`, for every size
of the buffers and packets and any number of bytes and disruptions.  Their
invariant is `BridgeInv`: the types, what each place in the main program knows
(`Places`: the counted bytes are still in the bank, there is room in the buffer for
the byte being read, and room in the bank for the one being written) and what
the flags say of the banks (`BanksAgree`).  Without `Places` a wait, a bus reset or
a detach between two steps could let a byte be read from an empty bank.  The
order then follows step by step: a byte moves from the end of one piece of the
stream to the next, and lemmas on joined streams (`Join`, `Parted`, `OutParts`,
`InParts`) say that order and content are kept.  A stream's places carry the bytes
in the order they were sent, a fabricated zero counting as no byte.

*Only model-checked*: all liveness properties (`TransferEnds`,
`UnattachedReleasesTask`, `HostBytesArrive`, `SerialBytesArrive`, `ReadsClose`,
`CommandsEnd`, `DeviceReturns`, `SessionsMoveOn`), because the prover has no rule for
fairness and ENABLED.  `PartsTypeOK` is the type
invariant of whichever component `MCParts` runs: each of the eight is proved of its
own component, for the hosts, descriptors and traffic named above, and their
conjunction in a run of one part at a time is not stated again.

## 5. What is not modelled

The share of the repository the modules cover is small because most of it is not
the library's logic: of some 109 000 lines about a third is vendored (uIP, FatFs),
and most of the rest are demonstrations in four variants, their descriptors,
register definitions of drivers, and headers.  Of what has state and order of its
own these are left out:

* *Switching between device and host mode* by the ID pin, bus suspension by the
  host, and remote wake-up: they block on hardware or reset everything.
* *Double banks, stream callbacks and byte orders* of the stream templates, the
  control read template, and the frame count of `Endpoint_WaitUntilReady` (the
  models let the wait give up at any moment; an application that clears the SOF
  flag in its handler makes it endless).
* *Read-modify-writes of endpoint flags* (`Endpoint.h:395`): whether one can erase a
  flag the controller sets in between depends on the controller.
* *RNDIS control messages* other than as something that holds up frames, the RNDIS
  driver in host mode, DHCP, and the lengths and checksums of the TCP/IP demo.
* *AVRISP programmer, XPLAIN bridge, CDC and TeensyHID loaders*: request and
  response, or timing of the target's pins.
* *Other class drivers*: thin layers over the streams modelled here.
* *Formats*: contents of descriptors, sense data, SCSI answers, key codes.

Left out for good: vendored code, board and peripheral drivers (register access
without shared state), and demonstrations that only show a class driver.
