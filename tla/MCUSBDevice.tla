----------------------------- MODULE MCUSBDevice -----------------------------
(* Small instances of USBDevice for TLC. *)
EXTENDS USBDevice

Req(n, to, v, i, l) == [req |-> n, rcpt |-> to, val |-> v, idx |-> i, len |-> l]

\* One data endpoint, one address, one configuration, one descriptor.
MCDescriptorPackets == [d \in {1} |-> 2]

\* The enumeration requests.
EnumRequests ==
  { Req("SetAddress", "device", 1, 0, 0),
    Req("SetConfiguration", "device", 1, 0, 0),
    Req("SetConfiguration", "device", 0, 0, 0),
    Req("GetDescriptor", "device", 1, 0, 2) }

\* A request on an endpoint, a feature, and two the device must refuse.
OtherRequests ==
  { Req("GetStatus", "endpoint", 0, 1, 1),
    Req("SetFeature", "device", 1, 0, 0),
    Req("SetConfiguration", "device", 2, 0, 0),
    Req("GetDescriptor", "device", 9, 0, 1) }

\* For a host that cuts in anywhere: one request of each kind of handler, and
\* one that the device must refuse.
RoughRequests ==
  { Req("SetConfiguration", "device", 1, 0, 0),
    Req("SetFeature", "endpoint", 0, 1, 0),
    Req("GetDescriptor", "device", 1, 0, 1),
    Req("GetDescriptor", "device", 9, 0, 1) }

(***************************************************************************)
(* For runs that check invariants only: states that differ in a value no   *)
(* later step or invariant reads before it is written again are one state. *)
(* Counters matter while their transfer runs, the request while its        *)
(* handler does, the bank while it holds a SETUP or an IN status stage is  *)
(* due; hostCfg guides a paced host alone.                                 *)
(***************************************************************************)
WhileIn(live, v) == IF live THEN v ELSE "dead"

LiveView ==
  LET pending == "RXSTPI" \in ep0
  IN  <<WhileIn(pc \notin {"app", "read", "tailClear", "restore"}, USB_ControlRequest),
        WhileIn(pc \in {"ackSETUP", "sendData", "writeStream"}, left),
        WhileIn(pending \/ xfer = "statusIn", bank),
        WhileIn(pending, unread),
        WhileIn(xfer = "data", hostLeft),
        WhileIn(~clobbered, appEndpoint),
        WhileIn(HostPolicy = "paced", hostCfg),
        pc, PrevEndpoint, udien, intVars, regVars, enabled, stalled, ep0,
        USB_IsInitialized, USB_DeviceState, USB_ConfigurationNumber,
        USB_RemoteWakeupEnabled, vbus, xfer, hostRunning, hostAddr, clobbered>>

AllRequests == EnumRequests \cup OtherRequests
=============================================================================
