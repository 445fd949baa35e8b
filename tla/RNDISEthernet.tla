---------------------------- MODULE RNDISEthernet ----------------------------
(***************************************************************************)
(* The web server of the RNDIS Ethernet demo                               *)
(* (Demos/Device/ClassDriver/RNDISEthernet): its TCP (Lib/TCP.c) and       *)
(* Ethernet layer over the two frame buffers of the RNDIS class driver     *)
(* (Class/Device/RNDIS.c), and the web clients of the host.                *)
(*                                                                         *)
(* A frame is one unit, and so is the data of a segment.  Both sides       *)
(* number what they send from 0.                                           *)
(***************************************************************************)
EXTENDS Naturals, Sequences

Seqs == INSTANCE SequencesExt
Sets == INSTANCE FiniteSetsExt

CONSTANTS
  TableSizes,     \* what MAX_TCP_CONNECTIONS may be
  LAST_BLOCK,     \* sizeof(HTTPPage) / HTTP_REPLY_BLOCK_SIZE
  Clients,        \* remote ports
  MaxSessions,    \* bound: connections the clients open
  Traffic         \* "plain": the host takes a frame before the device looks for
                  \* the next, and while a client waits for its answer nobody
                  \* else sends what wants one; or "any"

NoClient == "none"

\* PageBlock is a byte.
ASSUME EthAssumption ==
  /\ TableSizes \subseteq Nat \ {0} /\ LAST_BLOCK \in 0..255 /\ MaxSessions \in Nat
  /\ NoClient \notin Clients /\ Traffic \in {"plain", "any"}

Nothing  == <<"none", 0>>
Header   == <<"HTTP200Header", 0>>
NotFound == <<"HTTP404Header", 0>>
Block(n) == <<"HTTPPage", n>>
Requests == {<<"GET /", 0>>, <<"GET /x", 0>>, <<"unknown", 0>>}
Payload  == Requests \cup {Nothing, Header, NotFound} \cup {Block(n) : n \in 0..255}

\* What a client that sends r is to receive.
Answer(r) ==
  CASE r = <<"GET /", 0>>  -> <<Header>> \o [n \in 1..(LAST_BLOCK + 1) |-> Block(n - 1)]
    [] r = <<"GET /x", 0>> -> <<NotFound>>
    [] OTHER               -> <<>>

VARIABLES
  MAX_TCP_CONNECTIONS,  \* fixed when the demo is built
  \* The device.
  at,                   \* place in the main loop
  FrameIN, FrameOUT,    \* the frame buffers
  message,              \* MessageLength is not 0: a control response waits
  connections,          \* ConnectionStateTable
  PageBlock,
  \* The bus and the host.
  outBank, inBank,      \* a frame in the data endpoints
  clients,
  sessions              \* connections opened so far

deviceVars == <<at, FrameIN, FrameOUT, message, connections, PageBlock>>
ethVars    == <<MAX_TCP_CONNECTIONS, deviceVars, outBank, inBank, clients, sessions>>

Entries == 1..MAX_TCP_CONNECTIONS

\* Places: the incoming frame, the application of each connection, and
Processing == 0
Sending    == MAX_TCP_CONNECTIONS + 1    \* the second half of TCP_TCPTask
Reading    == MAX_TCP_CONNECTIONS + 2    \* the two halves of RNDIS_Device_USBTask
Writing    == MAX_TCP_CONNECTIONS + 3

Numbers  == 0..(LAST_BLOCK + 5)

\* Frames of clients, and those of nobody.
Bare(flags) == [client |-> NoClient, flags |-> flags, data |-> Nothing]
NoFrame  == Bare("none")
Ping     == Bare("ping")
Pong     == Bare("pong")
ToDevice == [client : Clients, flags : {"SYN", "ACK", "PSH", "FIN", "RST"}, data : Payload]
ToHost   == [client : Clients, flags : {"SYN", "ACK", "FIN", "RST"}, seq : Numbers, ack : Numbers,
             data : Payload]
ConnectionState ==
  [client : Clients \cup {NoClient},
   state : {"SYNReceived", "Established", "FINWait1", "FINWait2", "CloseWait", "Closing", "Closed"},
   SequenceNumberIn : Numbers, SequenceNumberOut : Numbers,
   Direction : {"IN", "OUT"}, Ready : BOOLEAN, InUse : BOOLEAN, Data : Payload]
Client   == [state : {"closed", "synSent", "open", "finSeen", "lastAck", "finWait", "half"},
             request : Requests \cup {Nothing}, got : Seq(Payload), sent : Numbers, next : Numbers,
             ackDue : BOOLEAN]

EthTypeOK ==
  /\ MAX_TCP_CONNECTIONS \in TableSizes /\ at \in Processing..Writing
  /\ {FrameIN, outBank} \subseteq ToDevice \cup {NoFrame, Ping}
  /\ {FrameOUT, inBank} \subseteq ToHost \cup {NoFrame, Pong}
  /\ message \in BOOLEAN /\ connections \in [Entries -> ConnectionState] /\ PageBlock \in 0..255
  /\ clients \in [Clients -> Client] /\ sessions \in 0..MaxSessions

\* TCP_Init and Webserver_Init have run, and the host has set the packet filter.
EthInit ==
  /\ MAX_TCP_CONNECTIONS \in TableSizes
  /\ at = Processing /\ FrameIN = NoFrame /\ FrameOUT = NoFrame /\ message = FALSE
  /\ connections = [e \in Entries |->
       [client |-> NoClient, state |-> "Closed", SequenceNumberIn |-> 0, SequenceNumberOut |-> 0,
        Direction |-> "IN", Ready |-> FALSE, InUse |-> FALSE, Data |-> Nothing]]
  /\ PageBlock = 0
  /\ outBank = NoFrame /\ inBank = NoFrame /\ sessions = 0
  /\ clients = [c \in Clients |-> [state |-> "closed", request |-> Nothing, got |-> <<>>,
                                   sent |-> 0, next |-> 0, ackDue |-> FALSE]]

\* Full-speed polling is faster than a pass of the main loop.
Prompt == Traffic = "plain" => inBank = NoFrame

-----------------------------------------------------------------------------
(* TCP_ProcessTCPPacket, called through Ethernet_ProcessPacket.            *)

BusFrame == UNCHANGED <<outBank, inBank, clients, sessions>>
Arrived  == at = Processing /\ FrameIN # NoFrame /\ Prompt
TCPFrame == Arrived /\ FrameIN # Ping

\* TCP_SetConnectionState: the entry of a client, or else a closed one.
EntriesOf(c) == {e \in Entries : connections[e].client = c}
Usable(c)    == IF EntriesOf(c) # {} THEN EntriesOf(c)
                ELSE {e \in Entries : connections[e].state = "Closed"}
First(S)     == Sets!Min(S)

Segment(e, flags, data) ==
  [client |-> e.client, flags |-> flags, seq |-> e.SequenceNumberOut,
   ack |-> e.SequenceNumberIn, data |-> data]

\* The frame is done with: entry i becomes e, and a response is written to
\* FrameOUT, whatever is there.
Processed(i, e, response) ==
  /\ connections' = [connections EXCEPT ![i] = e]
  /\ FrameOUT' = IF response = "none" THEN FrameOUT ELSE Segment(e, response, Nothing)
  /\ FrameIN' = NoFrame /\ at' = at + 1
  /\ UNCHANGED <<message, PageBlock>> /\ BusFrame

Ignored ==
  /\ FrameIN' = NoFrame /\ at' = at + 1
  /\ UNCHANGED <<FrameOUT, message, connections, PageBlock>> /\ BusFrame

\* A SYN is refused in silence when the table is full.
ProcessSYN ==
  /\ TCPFrame /\ FrameIN.flags = "SYN"
  /\ LET c == FrameIN.client
     IN  \/ Usable(c) = {} /\ Ignored
         \/ /\ Usable(c) # {}
            /\ LET i == First(Usable(c))
               IN  Processed(i, [connections[i] EXCEPT !.client = c, !.state = "SYNReceived",
                                   !.SequenceNumberIn = 1, !.SequenceNumberOut = 0,
                                   !.InUse = FALSE], "SYN")

ProcessRST ==
  /\ TCPFrame /\ FrameIN.flags = "RST"
  /\ LET c == FrameIN.client
     IN  \/ Usable(c) = {} /\ Ignored
         \/ /\ Usable(c) # {}
            /\ LET i == First(Usable(c))
               IN  Processed(i, [connections[i] EXCEPT !.client = c, !.state = "Closed"], "RST")

\* The state of the sender's connection; one that is not in the table is closed.
State(c) == IF EntriesOf(c) = {} THEN "Closed" ELSE connections[First(EntriesOf(c))].state

\* The changes of state: state, segment, next state, response.
Transitions ==
  {<<"SYNReceived", "ACK", "Established", "none">>,
   <<"Established", "FIN", "CloseWait",   "FIN">>,
   <<"FINWait1",    "FIN", "Closed",      "ACK">>,
   <<"FINWait1",    "ACK", "FINWait2",    "none">>,
   <<"FINWait2",    "FIN", "Closed",      "ACK">>,
   <<"CloseWait",   "ACK", "Closed",      "none">>}
  \cup {<<"Closing", flags, "FINWait1", "FIN">> : flags \in {"ACK", "PSH", "FIN"}}

Taken(t) == FrameIN.flags = t[2] /\ State(FrameIN.client) = t[1]

ChangeState ==
  /\ TCPFrame
  /\ \E t \in Transitions :
       /\ Taken(t)
       /\ LET i    == First(EntriesOf(FrameIN.client))
              fin  == t[2] = "FIN" /\ t[1] # "Closing"
              e    == connections[i]
          IN  Processed(i, [e EXCEPT !.state = t[3],
                !.SequenceNumberIn  = IF fin THEN @ + 1 ELSE @,
                !.SequenceNumberOut = IF fin \/ t[1] = "SYNReceived" THEN @ + 1 ELSE @,
                !.InUse = IF t[1] = "Closing" THEN FALSE ELSE @], t[4])

\* Data, or an acknowledgement, on an established connection.  What comes while
\* the application sends stays in FrameIN, and the main loop goes on.
Deferred ==
  at' = at + 1 /\ UNCHANGED <<FrameIN, FrameOUT, message, connections, PageBlock>> /\ BusFrame

\* Mutant: what comes in is not counted.
AppendUncounted(e, data) == [e EXCEPT !.Data = IF @ = Nothing THEN data ELSE @]
AppendData(e, data) ==
  [e EXCEPT !.SequenceNumberIn = @ + 1, !.Data = IF @ = Nothing THEN data ELSE @]

ProcessData ==
  /\ TCPFrame /\ FrameIN.flags \in {"ACK", "PSH"} /\ State(FrameIN.client) = "Established"
  /\ LET i       == First(EntriesOf(FrameIN.client))
         e       == connections[i]
         claimed == IF ~e.InUse /\ ~e.Ready
                    THEN [e EXCEPT !.Direction = "IN", !.InUse = TRUE, !.Data = Nothing] ELSE e
         filled  == IF FrameIN.data = Nothing THEN claimed
                    ELSE AppendData(claimed, FrameIN.data)
     IN  \/ claimed.Direction = "OUT" /\ Deferred
         \/ /\ claimed.Direction = "IN" /\ FrameIN.flags = "ACK"
            /\ Processed(i, filled, "none")
         \/ /\ claimed.Direction = "IN" /\ FrameIN.flags = "PSH"
            /\ Processed(i, [filled EXCEPT !.InUse = FALSE, !.Ready = TRUE], "ACK")

ProcessOther ==
  /\ TCPFrame /\ FrameIN.flags \notin {"SYN", "RST"}
  /\ State(FrameIN.client) = "Established" => FrameIN.flags \notin {"ACK", "PSH"}
  /\ \A t \in Transitions : ~Taken(t)
  /\ Ignored

\* ARP and ICMP: a frame that is answered at once.
ProcessPing ==
  /\ Arrived /\ FrameIN = Ping
  /\ FrameOUT' = Pong /\ FrameIN' = NoFrame /\ at' = at + 1
  /\ UNCHANGED <<message, connections, PageBlock>> /\ BusFrame

NoPacket == at = Processing /\ FrameIN = NoFrame /\ Prompt /\ Ignored

-----------------------------------------------------------------------------
(* TCP_TCPTask.                                                            *)

\* Webserver_ApplicationCallback for entry `at'.
Called(e, block) ==
  /\ connections' = [connections EXCEPT ![at] = e] /\ PageBlock' = block
  /\ at' = at + 1
  /\ UNCHANGED <<FrameIN, FrameOUT, message>> /\ BusFrame

Received(e) == e.Ready /\ e.Direction = "IN"

\* Mutant: the buffer is taken for the next block while it is still to be sent.
CapturedBusy(e) == e.InUse /\ e.Direction = "OUT"
Captured(e) == ~e.Ready /\ e.InUse /\ e.Direction = "OUT"
Sent(e, data) == [e EXCEPT !.Direction = "OUT", !.Ready = TRUE, !.Data = data]

ServeRequest ==
  /\ at \in Entries /\ Prompt
  /\ LET e == connections[at]
     IN  /\ Received(e)
         /\ \/ /\ e.Data = <<"GET /", 0>>
               /\ Called([Sent(e, Header) EXCEPT !.InUse = TRUE], 0)
            \/ /\ e.Data = <<"GET /x", 0>>
               /\ Called([Sent(e, NotFound) EXCEPT !.state = "Closing"], PageBlock)
            \/ /\ e.Data \notin {<<"GET /", 0>>, <<"GET /x", 0>>}
               /\ Called([e EXCEPT !.Ready = FALSE, !.Data = Nothing], PageBlock)

ServeBlock ==
  /\ at \in Entries /\ Prompt
  /\ LET e    == connections[at]
         full == Sent(e, Block(PageBlock))
     IN  /\ Captured(e)
         /\ Called(IF PageBlock = LAST_BLOCK
                   THEN [full EXCEPT !.InUse = FALSE, !.state = "Closing"] ELSE full,
                   (PageBlock + 1) % 256)

Idle ==
  /\ at \in Entries /\ Prompt
  /\ ~Received(connections[at]) /\ ~Captured(connections[at])
  /\ Called(connections[at], PageBlock)

\* The first buffer that is ready goes to FrameOUT, if that is free.
SendBuffer ==
  /\ at = Sending /\ Prompt /\ at' = Reading
  /\ LET ready == {e \in Entries : connections[e].Direction = "OUT" /\ connections[e].Ready}
     IN  \/ /\ FrameOUT # NoFrame \/ ready = {}
            /\ UNCHANGED <<FrameOUT, connections>>
         \/ /\ FrameOUT = NoFrame /\ ready # {}
            /\ LET i == First(ready)
               IN  /\ FrameOUT' = Segment(connections[i], "ACK", connections[i].Data)
                   /\ connections' = [connections EXCEPT ![i].SequenceNumberOut = @ + 1,
                                                         ![i].Ready = FALSE]
  /\ UNCHANGED <<FrameIN, message, PageBlock>> /\ BusFrame

-----------------------------------------------------------------------------
(* RNDIS_Device_USBTask, and the control requests in USB_USBTask.          *)

ReadFrame ==
  /\ at = Reading /\ Prompt /\ at' = Writing
  /\ IF ~message /\ FrameIN = NoFrame
     THEN FrameIN' = outBank /\ outBank' = NoFrame
     ELSE UNCHANGED <<FrameIN, outBank>>
  /\ UNCHANGED <<FrameOUT, message, connections, PageBlock, inBank, clients, sessions>>

WriteFrame ==
  /\ at = Writing /\ at' = Processing
  /\ IF ~message /\ inBank = NoFrame
     THEN inBank' = FrameOUT /\ FrameOUT' = NoFrame
     ELSE UNCHANGED <<FrameOUT, inBank>>
  /\ UNCHANGED <<FrameIN, message, connections, PageBlock, outBank, clients, sessions>>

Waiting(c) == clients[c].state = "open" /\ Answer(clients[c].request) # <<>>
Undisturbed == Traffic = "plain" => \A c \in Clients : ~Waiting(c)

\* SEND ENCAPSULATED COMMAND with a keep-alive message, and GET ENCAPSULATED
\* RESPONSE some time after.
KeepAlive ==
  /\ at = Processing /\ Undisturbed
  /\ message' = TRUE
  /\ UNCHANGED <<at, FrameIN, FrameOUT, connections, PageBlock>> /\ BusFrame

GetResponse ==
  /\ at = Processing
  /\ message' = FALSE
  /\ UNCHANGED <<at, FrameIN, FrameOUT, connections, PageBlock>> /\ BusFrame

DeviceNext ==
  \/ ProcessSYN \/ ProcessRST \/ ChangeState \/ ProcessData \/ ProcessOther
  \/ ProcessPing \/ NoPacket
  \/ ServeRequest \/ ServeBlock \/ Idle \/ SendBuffer \/ ReadFrame \/ WriteFrame
  \/ KeepAlive \/ GetResponse

-----------------------------------------------------------------------------
(* The host.  Its clients follow TCP; nothing is lost on the bus, so they  *)
(* have nothing to send again.                                             *)

Put(frame) ==
  /\ outBank = NoFrame /\ Prompt /\ outBank' = frame
  /\ UNCHANGED <<deviceVars, inBank>>

Send(c, flags, data, client) ==
  /\ Put([client |-> c, flags |-> flags, data |-> data])
  /\ clients' = [clients EXCEPT ![c] = client]

OpenConnection(c) ==
  /\ clients[c].state = "closed" /\ Undisturbed
  /\ sessions < MaxSessions /\ sessions' = sessions + 1
  /\ Send(c, "SYN", Nothing, [state |-> "synSent", request |-> Nothing, got |-> <<>>, sent |-> 1,
                              next |-> 0, ackDue |-> FALSE])

Acknowledge(c) ==
  /\ clients[c].ackDue
  /\ Send(c, "ACK", Nothing, [clients[c] EXCEPT !.ackDue = FALSE])
  /\ UNCHANGED sessions

\* A client that has nothing to wait for.
AtEase(c) == clients[c].state = "open" /\ ~clients[c].ackDue /\ Answer(clients[c].request) = <<>>

Request(c) ==
  /\ AtEase(c) /\ clients[c].request = Nothing /\ Undisturbed
  /\ \E r \in Requests :
       Send(c, "PSH", r, [clients[c] EXCEPT !.request = r, !.sent = @ + 1])
  /\ UNCHANGED sessions

CloseFirst(c) ==
  /\ AtEase(c) /\ Undisturbed
  /\ Send(c, "FIN", Nothing, [clients[c] EXCEPT !.state = "finWait", !.sent = @ + 1])
  /\ UNCHANGED sessions

CloseLast(c) ==
  /\ clients[c].state = "finSeen" /\ Undisturbed
  /\ Send(c, "FIN", Nothing,
          [clients[c] EXCEPT !.state = "lastAck", !.sent = @ + 1, !.ackDue = FALSE])
  /\ UNCHANGED sessions

\* A client may give up when it has its answer, in "any" traffic always.
GiveUp(c) ==
  /\ clients[c].state \in {"finSeen"} \cup (IF Traffic = "any" THEN {"open"} ELSE {})
  /\ Undisturbed
  /\ Send(c, "RST", Nothing, [clients[c] EXCEPT !.state = "closed", !.ackDue = FALSE])
  /\ UNCHANGED sessions

SendPing == Undisturbed /\ Put(Ping) /\ UNCHANGED <<clients, sessions>>

\* A client after segment s; c is the client before.
After(c, s) ==
  CASE s.flags = "SYN" /\ c.state = "synSent" ->
         [c EXCEPT !.state = "open", !.next = s.seq + 1, !.ackDue = TRUE]
    [] s.flags = "ACK" /\ s.data # Nothing /\ c.state \in {"open", "finWait", "half"} ->
         [c EXCEPT !.got  = IF s.seq = c.next THEN Append(@, s.data) ELSE @,
                   !.next = IF s.seq = c.next THEN @ + 1 ELSE @, !.ackDue = TRUE]
    [] s.flags = "ACK" /\ s.data = Nothing /\ c.state = "lastAck" /\ s.ack = c.sent ->
         [c EXCEPT !.state = "closed"]
    [] s.flags = "FIN" /\ s.seq = c.next /\ c.state = "open" ->
         [c EXCEPT !.state = "finSeen", !.next = @ + 1, !.ackDue = TRUE]
    [] s.flags = "FIN" /\ s.seq = c.next /\ c.state \in {"finWait", "half"} ->
         [c EXCEPT !.state = "closed", !.next = @ + 1, !.ackDue = TRUE]
    [] s.flags = "FIN" /\ s.seq # c.next /\ c.state \in {"open", "finWait", "half"} ->
         [c EXCEPT !.state = IF @ = "finWait" THEN "half" ELSE @, !.ackDue = TRUE]
    [] OTHER -> c

TakeFrame ==
  /\ inBank # NoFrame /\ inBank' = NoFrame
  /\ clients' = IF inBank = Pong THEN clients
                ELSE [clients EXCEPT ![inBank.client] = After(@, inBank)]
  /\ UNCHANGED <<deviceVars, outBank, sessions>>

ClientNext ==
  \/ TakeFrame \/ SendPing
  \/ \E c \in Clients : OpenConnection(c) \/ Acknowledge(c) \/ Request(c) \/ CloseFirst(c)
                        \/ CloseLast(c) \/ GiveUp(c)

EthNext == (DeviceNext \/ ClientNext) /\ UNCHANGED MAX_TCP_CONNECTIONS
EthSpec == EthInit /\ [][EthNext]_ethVars

-----------------------------------------------------------------------------
\* A client reads the header and the blocks of the page in their order, or the
\* refusal, and has it all when the device closes the connection: the device
\* itself keeps no copy of what it has sent, looks at no acknowledgement, and
\* has one block counter and one frame buffer for all connections.
AnswersIntact ==
  \A c \in Clients :
    /\ Seqs!IsPrefix(clients[c].got, Answer(clients[c].request))
    /\ clients[c].state \in {"finSeen", "lastAck"} => clients[c].got = Answer(clients[c].request)

\* Neither side has anything left to do.
AllQuiet ==
  /\ at = Processing /\ {FrameIN, FrameOUT, outBank, inBank} = {NoFrame} /\ ~message
  /\ \A e \in Entries : ~connections[e].Ready /\ ~Captured(connections[e])
  /\ \A c \in Clients : ~clients[c].ackDue

\* When all is quiet, both sides agree: no client waits, a
\* connection that is open for one side is open for the other with the same
\* numbers, and one that its client has closed has given its entry back.
\* A client that closes first stays half closed: the FIN it is answered with is
\* numbered one too high (TCP.c:437).
BothAgree ==
  AllQuiet => \A c \in Clients :
    /\ \/ clients[c].state \in {"closed", "synSent", "half"} /\ State(c) = "Closed"
       \/ clients[c].state = "open" /\ State(c) = "Established" /\ ~Waiting(c)
       \/ clients[c].state = "finSeen" /\ State(c) = "FINWait2"
    /\ clients[c].state = "open" =>
         LET e == connections[First(EntriesOf(c))]
         IN  e.SequenceNumberIn = clients[c].sent /\ e.SequenceNumberOut = clients[c].next
==============================================================================
