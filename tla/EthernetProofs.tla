---------------------------- MODULE EthernetProofs ----------------------------
(***************************************************************************)
(* The answers of the web server, for any clients, sessions, sizes of the  *)
(* page and of the table of connections.                                   *)
(*                                                                         *)
(* The invariant says of each client what its own state, its entry in the  *)
(* table and the frames between them can be at the same time (ClientOK):   *)
(* of one that waits for an answer, that what it has, the piece on its     *)
(* way, the buffer of its entry and PageBlock follow each other without a  *)
(* gap.  What makes the shared frame buffers and the shared block counter  *)
(* safe is that one client waits at a time (OneWaits), and that until it   *)
(* has its answer nothing else wants one (OthersAside).  So the theorems   *)
(* are about "plain" traffic; with "any", answers are lost and mixed up.   *)
(*                                                                         *)
(* First come the steps of one client and its entry, as lemmas about the   *)
(* values; then the table; then the actions.                               *)
(***************************************************************************)
EXTENDS RNDISEthernet, SequenceTheorems, WellFoundedInduction, TLAPS

-----------------------------------------------------------------------------
(* What each side knows of the other.  k is a client, e its entry in the   *)
(* table, i and o the flags of what it has sent and the device has not     *)
(* handled, b what the device has sent it, and page or p is PageBlock.     *)

ForPage  == <<"GET /", 0>>
ForNone  == <<"GET /x", 0>>
ForOther == <<"unknown", 0>>
Gets     == {ForPage, ForNone}
Waits(k) == k.state = "open" /\ k.request \in Gets
Total(r) == IF r = ForPage THEN LAST_BLOCK + 2 ELSE 1
Piece(r, n) == IF r = ForNone THEN NotFound
               ELSE IF n = 1 THEN Header ELSE Block(n - 2)

\* The entry of a client in a table, what it has on its way in a frame, and
\* what is on its way back.
Unused == [client |-> NoClient, state |-> "Closed", SequenceNumberIn |-> 0,
           SequenceNumberOut |-> 0, Direction |-> "IN", Ready |-> FALSE, InUse |-> FALSE,
           Data |-> Nothing]
Owned(table, c)    == {i \in DOMAIN table : table[i].client = c}
Mine(table, c)     == IF Owned(table, c) = {} THEN Unused ELSE table[First(Owned(table, c))]
From(frame, c)     == IF frame.client = c THEN frame.flags ELSE "none"
Back(out, bank, c) == IF out.client = c THEN out ELSE IF bank.client = c THEN bank ELSE NoFrame

\* i is what the device has read from the client, o what is still in the
\* endpoint.
None(i, o)      == i = "none" /\ o = "none"
Only(f, i, o)   == (i = f /\ o = "none") \/ (i = "none" /\ o = f)
Both(f, g, i, o) == i = f /\ o = g
Acks(i, o)      == i \in {"none", "ACK"} /\ o \in {"none", "ACK"}

Numbered(e, in, out) == e.SequenceNumberIn = in /\ e.SequenceNumberOut = out
Receipt(b)           == b.flags = "ACK" /\ b.data = Nothing
Closing(e)           == e.state \in {"FINWait1", "FINWait2"}

\* A client k whose entry is e, by its own state: no answer is wanted.
ClosedOK(k, e, i, o, b) ==
  /\ b.flags \in {"none", "RST"} /\ ~k.ackDue /\ k.got \in {<<>>, Answer(k.request)}
  /\ \/ None(i, o) /\ e.state = "Closed"
     \/ Closing(e) /\ i \in {"none", "ACK"} /\ o = "RST"
     \/ Closing(e) /\ i = "RST" /\ o = "none"

SynSentOK(k, e, i, o, b) ==
  /\ k.request = Nothing /\ k.got = <<>> /\ k.sent = 1 /\ k.next = 0 /\ ~k.ackDue
  /\ \/ /\ b.flags \in {"none", "RST"}
        /\ \/ e.state = "Closed" /\ (Only("SYN", i, o) \/ None(i, o))
           \/ Closing(e) /\ Both("RST", "SYN", i, o)
     \/ /\ b.flags = "SYN" /\ b.seq = 0 /\ None(i, o)
        /\ e.state = "SYNReceived" /\ Numbered(e, 1, 0)

OpenOK(k, e, i, o, b) ==
  /\ k.got = <<>> /\ k.next = 1
  /\ \/ /\ k.request = Nothing /\ k.sent = 1 /\ b = NoFrame
        /\ \/ e.state = "SYNReceived" /\ Numbered(e, 1, 0) /\ k.ackDue /\ None(i, o)
           \/ e.state = "SYNReceived" /\ Numbered(e, 1, 0) /\ ~k.ackDue /\ Only("ACK", i, o)
           \/ e.state = "Established" /\ Numbered(e, 1, 1) /\ ~k.ackDue /\ None(i, o)
     \/ /\ k.request = ForOther /\ k.sent = 2 /\ ~k.ackDue
        /\ \/ b = NoFrame /\ e.state = "SYNReceived" /\ Numbered(e, 1, 0) /\ Both("ACK", "PSH", i, o)
           \/ b = NoFrame /\ e.state = "Established" /\ Numbered(e, 1, 1) /\ Only("PSH", i, o)
           \/ /\ e.state = "Established" /\ Numbered(e, 2, 1) /\ None(i, o)
              /\ b = NoFrame \/ Receipt(b)

FinSeenOK(k, e, i, o, b) ==
  /\ k.request \in Gets /\ k.got = Answer(k.request) /\ k.sent = 2
  /\ b = NoFrame /\ Closing(e) /\ e.SequenceNumberIn = 2 /\ e.SequenceNumberOut <= LAST_BLOCK + 3
  /\ Acks(i, o)
  /\ e.state = "FINWait1" => k.ackDue \/ i = "ACK" \/ o = "ACK"

LastAckOK(k, e, i, o, b) ==
  /\ k.request \in Gets /\ k.got = Answer(k.request) /\ k.sent = 3 /\ ~k.ackDue
  /\ \/ /\ b = NoFrame /\ Closing(e) /\ e.SequenceNumberIn = 2
        /\ e.SequenceNumberOut <= LAST_BLOCK + 3
        /\ Only("FIN", i, o) \/ Both("ACK", "FIN", i, o)
     \/ Receipt(b) /\ b.ack = 3 /\ e.state = "Closed" /\ None(i, o)

FinWaitOK(k, e, i, o, b) ==
  /\ k.got = <<>> /\ k.next = 1 /\ k.request \in {Nothing, ForOther} /\ ~k.ackDue
  /\ k.sent \in {2, 3}
  /\ \/ b = NoFrame /\ e.state = "SYNReceived" /\ Numbered(e, 1, 0) /\ Both("ACK", "FIN", i, o)
     \/ /\ b = NoFrame /\ e.state = "Established" /\ Numbered(e, 1, 1) /\ Both("PSH", "FIN", i, o)
        /\ k.request = ForOther
     \/ /\ e.state = "Established" /\ e.SequenceNumberIn \in {1, 2} /\ e.SequenceNumberOut = 1
        /\ Only("FIN", i, o) /\ (b = NoFrame \/ Receipt(b))
     \/ e.state = "CloseWait" /\ e.SequenceNumberOut = 2 /\ None(i, o) /\ b.flags = "FIN" /\ b.seq = 2

HalfOK(k, e, i, o, b) ==
  /\ k.got = <<>> /\ k.request \in {Nothing, ForOther} /\ b = NoFrame
  /\ \/ e.state = "CloseWait" /\ k.ackDue /\ None(i, o)
     \/ e.state = "CloseWait" /\ ~k.ackDue /\ Only("ACK", i, o)
     \/ e.state = "Closed" /\ ~k.ackDue /\ None(i, o)

RestOK(k, e, i, o, b) ==
  /\ k.state = "closed"  => ClosedOK(k, e, i, o, b)
  /\ k.state = "synSent" => SynSentOK(k, e, i, o, b)
  /\ k.state = "open"    => OpenOK(k, e, i, o, b)
  /\ k.state = "finSeen" => FinSeenOK(k, e, i, o, b)
  /\ k.state = "lastAck" => LastAckOK(k, e, i, o, b)
  /\ k.state = "finWait" => FinWaitOK(k, e, i, o, b)
  /\ k.state = "half"    => HalfOK(k, e, i, o, b)

\* A client that waits for an answer.  Its request is on its way:
Asked(k, e, i, o, b) ==
  /\ k.next = 1 /\ ~k.ackDue /\ b = NoFrame /\ ~e.Ready /\ ~e.InUse
  /\ \/ e.state = "SYNReceived" /\ Numbered(e, 1, 0) /\ Both("ACK", "PSH", i, o)
     \/ e.state = "Established" /\ Numbered(e, 1, 1) /\ Only("PSH", i, o)

\* or has been read.  What of the answer is in a frame,
OnItsWay(k, e, b) ==
  \/ b = NoFrame /\ e.SequenceNumberOut = k.next
  \/ Receipt(b) /\ e.SequenceNumberOut = k.next /\ k.next = 1
  \/ /\ b.flags = "ACK" /\ b.data = Piece(k.request, k.next) /\ b.seq = k.next
     /\ e.SequenceNumberOut = k.next + 1
  \/ b.flags = "FIN" /\ b.seq = k.next /\ e.SequenceNumberOut = k.next

\* and what the entry has still to send.
ToSend(k, e, page) ==
  \/ /\ e.state = "Established" /\ e.Direction = "IN" /\ e.Ready /\ ~e.InUse
     /\ e.SequenceNumberOut = 1
  \/ /\ e.state = "Established" /\ e.Direction = "OUT" /\ e.InUse /\ k.request = ForPage
     /\ page <= LAST_BLOCK
     /\ e.Ready  => /\ e.SequenceNumberOut = page + 1
                    /\ e.Data = Piece(k.request, e.SequenceNumberOut)
     /\ ~e.Ready => e.SequenceNumberOut = page + 2
  \/ /\ e.state = "Closing" /\ e.Direction = "OUT" /\ ~e.InUse
     /\ e.Ready  => /\ e.SequenceNumberOut = Total(k.request)
                    /\ e.Data = Piece(k.request, e.SequenceNumberOut)
     /\ ~e.Ready => e.SequenceNumberOut = Total(k.request) + 1
  \/ e.state = "FINWait1" /\ ~e.InUse /\ ~e.Ready /\ k.next = Total(k.request) + 1

Served(k, e, i, o, b, page) ==
  /\ e.SequenceNumberIn = 2 /\ Acks(i, o)
  /\ OnItsWay(k, e, b) /\ ToSend(k, e, page)
  /\ b.flags = "FIN" <=> e.state = "FINWait1"
  /\ e.state # "FINWait1" => (k.next > 1 <=> (k.ackDue \/ i = "ACK" \/ o = "ACK"))

WaitOK(k, e, i, o, b, page) ==
  /\ k.sent = 2 /\ Len(k.got) + 1 = k.next
  /\ \A n \in 1..Len(k.got) : k.got[n] = Piece(k.request, n)
  /\ Asked(k, e, i, o, b) \/ Served(k, e, i, o, b, page)

ClientOK(k, e, i, o, b, page) ==
  /\ Waits(k)  => WaitOK(k, e, i, o, b, page)
  /\ ~Waits(k) => RestOK(k, e, i, o, b)

-----------------------------------------------------------------------------
(* The invariant.                                                          *)

ViewOK(c) == ClientOK(clients[c], Mine(connections, c), From(FrameIN, c), From(outBank, c),
                      Back(FrameOUT, inBank, c), PageBlock)
ClientsAgree == \A c \in Clients : ViewOK(c)

OneEach(table) == \A i, j \in DOMAIN table :
  table[i].client = table[j].client /\ table[i].client # NoClient => i = j
Spare(table) == \A i \in DOMAIN table : table[i].client = NoClient => table[i].state = "Closed"
TableOK == OneEach(connections) /\ Spare(connections)

BusInTurn   == inBank # NoFrame => at = Processing /\ FrameOUT = NoFrame
FrameInTurn == FrameIN # NoFrame => IF at = Processing THEN FrameOUT = NoFrame ELSE ~message

Carries(frame, r) == IF frame.flags = "PSH" THEN frame.data = r ELSE frame.data = Nothing
FramesTrue == \A c \in Clients :
  /\ FrameIN.client = c => Carries(FrameIN, clients[c].request)
  /\ outBank.client = c => Carries(outBank, clients[c].request)

OneWaits == \A c, d \in Clients : Waits(clients[c]) /\ Waits(clients[d]) => c = d
Asks(frame, c) == frame.client = c /\ frame.flags = "PSH"
Unhindered(c) ==
  \/ Asks(outBank, c)
  \/ /\ outBank.flags \in {"none", "ACK"}
     /\ FrameIN.flags \in {"none", "ACK"} \/ Asks(FrameIN, c)
     /\ ~message /\ (at = Processing => FrameOUT = NoFrame)
     /\ at \in 1..Sending /\ Mine(connections, c).SequenceNumberOut > 1
          /\ Mine(connections, c).state # "FINWait1" => FrameOUT = NoFrame
OthersAside == \A c \in Clients : Waits(clients[c]) => Unhindered(c)

Taking(e, i, k) ==
  /\ e.Direction = "IN" /\ at \in 1..i /\ e.state = "Established"
  /\ e.Data = k.request /\ k.request # Nothing /\ k.state \in {"open", "finWait"}
Giving(e, i, k) ==
  /\ e.Direction = "OUT" /\ Waits(k) /\ e.state \in {"Established", "Closing"}
  /\ e.state = "Closing" /\ k.request = ForPage => at \in (i + 1)..Sending
BufferOK(e, i) ==
  /\ e.Ready => e.client \in Clients
                /\ (Taking(e, i, clients[e.client]) \/ Giving(e, i, clients[e.client]))
  /\ e.InUse => e.client \in Clients /\ Waits(clients[e.client]) /\ e.state = "Established"
                /\ e.Direction = "OUT"
BuffersOK == \A i \in Entries : BufferOK(connections[i], i)

EthInv ==
  /\ EthTypeOK /\ ClientsAgree /\ TableOK /\ BusInTurn /\ FrameInTurn /\ FramesTrue
  /\ OneWaits /\ OthersAside /\ BuffersOK

\* The steps of a connection, in terms of what each side knows.
LEMMA ClosedAlike ==
  ASSUME NEW k, NEW e, NEW f, NEW i, NEW o, NEW b, NEW p,
         ClientOK(k, e, i, o, b, p), e.state = "Closed", f.state = "Closed"
  PROVE  ClientOK(k, f, i, o, b, p)
  BY DEF ClientOK, WaitOK, Asked, Served, ToSend, RestOK, ClosedOK, SynSentOK, OpenOK, FinSeenOK,
         LastAckOK, FinWaitOK, HalfOK, Closing

LEMMA PageAside ==
  ASSUME NEW k, NEW e, NEW i, NEW o, NEW b, NEW p, NEW q, ClientOK(k, e, i, o, b, p), ~Waits(k)
  PROVE  ClientOK(k, e, i, o, b, q)
  BY DEF ClientOK

LEMMA SynTaken ==
  ASSUME NEW k, NEW e, NEW o, NEW p, k \in Client, ClientOK(k, e, "SYN", o, NoFrame, p)
  PROVE  /\ e.state = "Closed" /\ o = "none" /\ ~Waits(k) /\ k.state = "synSent"
         /\ ClientOK(k, e, "none", o, NoFrame, p)
         /\ \A f, b : f.state = "SYNReceived" /\ Numbered(f, 1, 0) /\ b.flags = "SYN" /\ b.seq = 0
              => ClientOK(k, f, "none", o, b, p)
  <1>1. k.state \in {"closed", "synSent", "open", "finSeen", "lastAck", "finWait", "half"}
    BY DEF Client
  <1>2. ~Waits(k)
    BY DEF ClientOK, WaitOK, Asked, Served, Both, Only, Acks
  <1>3. k.state = "synSent"
    BY <1>1, <1>2 DEF ClientOK, RestOK, ClosedOK, OpenOK, FinSeenOK, LastAckOK, FinWaitOK, HalfOK,
                      None, Only, Both, Acks
  <1>4. SynSentOK(k, e, "SYN", o, NoFrame)
    BY <1>2, <1>3 DEF ClientOK, RestOK
  <1>5. e.state = "Closed" /\ o = "none" /\ NoFrame.flags \in {"none", "RST"}
    BY <1>4 DEF SynSentOK, None, Only, Both
  <1>6. SynSentOK(k, e, "none", o, NoFrame)
    BY <1>4, <1>5 DEF SynSentOK, None, Only, Both
  <1>7. \A f, b : f.state = "SYNReceived" /\ Numbered(f, 1, 0) /\ b.flags = "SYN" /\ b.seq = 0
              => SynSentOK(k, f, "none", o, b)
    BY <1>4, <1>5 DEF SynSentOK, None
  <1>8. \A f, i, b : SynSentOK(k, f, i, o, b) => ClientOK(k, f, i, o, b, p)
    BY <1>2, <1>3 DEF ClientOK, RestOK
  <1> QED BY <1>2, <1>3, <1>5, <1>6, <1>7, <1>8

LEMMA RstTaken ==
  ASSUME NEW k, NEW e, NEW o, NEW p, k \in Client, ClientOK(k, e, "RST", o, NoFrame, p),
         NEW f, NEW b, f.state = "Closed", b.flags = "RST"
  PROVE  Closing(e) /\ ~Waits(k) /\ ClientOK(k, f, "none", o, b, p) /\ k.state \in {"closed", "synSent"}
  <1>1. k.state \in {"closed", "synSent", "open", "finSeen", "lastAck", "finWait", "half"}
    BY DEF Client
  <1>2. ~Waits(k)
    BY DEF ClientOK, WaitOK, Asked, Served, Both, Only, Acks
  <1>3. k.state \in {"closed", "synSent"}
    BY <1>1, <1>2 DEF ClientOK, RestOK, OpenOK, FinSeenOK, LastAckOK, FinWaitOK, HalfOK,
                      None, Only, Both, Acks
  <1>4. CASE k.state = "closed"
    <2>1. ClosedOK(k, e, "RST", o, NoFrame)
      BY <1>2, <1>4 DEF ClientOK, RestOK
    <2>2. Closing(e) /\ ClosedOK(k, f, "none", o, b)
      BY <2>1 DEF ClosedOK, None
    <2> QED BY <1>2, <1>4, <2>2 DEF ClientOK, RestOK
  <1>5. CASE k.state = "synSent"
    <2>1. SynSentOK(k, e, "RST", o, NoFrame)
      BY <1>2, <1>5 DEF ClientOK, RestOK
    <2>2. Closing(e) /\ SynSentOK(k, f, "none", o, b)
      BY <2>1 DEF SynSentOK, None, Only, Both
    <2> QED BY <1>2, <1>5, <2>2 DEF ClientOK, RestOK
  <1> QED BY <1>2, <1>3, <1>4, <1>5

LEMMA RequestsApart ==
  /\ ForPage # ForNone /\ ForPage # ForOther /\ ForNone # ForOther
  /\ Nothing \notin {ForPage, ForNone, ForOther}
  /\ Requests = {ForPage, ForNone, ForOther}
  BY DEF ForPage, ForNone, ForOther, Nothing, Requests

LEMMA GetsApart ==
  Nothing \notin Gets /\ ForOther \notin Gets /\ Requests = Gets \cup {ForOther}
  BY RequestsApart DEF Gets

LEMMA PiecesOf ==
  /\ Piece(ForPage, 1) = Header /\ Total(ForPage) = LAST_BLOCK + 2
  /\ Piece(ForNone, 1) = NotFound /\ Total(ForNone) = 1
  /\ \A n : n # 1 => Piece(ForPage, n) = Block(n - 2)
  /\ \A n : n \in Gets \cup {ForOther} /\ n # ForPage => Total(n) = 1
  BY RequestsApart DEF Piece, Total

LEMMA StatesOf ==
  ASSUME NEW k \in Client
  PROVE  k.state \in {"closed", "synSent", "open", "finSeen", "lastAck", "finWait", "half"}
  BY DEF Client

LEMMA NumbersOf ==
  ASSUME NEW k \in Client
  PROVE  k.next \in Nat /\ k.sent \in Nat /\ (k.next > 1 => k.next # 1)
  BY EthAssumption DEF Client, Numbers

\* An acknowledgement of the SYN.
LEMMA AckEstablishes ==
  ASSUME NEW k \in Client, NEW e, NEW o, NEW p, ClientOK(k, e, "ACK", o, NoFrame, p),
         e.state = "SYNReceived", NEW f, f.state = "Established",
         f.SequenceNumberIn = e.SequenceNumberIn, f.SequenceNumberOut = e.SequenceNumberOut + 1,
         ~f.Ready, ~f.InUse
  PROVE  ClientOK(k, f, "none", o, NoFrame, p) /\ f.SequenceNumberOut = 1 /\ k.next = 1
  <1>1. CASE Waits(k)
    <2>1. WaitOK(k, e, "ACK", o, NoFrame, p)
      BY <1>1 DEF ClientOK
    <2>2. Asked(k, e, "ACK", o, NoFrame)
      BY <2>1 DEF WaitOK, Served, ToSend
    <2>3. Asked(k, f, "none", o, NoFrame) /\ f.SequenceNumberOut = 1 /\ k.next = 1
      BY <2>2 DEF Asked, Both, Only, Numbered
    <2> QED BY <1>1, <2>1, <2>3 DEF ClientOK, WaitOK
  <1>2. CASE ~Waits(k)
    <2>1. k.state \in {"open", "finWait"}
      BY <1>2, StatesOf DEF ClientOK, RestOK, ClosedOK, SynSentOK, FinSeenOK, LastAckOK, HalfOK,
                      None, Only, Both, Closing
    <2>2. CASE k.state = "open"
      <3>1. OpenOK(k, e, "ACK", o, NoFrame)
        BY <1>2, <2>2 DEF ClientOK, RestOK
      <3>2. OpenOK(k, f, "none", o, NoFrame) /\ f.SequenceNumberOut = 1 /\ k.next = 1
        BY <3>1 DEF OpenOK, None, Only, Both, Numbered
      <3> QED BY <1>2, <2>2, <3>2 DEF ClientOK, RestOK
    <2>3. CASE k.state = "finWait"
      <3>1. FinWaitOK(k, e, "ACK", o, NoFrame)
        BY <1>2, <2>3 DEF ClientOK, RestOK
      <3>2. FinWaitOK(k, f, "none", o, NoFrame) /\ f.SequenceNumberOut = 1 /\ k.next = 1
        BY <3>1 DEF FinWaitOK, None, Only, Both, Numbered
      <3> QED BY <1>2, <2>3, <3>2 DEF ClientOK, RestOK
    <2> QED BY <2>1, <2>2, <2>3
  <1> QED BY <1>1, <1>2

\* The FIN of a client that closes first.
LEMMA FinAnswered ==
  ASSUME NEW k \in Client, NEW e, NEW o, NEW p, ClientOK(k, e, "FIN", o, NoFrame, p),
         e.state = "Established", NEW f, f.state = "CloseWait",
         f.SequenceNumberOut = e.SequenceNumberOut + 1,
         NEW b, b.flags = "FIN", b.seq = f.SequenceNumberOut
  PROVE  ClientOK(k, f, "none", o, b, p) /\ ~Waits(k)
         /\ e.SequenceNumberOut = 1 /\ e.SequenceNumberIn \in {1, 2}
  <1>1. ~Waits(k)
    BY DEF ClientOK, WaitOK, Asked, Served, Both, Only, Acks
  <1>2. k.state = "finWait"
    BY <1>1, StatesOf DEF ClientOK, RestOK, ClosedOK, SynSentOK, OpenOK, FinSeenOK, LastAckOK, HalfOK,
                    None, Only, Both, Closing, Acks
  <1>3. FinWaitOK(k, e, "FIN", o, NoFrame)
    BY <1>1, <1>2 DEF ClientOK, RestOK
  <1>4. FinWaitOK(k, f, "none", o, b) /\ e.SequenceNumberOut = 1 /\ e.SequenceNumberIn \in {1, 2}
    BY <1>3 DEF FinWaitOK, None, Only, Both, Numbered
  <1> QED BY <1>1, <1>2, <1>4 DEF ClientOK, RestOK

\* The FIN of a client that has seen the device's.
LEMMA FinLast ==
  ASSUME NEW k \in Client, NEW e, NEW o, NEW p, ClientOK(k, e, "FIN", o, NoFrame, p),
         Closing(e), NEW f, f.state = "Closed",
         f.SequenceNumberIn = e.SequenceNumberIn + 1,
         NEW b, Receipt(b), b.ack = f.SequenceNumberIn
  PROVE  ClientOK(k, f, "none", o, b, p) /\ ~Waits(k)
         /\ e.SequenceNumberIn = 2 /\ e.SequenceNumberOut <= LAST_BLOCK + 3
  <1>1. ~Waits(k)
    BY DEF ClientOK, WaitOK, Asked, Served, Both, Only, Acks
  <1>2. k.state = "lastAck"
    BY <1>1, StatesOf DEF ClientOK, RestOK, ClosedOK, SynSentOK, OpenOK, FinSeenOK, FinWaitOK, HalfOK,
                    None, Only, Both, Closing, Acks
  <1>3. LastAckOK(k, e, "FIN", o, NoFrame)
    BY <1>1, <1>2 DEF ClientOK, RestOK
  <1>4. LastAckOK(k, f, "none", o, b) /\ e.SequenceNumberIn = 2
        /\ e.SequenceNumberOut <= LAST_BLOCK + 3
    BY <1>3 DEF LastAckOK, None, Only, Both, Closing
  <1> QED BY <1>1, <1>2, <1>4 DEF ClientOK, RestOK

\* An acknowledgement while the device closes, or has closed.
LEMMA AckWhileClosing ==
  ASSUME NEW k \in Client, NEW e, NEW o, NEW p, ClientOK(k, e, "ACK", o, NoFrame, p),
         Closing(e), NEW f, f.state = "FINWait2", f.SequenceNumberIn = e.SequenceNumberIn,
         f.SequenceNumberOut = e.SequenceNumberOut
  PROVE  ClientOK(k, f, "none", o, NoFrame, p) /\ ~Waits(k)
  <1>1. ~Waits(k)
    BY DEF ClientOK, WaitOK, Asked, Served, ToSend, Both, Only, Acks, Closing, NoFrame, Bare
  <1>2. k.state \in {"closed", "finSeen", "lastAck"}
    BY <1>1, StatesOf DEF ClientOK, RestOK, SynSentOK, OpenOK, FinWaitOK, HalfOK,
                    None, Only, Both, Closing, Acks
  <1>3. Closing(f) /\ f.state # "FINWait1"
    BY DEF Closing
  <1>4. CASE k.state = "closed"
    <2>1. ClosedOK(k, e, "ACK", o, NoFrame)
      BY <1>1, <1>4 DEF ClientOK, RestOK
    <2>2. ClosedOK(k, f, "none", o, NoFrame)
      BY <1>3, <2>1 DEF ClosedOK, None
    <2> QED BY <1>1, <1>4, <2>2 DEF ClientOK, RestOK
  <1>5. CASE k.state = "finSeen"
    <2>1. FinSeenOK(k, e, "ACK", o, NoFrame)
      BY <1>1, <1>5 DEF ClientOK, RestOK
    <2>2. FinSeenOK(k, f, "none", o, NoFrame)
      BY <1>3, <2>1 DEF FinSeenOK, Acks
    <2> QED BY <1>1, <1>5, <2>2 DEF ClientOK, RestOK
  <1>6. CASE k.state = "lastAck"
    <2>1. LastAckOK(k, e, "ACK", o, NoFrame)
      BY <1>1, <1>6 DEF ClientOK, RestOK
    <2>2. LastAckOK(k, f, "none", o, NoFrame)
      BY <1>3, <2>1 DEF LastAckOK, None, Only, Both
    <2> QED BY <1>1, <1>6, <2>2 DEF ClientOK, RestOK
  <1> QED BY <1>1, <1>2, <1>4, <1>5, <1>6

LEMMA AckOfHalf ==
  ASSUME NEW k \in Client, NEW e, NEW o, NEW p, ClientOK(k, e, "ACK", o, NoFrame, p),
         e.state = "CloseWait", NEW f, f.state = "Closed"
  PROVE  ClientOK(k, f, "none", o, NoFrame, p) /\ ~Waits(k)
  <1>1. ~Waits(k)
    BY DEF ClientOK, WaitOK, Asked, Served, ToSend, Both, Only, Acks, Closing, NoFrame, Bare
  <1>2. k.state = "half"
    BY <1>1, StatesOf DEF ClientOK, RestOK, ClosedOK, SynSentOK, OpenOK, FinSeenOK, LastAckOK,
                    FinWaitOK, None, Only, Both, Closing, Acks
  <1>3. HalfOK(k, e, "ACK", o, NoFrame)
    BY <1>1, <1>2 DEF ClientOK, RestOK
  <1>4. HalfOK(k, f, "none", o, NoFrame)
    BY <1>3 DEF HalfOK, None, Only
  <1> QED BY <1>1, <1>2, <1>4 DEF ClientOK, RestOK

\* All of the answer is sent when its acknowledgement closes the connection.
LEMMA AckCloses ==
  ASSUME NEW k \in Client, NEW e, NEW i, NEW o, NEW p, ClientOK(k, e, i, o, NoFrame, p),
         i \in {"ACK", "PSH", "FIN"}, e.state = "Closing",
         e.Ready => k.request # ForPage, NEW f, f.state = "FINWait1",
         f.SequenceNumberIn = e.SequenceNumberIn, f.SequenceNumberOut = e.SequenceNumberOut,
         ~f.InUse, f.Ready = e.Ready, NEW b, b.flags = "FIN", b.seq = f.SequenceNumberOut
  PROVE  ClientOK(k, f, "none", o, b, p) /\ Waits(k) /\ ~e.Ready /\ i = "ACK"
  <1>1. Waits(k)
    BY StatesOf DEF ClientOK, RestOK, ClosedOK, SynSentOK, OpenOK, FinSeenOK, LastAckOK,
                    FinWaitOK, HalfOK, Closing
  <1>2. Served(k, e, i, o, NoFrame, p) /\ WaitOK(k, e, i, o, NoFrame, p)
    BY <1>1 DEF ClientOK, WaitOK, Asked
  <1>3. i = "ACK" /\ o \in {"none", "ACK"} /\ k.next > 1 /\ e.SequenceNumberIn = 2
    BY <1>2 DEF Served, Acks
  <1>4. e.SequenceNumberOut = k.next
    BY <1>2, <1>3 DEF Served, OnItsWay, Receipt, NoFrame, Bare
  <1>5. ~e.Ready
    <2>1. ASSUME e.Ready PROVE FALSE
      <3>1. e.SequenceNumberOut = Total(k.request)
        BY <1>2, <2>1 DEF Served, ToSend
      <3>2. k.request # ForPage
        BY <2>1
      <3>3. Total(k.request) = 1
        BY <3>2 DEF Total
      <3>4. k.next # 1
        BY <1>3, NumbersOf
      <3> QED BY <1>4, <3>1, <3>3, <3>4
    <2> QED BY <2>1
  <1>6. e.SequenceNumberOut = Total(k.request) + 1
    BY <1>2, <1>5 DEF Served, ToSend
  <1>7. OnItsWay(k, f, b) /\ ToSend(k, f, p)
    BY <1>4, <1>5, <1>6 DEF OnItsWay, ToSend
  <1>8. Served(k, f, "none", o, b, p)
    BY <1>3, <1>7 DEF Served, Acks
  <1> QED BY <1>1, <1>2, <1>3, <1>5, <1>8 DEF ClientOK, WaitOK

\* An acknowledgement on an established connection finds the entry sending.
LEMMA AckDeferred ==
  ASSUME NEW k \in Client, NEW e, NEW o, NEW p, ClientOK(k, e, "ACK", o, NoFrame, p),
         e.state = "Established"
  PROVE  Waits(k) /\ e.Direction = "OUT" /\ e.InUse /\ o # "PSH"
  <1>1. Waits(k)
    BY StatesOf DEF ClientOK, RestOK, ClosedOK, SynSentOK, OpenOK, FinSeenOK, LastAckOK,
                    FinWaitOK, HalfOK, Closing, None, Only, Both, Acks
  <1>2. Served(k, e, "ACK", o, NoFrame, p)
    BY <1>1 DEF ClientOK, WaitOK, Asked, Only
  <1>3. OnItsWay(k, e, NoFrame) /\ ToSend(k, e, p) /\ k.next > 1 /\ o # "PSH"
    BY <1>2 DEF Served, Acks
  <1>4. e.SequenceNumberOut = k.next
    BY <1>3 DEF OnItsWay, Receipt, NoFrame, Bare
  <1>5. e.SequenceNumberOut # 1
    BY <1>3, <1>4, NumbersOf
  <1> QED BY <1>1, <1>3, <1>5 DEF ToSend

\* A request is taken in.
LEMMA PshTaken ==
  ASSUME NEW k \in Client, NEW e, NEW o, NEW p, ClientOK(k, e, "PSH", o, NoFrame, p)
  PROVE  /\ e.state = "Established" /\ e.SequenceNumberOut = 1 /\ e.SequenceNumberIn = 1
         /\ k.request # Nothing /\ k.state \in {"open", "finWait"} /\ k.next = 1
         /\ Waits(k) => ~e.Ready /\ ~e.InUse
         /\ \A f, b : /\ f.state = "Established" /\ f.Direction = "IN" /\ f.Ready /\ ~f.InUse
                      /\ Numbered(f, 2, 1) /\ Receipt(b)
                      => ClientOK(k, f, "none", o, b, p)
  <1>1. CASE Waits(k)
    <2>1. Asked(k, e, "PSH", o, NoFrame) /\ WaitOK(k, e, "PSH", o, NoFrame, p)
      BY <1>1 DEF ClientOK, WaitOK, Served, Acks
    <2>2. /\ e.state = "Established" /\ Numbered(e, 1, 1) /\ o = "none" /\ k.next = 1 /\ ~k.ackDue
          /\ ~e.Ready /\ ~e.InUse
      BY <2>1 DEF Asked, Both, Only
    <2>3. k.request # Nothing /\ k.state = "open"
      BY <1>1, GetsApart DEF Waits
    <2>4. ASSUME NEW f, NEW b, f.state = "Established", f.Direction = "IN", f.Ready, ~f.InUse,
                 Numbered(f, 2, 1), Receipt(b)
          PROVE  ClientOK(k, f, "none", o, b, p)
      <3>1. OnItsWay(k, f, b) /\ ToSend(k, f, p)
        BY <2>2, <2>4 DEF OnItsWay, ToSend, Numbered
      <3>2. Served(k, f, "none", o, b, p)
        BY <2>2, <2>4, <3>1 DEF Served, Acks, Numbered, Receipt
      <3> QED BY <1>1, <2>1, <3>2 DEF ClientOK, WaitOK
    <2> QED BY <2>2, <2>3, <2>4 DEF Numbered
  <1>2. CASE ~Waits(k)
    <2>1. k.state \in {"open", "finWait"}
      BY <1>2, StatesOf DEF ClientOK, RestOK, ClosedOK, SynSentOK, FinSeenOK, LastAckOK, HalfOK,
                      None, Only, Both, Closing, Acks
    <2>2. CASE k.state = "open"
      <3>1. OpenOK(k, e, "PSH", o, NoFrame)
        BY <1>2, <2>2 DEF ClientOK, RestOK
      <3>2. e.state = "Established" /\ Numbered(e, 1, 1) /\ k.request # Nothing /\ k.next = 1
        BY <3>1, RequestsApart DEF OpenOK, None, Only, Both
      <3>3. \A f, b : f.state = "Established" /\ Numbered(f, 2, 1) /\ Receipt(b)
               => OpenOK(k, f, "none", o, b)
        BY <3>1 DEF OpenOK, None, Only, Both
      <3> QED BY <1>2, <2>2, <3>2, <3>3 DEF ClientOK, RestOK, Numbered
    <2>3. CASE k.state = "finWait"
      <3>1. FinWaitOK(k, e, "PSH", o, NoFrame)
        BY <1>2, <2>3 DEF ClientOK, RestOK
      <3>2. e.state = "Established" /\ Numbered(e, 1, 1) /\ k.request # Nothing /\ k.next = 1
        BY <3>1, RequestsApart DEF FinWaitOK, None, Only, Both
      <3>3. \A f, b : f.state = "Established" /\ Numbered(f, 2, 1) /\ Receipt(b)
               => FinWaitOK(k, f, "none", o, b)
        BY <3>1 DEF FinWaitOK, None, Only, Both, Numbered
      <3> QED BY <1>2, <2>3, <3>2, <3>3 DEF ClientOK, RestOK, Numbered
    <2> QED BY <2>1, <2>2, <2>3
  <1> QED BY <1>1, <1>2

\* Every other segment is an acknowledgement that changes nothing.
LEMMA NoOther ==
  ASSUME NEW k \in Client, NEW e, NEW i, NEW o, NEW p, ClientOK(k, e, i, o, NoFrame, p),
         i \in {"ACK", "PSH", "FIN"}, e.state # "Established", e.state # "Closing",
         e.state = "SYNReceived" => i # "ACK", e.state = "CloseWait" => i # "ACK",
         e.state \in {"FINWait1", "FINWait2"} => i # "FIN", e.state = "FINWait1" => i # "ACK"
  PROVE  i = "ACK" /\ e.state = "FINWait2"
  <1>1. i # "PSH"
    BY PshTaken
  <1>2. CASE Waits(k)
    BY <1>2 DEF ClientOK, WaitOK, Asked, Served, ToSend, OnItsWay, Acks, Only, Both, NoFrame, Bare, Receipt
  <1>3. CASE ~Waits(k)
    BY <1>1, <1>3, StatesOf DEF ClientOK, RestOK, ClosedOK, SynSentOK, OpenOK, FinSeenOK, LastAckOK,
                    FinWaitOK, HalfOK, Closing, None, Only, Both, Acks
  <1> QED BY <1>2, <1>3

-----------------------------------------------------------------------------
(* The application and the second half of TCP_TCPTask.                     *)

\* A client that does not wait has only the state and the numbers of its entry.
LEMMA RestAside ==
  ASSUME NEW k, NEW e, NEW f, NEW i, NEW o, NEW b, NEW p, NEW q, ClientOK(k, e, i, o, b, p), ~Waits(k),
         f.state = e.state, f.SequenceNumberIn = e.SequenceNumberIn,
         f.SequenceNumberOut = e.SequenceNumberOut
  PROVE  ClientOK(k, f, i, o, b, q)
  BY DEF ClientOK, RestOK, ClosedOK, SynSentOK, OpenOK, FinSeenOK, LastAckOK, FinWaitOK, HalfOK,
         Closing, Numbered

\* A request that waits in the buffer.
LEMMA RequestRead ==
  ASSUME NEW k \in Client, NEW e, NEW i, NEW o, NEW b, NEW p, ClientOK(k, e, i, o, b, p),
         e.Ready, e.Direction = "IN", e.state = "Established", k.request \in Gets,
         k.state \in {"open", "finWait"}
  PROVE  /\ Waits(k) /\ WaitOK(k, e, i, o, b, p) /\ Served(k, e, i, o, b, p)
         /\ e.SequenceNumberOut = 1 /\ ~e.InUse
  <1>1. k.request \notin {Nothing, ForOther}
    BY GetsApart
  <1>2. k.state # "finWait"
    BY <1>1 DEF ClientOK, Waits, RestOK, FinWaitOK
  <1>3. Waits(k)
    BY <1>2 DEF Waits
  <1>4. WaitOK(k, e, i, o, b, p)
    BY <1>3 DEF ClientOK
  <1>5. Served(k, e, i, o, b, p)
    BY <1>4 DEF WaitOK, Asked
  <1>6. ToSend(k, e, p)
    BY <1>5 DEF Served
  <1>7. e.SequenceNumberOut = 1 /\ ~e.InUse
    BY <1>6 DEF ToSend
  <1> QED BY <1>3, <1>4, <1>5, <1>7

LEMMA PageServed ==
  ASSUME NEW k \in Client, NEW e, NEW i, NEW o, NEW b, NEW p, ClientOK(k, e, i, o, b, p),
         e.Ready, e.Direction = "IN", e.state = "Established", k.request = ForPage,
         k.state \in {"open", "finWait"},
         NEW f, f.state = e.state, f.SequenceNumberIn = e.SequenceNumberIn,
         f.SequenceNumberOut = e.SequenceNumberOut, f.Direction = "OUT", f.Ready, f.InUse,
         f.Data = Header
  PROVE  Waits(k) /\ ClientOK(k, f, i, o, b, 0)
  <1>1. k.request \in Gets
    BY DEF Gets
  <1>2. Waits(k) /\ WaitOK(k, e, i, o, b, p) /\ Served(k, e, i, o, b, p) /\ e.SequenceNumberOut = 1
    BY <1>1, RequestRead
  <1>4. Piece(k.request, 1) = Header
    BY PiecesOf
  <1>5. 0 <= LAST_BLOCK
    BY EthAssumption
  <1>6. ToSend(k, f, 0)
    BY <1>2, <1>4, <1>5 DEF ToSend
  <1>7. OnItsWay(k, f, b)
    BY <1>2 DEF Served, OnItsWay
  <1>8. Served(k, f, i, o, b, 0)
    BY <1>2, <1>6, <1>7 DEF Served
  <1> QED BY <1>2, <1>8 DEF ClientOK, WaitOK

LEMMA RefusalServed ==
  ASSUME NEW k \in Client, NEW e, NEW i, NEW o, NEW b, NEW p, ClientOK(k, e, i, o, b, p),
         e.Ready, e.Direction = "IN", e.state = "Established", k.request = ForNone,
         k.state \in {"open", "finWait"},
         NEW f, f.state = "Closing", f.SequenceNumberIn = e.SequenceNumberIn,
         f.SequenceNumberOut = e.SequenceNumberOut, f.Direction = "OUT", f.Ready, f.InUse = e.InUse,
         f.Data = NotFound
  PROVE  Waits(k) /\ ~f.InUse /\ ClientOK(k, f, i, o, b, p)
  <1>1. k.request \in Gets
    BY DEF Gets
  <1>2. /\ Waits(k) /\ WaitOK(k, e, i, o, b, p) /\ Served(k, e, i, o, b, p)
        /\ e.SequenceNumberOut = 1 /\ ~e.InUse
    BY <1>1, RequestRead
  <1>4. Piece(k.request, 1) = NotFound /\ Total(k.request) = 1
    BY PiecesOf
  <1>6. ToSend(k, f, p)
    BY <1>2, <1>4 DEF ToSend
  <1>7. OnItsWay(k, f, b)
    BY <1>2 DEF Served, OnItsWay
  <1>8. Served(k, f, i, o, b, p)
    BY <1>2, <1>6, <1>7 DEF Served
  <1> QED BY <1>2, <1>8 DEF ClientOK, WaitOK

\* The next block, when the one before is sent.
\* The entry e has become f, with block p of the page in its buffer.
Filled(f, e, p) ==
  /\ f.SequenceNumberIn = e.SequenceNumberIn /\ f.SequenceNumberOut = e.SequenceNumberOut
  /\ f.Direction = "OUT" /\ f.Ready /\ f.Data = Block(p)
  /\ IF p = LAST_BLOCK THEN ~f.InUse /\ f.state = "Closing" ELSE f.InUse /\ f.state = e.state

\* The client k waits for block p, and the buffer of its entry e is free.
Awaits(k, e, i, o, b, p) ==
  /\ k \in Client /\ p \in 0..255 /\ ClientOK(k, e, i, o, b, p) /\ Waits(k)
  /\ ~e.Ready /\ e.InUse /\ e.Direction = "OUT" /\ e.state = "Established"

LEMMA BlockNext ==
  ASSUME NEW k, NEW e, NEW i, NEW o, NEW b, NEW p, Awaits(k, e, i, o, b, p), NEW f, Filled(f, e, p)
  PROVE  ClientOK(k, f, i, o, b, (p + 1) % 256)
  <1> USE DEF Filled, Awaits
  <1>1. WaitOK(k, e, i, o, b, p) /\ Served(k, e, i, o, b, p)
    BY DEF ClientOK, WaitOK, Asked
  <1>2. ToSend(k, e, p)
    BY <1>1 DEF Served
  <1>3. k.request = ForPage /\ p <= LAST_BLOCK /\ e.SequenceNumberOut = p + 2
    BY <1>2 DEF ToSend
  <1>5. LAST_BLOCK \in 0..255
    BY EthAssumption
  <1>6. Piece(k.request, p + 2) = Block(p)
    <2>1. p + 2 # 1 /\ (p + 2) - 2 = p
      OBVIOUS
    <2>2. Piece(ForPage, p + 2) = Block((p + 2) - 2)
      BY <2>1, PiecesOf
    <2> QED BY <1>3, <2>1, <2>2
  <1>7. Total(k.request) = LAST_BLOCK + 2
    BY <1>3, PiecesOf
  <1>8. ToSend(k, f, (p + 1) % 256)
    <2>1. CASE p = LAST_BLOCK
      BY <1>3, <1>6, <1>7, <2>1 DEF ToSend
    <2>2. CASE p # LAST_BLOCK
      <3>1. (p + 1) % 256 = p + 1 /\ p + 1 <= LAST_BLOCK
        <4>1. p <= LAST_BLOCK
          BY <1>3
        <4>2. p + 1 <= LAST_BLOCK /\ p + 1 \in 0..255
          BY ONLY Awaits(k, e, i, o, b, p), <1>5, <2>2, <4>1
        <4>3. \A n \in 0..255 : n % 256 = n
          OBVIOUS
        <4> QED BY ONLY <4>2, <4>3
      <3>2. p + 2 = (p + 1) + 1
        OBVIOUS
      <3> QED BY <1>3, <1>6, <2>2, <3>1, <3>2 DEF ToSend
    <2> QED BY <2>1, <2>2
  <1>9. OnItsWay(k, f, b)
    BY <1>1 DEF Served, OnItsWay
  <1>10. f.state # "FINWait1"
    OBVIOUS
  <1>11. Served(k, f, i, o, b, (p + 1) % 256)
    BY <1>1, <1>8, <1>9, <1>10 DEF Served
  <1> QED BY <1>1, <1>11 DEF ClientOK, WaitOK

\* A buffer goes to FrameOUT.
LEMMA PieceSent ==
  ASSUME NEW k \in Client, NEW e, NEW i, NEW o, NEW p \in 0..255, ClientOK(k, e, i, o, NoFrame, p),
         e.Ready, e.Direction = "OUT", Waits(k), e.state \in {"Established", "Closing"},
         NEW f, f.state = e.state, f.SequenceNumberIn = e.SequenceNumberIn,
         f.SequenceNumberOut = e.SequenceNumberOut + 1, f.Direction = "OUT", ~f.Ready,
         f.InUse = e.InUse,
         NEW b, b.flags = "ACK", b.data = e.Data, b.seq = e.SequenceNumberOut
  PROVE  ClientOK(k, f, i, o, b, p)
  <1>1. WaitOK(k, e, i, o, NoFrame, p) /\ Served(k, e, i, o, NoFrame, p)
    BY DEF ClientOK, WaitOK, Asked
  <1>2. ToSend(k, e, p) /\ OnItsWay(k, e, NoFrame)
    BY <1>1 DEF Served
  <1>3. e.SequenceNumberOut = k.next
    BY <1>2 DEF OnItsWay, Receipt, NoFrame, Bare
  <1>4. e.Data = Piece(k.request, e.SequenceNumberOut)
    BY <1>2 DEF ToSend
  <1>5. OnItsWay(k, f, b)
    BY <1>3, <1>4 DEF OnItsWay
  <1>6. ToSend(k, f, p)
    <2>1. CASE e.state = "Established"
      <3>1. e.InUse /\ k.request = ForPage /\ p <= LAST_BLOCK /\ e.SequenceNumberOut = p + 1
        BY <1>2, <2>1 DEF ToSend
      <3>2. f.SequenceNumberOut = p + 2
        BY <3>1
      <3> QED BY <2>1, <3>1, <3>2 DEF ToSend
    <2>2. CASE e.state = "Closing"
      <3>1. ~e.InUse /\ e.SequenceNumberOut = Total(k.request)
        BY <1>2, <2>2 DEF ToSend
      <3> QED BY <2>2, <3>1 DEF ToSend
    <2> QED BY <2>1, <2>2
  <1>7. f.state # "FINWait1" /\ b.flags # "FIN"
    OBVIOUS
  <1>8. Served(k, f, i, o, b, p)
    BY <1>1, <1>5, <1>6, <1>7 DEF Served
  <1> QED BY <1>1, <1>8 DEF ClientOK, WaitOK

\* The device reads what is in the endpoint.
LEMMA ReadShift ==
  ASSUME NEW k \in Client, NEW e, NEW o, NEW b, NEW p, ClientOK(k, e, "none", o, b, p)
  PROVE  ClientOK(k, e, o, "none", b, p)
  <1>1. CASE Waits(k)
    <2>1. WaitOK(k, e, "none", o, b, p)
      BY <1>1 DEF ClientOK
    <2>2. Asked(k, e, "none", o, b) => Asked(k, e, o, "none", b)
      BY DEF Asked, Both, Only
    <2>3. Served(k, e, "none", o, b, p) => Served(k, e, o, "none", b, p)
      BY DEF Served, Acks
    <2>4. WaitOK(k, e, o, "none", b, p)
      BY <2>1, <2>2, <2>3 DEF WaitOK
    <2> QED BY <1>1, <2>4 DEF ClientOK
  <1>2. CASE ~Waits(k)
    <2>1. RestOK(k, e, "none", o, b)
      BY <1>2 DEF ClientOK
    <2>2. ClosedOK(k, e, "none", o, b) => ClosedOK(k, e, o, "none", b)
      BY DEF ClosedOK, None
    <2>3. SynSentOK(k, e, "none", o, b) => SynSentOK(k, e, o, "none", b)
      BY DEF SynSentOK, None, Only, Both
    <2>4. OpenOK(k, e, "none", o, b) => OpenOK(k, e, o, "none", b)
      BY DEF OpenOK, None, Only, Both
    <2>5. FinSeenOK(k, e, "none", o, b) => FinSeenOK(k, e, o, "none", b)
      BY DEF FinSeenOK, Acks
    <2>6. LastAckOK(k, e, "none", o, b) => LastAckOK(k, e, o, "none", b)
      BY DEF LastAckOK, None, Only, Both
    <2>7. FinWaitOK(k, e, "none", o, b) => FinWaitOK(k, e, o, "none", b)
      BY DEF FinWaitOK, None, Only, Both
    <2>8. HalfOK(k, e, "none", o, b) => HalfOK(k, e, o, "none", b)
      BY DEF HalfOK, None, Only
    <2>9. RestOK(k, e, o, "none", b)
      BY <2>1, <2>2, <2>3, <2>4, <2>5, <2>6, <2>7, <2>8 DEF RestOK
    <2> QED BY <1>2, <2>9 DEF ClientOK
  <1> QED BY <1>1, <1>2

-----------------------------------------------------------------------------
(* The host.                                                               *)

LEMMA PiecesReal ==
  ASSUME NEW r \in Gets, NEW n
  PROVE  Piece(r, n) # Nothing
  <1>1. Header # Nothing /\ NotFound # Nothing
    BY DEF Header, NotFound, Nothing
  <1>2. \A m : Block(m) # Nothing
    BY DEF Block, Nothing
  <1> QED BY <1>1, <1>2 DEF Piece

\* An answer is its pieces.
LEMMA AnswerOf ==
  ASSUME NEW r \in Gets
  PROVE  /\ Answer(r) \in Seq(Payload) /\ Len(Answer(r)) = Total(r)
         /\ \A n \in 1..Total(r) : Answer(r)[n] = Piece(r, n)
  <1>1. LAST_BLOCK \in 0..255
    BY EthAssumption
  <1>2. CASE r = ForPage
    <2> DEFINE B == [n \in 1..(LAST_BLOCK + 1) |-> Block(n - 1)]
    <2>1. Answer(r) = <<Header>> \o B
      BY <1>2, RequestsApart DEF Answer, ForPage
    <2>2. \A n \in 1..(LAST_BLOCK + 1) : Block(n - 1) \in Payload
      BY <1>1 DEF Payload
    <2>3. B \in Seq(Payload) /\ Len(B) = LAST_BLOCK + 1
      BY <1>1, <2>2, IsASeq
    <2>4. Header \in Payload
      BY DEF Payload
    <2>5. <<Header>> \in Seq(Payload) /\ Len(<<Header>>) = 1 /\ <<Header>>[1] = Header
      BY <2>4
    <2>6. \A n \in 1..(LAST_BLOCK + 1) : B[n] = Block(n - 1)
      OBVIOUS
    <2> HIDE DEF B
    <2>7. /\ <<Header>> \o B \in Seq(Payload) /\ Len(<<Header>> \o B) = LAST_BLOCK + 2
          /\ \A n \in 1..(LAST_BLOCK + 2) :
               (<<Header>> \o B)[n] = IF n = 1 THEN Header ELSE B[n - 1]
      <3>1. <<Header>> \o B \in Seq(Payload) /\ Len(<<Header>> \o B) = 1 + (LAST_BLOCK + 1)
        BY <2>3, <2>5, ConcatProperties
      <3>2. ASSUME NEW n \in 1..(LAST_BLOCK + 2)
            PROVE  (<<Header>> \o B)[n] = IF n = 1 THEN Header ELSE B[n - 1]
        BY <1>1, <2>3, <2>5, ConcatProperties
      <3> QED BY <1>1, <3>1, <3>2
    <2>8. Total(r) = LAST_BLOCK + 2
      BY <1>2, PiecesOf
    <2>9. ASSUME NEW n \in 1..Total(r) PROVE Answer(r)[n] = Piece(r, n)
      <3>1. CASE n = 1
        BY <1>1, <1>2, <2>1, <2>7, <2>8, <3>1, PiecesOf
      <3>2. CASE n # 1
        <4>1. n - 1 \in 1..(LAST_BLOCK + 1) /\ (n - 1) - 1 = n - 2
          BY <1>1, <2>8, <3>2
        <4>2. Answer(r)[n] = Block(n - 2)
          BY <2>1, <2>6, <2>7, <2>8, <3>2, <4>1
        <4> QED BY <1>2, <3>2, <4>2, PiecesOf
      <3> QED BY <3>1, <3>2
    <2> QED BY <2>1, <2>7, <2>8, <2>9
  <1>3. CASE r = ForNone
    <2>1. ForNone # ForPage
      BY RequestsApart
    <2>2. Answer(r) = <<NotFound>>
      BY <1>3, <2>1 DEF Answer, ForPage, ForNone
    <2>3. NotFound \in Payload
      BY DEF Payload
    <2>4. Total(r) = 1 /\ Piece(r, 1) = NotFound
      BY <1>3, PiecesOf
    <2> QED BY <2>2, <2>3, <2>4
  <1> QED BY <1>2, <1>3 DEF Gets

LEMMA NoAnswer ==
  ASSUME NEW r \in Requests \cup {Nothing}
  PROVE  /\ Answer(r) = <<>> <=> r \notin Gets
         /\ Answer(r) \in Seq(Payload)
  <1>1. CASE r \in Gets
    <2>1. Len(Answer(r)) = Total(r) /\ Answer(r) \in Seq(Payload)
      BY <1>1, AnswerOf
    <2>2. LAST_BLOCK + 2 # 0
      BY EthAssumption
    <2>3. Total(r) # 0
      BY <2>2 DEF Total
    <2>4. Answer(r) # <<>>
      <3>1. Len(<<>>) = 0
        OBVIOUS
      <3> QED BY <2>1, <2>3, <3>1
    <2> QED BY <1>1, <2>1, <2>4
  <1>2. CASE r \notin Gets
    <2>1. r # ForPage /\ r # ForNone
      BY <1>2 DEF Gets
    <2>2. Answer(r) = <<>>
      BY <2>1 DEF Answer, ForPage, ForNone
    <2>3. <<>> \in Seq(Payload)
      OBVIOUS
    <2> QED BY <1>2, <2>2, <2>3
  <1> QED BY <1>1, <1>2

LEMMA AllReceived ==
  ASSUME NEW k \in Client, k.request \in Gets, k.next = Total(k.request) + 1, Len(k.got) + 1 = k.next,
         \A n \in 1..Len(k.got) : k.got[n] = Piece(k.request, n)
  PROVE  k.got = Answer(k.request)
  <1>1. k.got \in Seq(Payload)
    BY DEF Client
  <1>2. Len(k.got) \in Nat
    BY <1>1
  <1>3. LAST_BLOCK + 2 \in Nat
    BY EthAssumption
  <1>4. Total(k.request) \in Nat
    BY <1>3 DEF Total
  <1>5. Len(k.got) = Total(k.request)
    BY <1>2, <1>4
  <1>6. /\ Answer(k.request) \in Seq(Payload) /\ Len(Answer(k.request)) = Total(k.request)
        /\ \A n \in 1..Total(k.request) : Answer(k.request)[n] = Piece(k.request, n)
    BY AnswerOf
  <1>7. \A u, v \in Seq(Payload) :
          Len(u) = Len(v) /\ (\A n \in 1..Len(u) : u[n] = v[n]) => u = v
    BY SeqEqual
  <1> QED BY <1>1, <1>5, <1>6, <1>7

\* A client that takes a segment: it is connected, has the next piece, is done
\* with, has seen the device close, is left half closed.
Joined(k)    == [k EXCEPT !.state = "open", !.next = 1, !.ackDue = TRUE]
Fed(k, data) == [k EXCEPT !.got = Append(@, data), !.next = @ + 1, !.ackDue = TRUE]
Ended(k)     == [k EXCEPT !.state = "closed"]
Told(k)      == [k EXCEPT !.state = "finSeen", !.next = @ + 1, !.ackDue = TRUE]
Halved(k)    == [k EXCEPT !.state = "half", !.ackDue = TRUE]

LEMMA TakenFields ==
  ASSUME NEW k \in Client, NEW data \in Payload, 1 \in Numbers
  PROVE  /\ Joined(k) \in Client /\ Ended(k) \in Client /\ Halved(k) \in Client
         /\ k.next + 1 \in Numbers => Fed(k, data) \in Client /\ Told(k) \in Client
         /\ Joined(k).request = k.request /\ Ended(k).request = k.request
         /\ Halved(k).request = k.request /\ Fed(k, data).request = k.request
         /\ Told(k).request = k.request
         /\ Halved(k).state = "half"
  <1>1. Joined(k) \in Client /\ Joined(k).request = k.request
    BY DEF Client, Joined
  <1>2. Ended(k) \in Client /\ Ended(k).request = k.request
    BY DEF Client, Ended
  <1>3. Halved(k) \in Client /\ Halved(k).request = k.request /\ Halved(k).state = "half"
    BY DEF Client, Halved
  <1>4. Fed(k, data).request = k.request /\ Told(k).request = k.request
    BY DEF Client, Fed, Told
  <1>5. ASSUME k.next + 1 \in Numbers PROVE Told(k) \in Client
    BY <1>5 DEF Client, Told
  <1>6. ASSUME k.next + 1 \in Numbers PROVE Fed(k, data) \in Client
    <2>1. Append(k.got, data) \in Seq(Payload)
      BY DEF Client
    <2> QED BY <1>6, <2>1 DEF Client, Fed
  <1> QED BY <1>1, <1>2, <1>3, <1>4, <1>5, <1>6

LEMMA SynSeen ==
  ASSUME NEW k \in Client, NEW e, NEW i, NEW o, NEW s, NEW p, ClientOK(k, e, i, o, s, p),
         s.flags = "SYN"
  PROVE  ClientOK(After(k, s), e, i, o, NoFrame, p) /\ ~Waits(k) /\ ~Waits(After(k, s))
         /\ After(k, s) = Joined(k)
         /\ k.state = "synSent"
  <1>1. ~Waits(k)
    BY DEF ClientOK, WaitOK, Asked, Served, OnItsWay, Receipt, NoFrame, Bare
  <1>2. k.state = "synSent"
    BY <1>1, StatesOf DEF ClientOK, RestOK, ClosedOK, OpenOK, FinSeenOK, LastAckOK, FinWaitOK, HalfOK,
                          Receipt, NoFrame, Bare
  <1>3. SynSentOK(k, e, i, o, s)
    BY <1>1, <1>2 DEF ClientOK, RestOK
  <1>4. s.seq = 0 /\ s.seq + 1 = 1
    BY <1>3 DEF SynSentOK
  <1>5. After(k, s) = Joined(k)
    BY <1>2, <1>4 DEF After, Joined
  <1> DEFINE l == [k EXCEPT !.state = "open", !.next = 1, !.ackDue = TRUE]
  <1>6. /\ l.state = "open" /\ l.next = 1 /\ l.ackDue /\ l.request = k.request /\ l.got = k.got
        /\ l.sent = k.sent
    BY DEF Client
  <1> HIDE DEF l
  <1>7. OpenOK(l, e, i, o, NoFrame)
    BY <1>3, <1>6 DEF SynSentOK, OpenOK, NoFrame, Bare
  <1>8. ~Waits(l)
    BY <1>3, <1>6, GetsApart DEF SynSentOK, Waits
  <1>9. ClientOK(l, e, i, o, NoFrame, p)
    BY <1>6, <1>7, <1>8 DEF ClientOK, RestOK
  <1> QED BY <1>1, <1>2, <1>5, <1>8, <1>9 DEF l, Joined

LEMMA RstSeen ==
  ASSUME NEW k \in Client, NEW e, NEW i, NEW o, NEW s, NEW p, ClientOK(k, e, i, o, s, p),
         s.flags = "RST"
  PROVE  ClientOK(After(k, s), e, i, o, NoFrame, p) /\ After(k, s) = k
  <1>1. ~Waits(k)
    BY DEF ClientOK, WaitOK, Asked, Served, OnItsWay, Receipt, NoFrame, Bare
  <1>2. k.state \in {"closed", "synSent"}
    BY <1>1, StatesOf DEF ClientOK, RestOK, OpenOK, FinSeenOK, LastAckOK, FinWaitOK, HalfOK,
                          Receipt, NoFrame, Bare
  <1>3. After(k, s) = k
    BY DEF After
  <1>4. CASE k.state = "closed"
    <2>1. ClosedOK(k, e, i, o, s)
      BY <1>1, <1>4 DEF ClientOK, RestOK
    <2>2. ClosedOK(k, e, i, o, NoFrame)
      BY <2>1 DEF ClosedOK, NoFrame, Bare
    <2> QED BY <1>1, <1>3, <1>4, <2>2 DEF ClientOK, RestOK
  <1>5. CASE k.state = "synSent"
    <2>1. SynSentOK(k, e, i, o, s)
      BY <1>1, <1>5 DEF ClientOK, RestOK
    <2>2. SynSentOK(k, e, i, o, NoFrame)
      BY <2>1 DEF SynSentOK, NoFrame, Bare
    <2> QED BY <1>1, <1>3, <1>5, <2>2 DEF ClientOK, RestOK
  <1> QED BY <1>2, <1>4, <1>5

\* Only a client that waits is sent data, the piece it is to receive next.
LEMMA PieceSeen ==
  ASSUME NEW k \in Client, NEW e, NEW i, NEW o, NEW s, NEW p, ClientOK(k, e, i, o, s, p),
         s.flags = "ACK", s.data # Nothing, s.data \in Payload
  PROVE  ClientOK(After(k, s), e, i, o, NoFrame, p) /\ Waits(k) /\ Waits(After(k, s))
         /\ After(k, s) = Fed(k, s.data)
         /\ s.data = Piece(k.request, k.next) /\ k.next + 1 = e.SequenceNumberOut
  <1>1. Waits(k)
    BY StatesOf DEF ClientOK, RestOK, ClosedOK, SynSentOK, OpenOK, FinSeenOK, LastAckOK, FinWaitOK,
                    HalfOK, Receipt, NoFrame, Bare
  <1>2. WaitOK(k, e, i, o, s, p) /\ Served(k, e, i, o, s, p)
    BY <1>1 DEF ClientOK, WaitOK, Asked, NoFrame, Bare
  <1>3. OnItsWay(k, e, s) /\ ToSend(k, e, p) /\ e.state # "FINWait1"
    BY <1>2 DEF Served
  <1>4. s.data = Piece(k.request, k.next) /\ s.seq = k.next /\ e.SequenceNumberOut = k.next + 1
    BY <1>3 DEF OnItsWay, Receipt, NoFrame, Bare
  <1> DEFINE l == [k EXCEPT !.got = Append(@, s.data), !.next = @ + 1, !.ackDue = TRUE]
  <1>5. After(k, s) = l
    BY <1>1, <1>4 DEF After, Waits
  <1>6. /\ l.state = "open" /\ l.request = k.request /\ l.next = k.next + 1 /\ l.ackDue
        /\ l.got = Append(k.got, s.data) /\ l.sent = k.sent
    BY <1>1 DEF Waits, Client
  <1> HIDE DEF l
  <1>7. k.got \in Seq(Payload) /\ k.next \in Nat
    BY NumbersOf DEF Client
  <1>8. Len(l.got) = Len(k.got) + 1 /\ l.got[Len(k.got) + 1] = s.data
        /\ \A n \in 1..Len(k.got) : l.got[n] = k.got[n]
    BY <1>6, <1>7, AppendProperties
  <1>9. Waits(l)
    BY <1>1, <1>6 DEF Waits
  <1>10. Len(l.got) + 1 = l.next
    BY <1>2, <1>6, <1>8 DEF WaitOK
  <1>11. ASSUME NEW n \in 1..Len(l.got) PROVE l.got[n] = Piece(l.request, n)
    <2>1. Len(k.got) \in Nat
      BY <1>7
    <2>2. CASE n = Len(k.got) + 1
      BY <1>2, <1>4, <1>6, <1>8, <2>2 DEF WaitOK
    <2>3. CASE n # Len(k.got) + 1
      <3>1. n \in 1..Len(k.got)
        BY <1>8, <2>1, <2>3
      <3> QED BY <1>2, <1>6, <1>8, <3>1 DEF WaitOK
    <2> QED BY <2>2, <2>3
  <1>12. OnItsWay(l, e, NoFrame)
    BY <1>4, <1>6 DEF OnItsWay
  <1>13. ToSend(l, e, p)
    BY <1>3, <1>6 DEF ToSend
  <1>14. l.next > 1
    <2>1. k.next = Len(k.got) + 1 /\ Len(k.got) \in Nat
      BY <1>2, <1>7 DEF WaitOK
    <2> QED BY <1>6, <2>1
  <1>15. Served(l, e, i, o, NoFrame, p)
    BY <1>2, <1>3, <1>6, <1>12, <1>13, <1>14 DEF Served, NoFrame, Bare
  <1>16. WaitOK(l, e, i, o, NoFrame, p)
    BY <1>2, <1>6, <1>10, <1>11, <1>15 DEF WaitOK
  <1>17. ClientOK(l, e, i, o, NoFrame, p)
    BY <1>9, <1>16 DEF ClientOK
  <1> QED BY <1>1, <1>4, <1>5, <1>9, <1>17 DEF l, Fed

LEMMA ReceiptSeen ==
  ASSUME NEW k \in Client, NEW e, NEW i, NEW o, NEW s, NEW p, ClientOK(k, e, i, o, s, p), Receipt(s)
  PROVE  /\ ClientOK(After(k, s), e, i, o, NoFrame, p)
         /\ \/ After(k, s) = k
            \/ /\ ~Waits(k) /\ ~Waits(After(k, s)) /\ k.state = "lastAck"
               /\ After(k, s) = Ended(k) /\ k.got = Answer(k.request)
  <1>0. s.flags = "ACK" /\ s.data = Nothing
    BY DEF Receipt
  <1>1. CASE Waits(k)
    <2>1. WaitOK(k, e, i, o, s, p) /\ Served(k, e, i, o, s, p)
      BY <1>0, <1>1 DEF ClientOK, WaitOK, Asked, NoFrame, Bare
    <2>2. After(k, s) = k
      BY <1>0, <1>1 DEF After, Waits
    <2>3. s.data # Piece(k.request, k.next)
      BY <1>0, <1>1, PiecesReal DEF Waits
    <2>4. OnItsWay(k, e, NoFrame)
      BY <1>0, <2>1, <2>3 DEF Served, OnItsWay, NoFrame, Bare
    <2>5. e.state # "FINWait1" /\ NoFrame.flags # "FIN"
      BY <1>0, <2>1 DEF Served, NoFrame, Bare
    <2>6. Served(k, e, i, o, NoFrame, p)
      BY <2>1, <2>4, <2>5 DEF Served
    <2>7. ClientOK(k, e, i, o, NoFrame, p)
      BY <1>1, <2>1, <2>6 DEF ClientOK, WaitOK
    <2> QED BY <2>2, <2>7
  <1>2. CASE ~Waits(k)
    <2>1. k.state \in {"open", "lastAck", "finWait"}
      BY <1>0, <1>2, StatesOf DEF ClientOK, RestOK, ClosedOK, SynSentOK, FinSeenOK, HalfOK,
                            NoFrame, Bare
    <2>2. CASE k.state = "open"
      <3>1. After(k, s) = k
        BY <1>0, <2>2 DEF After
      <3>2. OpenOK(k, e, i, o, s)
        BY <1>2, <2>2 DEF ClientOK, RestOK
      <3>3. OpenOK(k, e, i, o, NoFrame)
        BY <3>2 DEF OpenOK
      <3>4. ClientOK(k, e, i, o, NoFrame, p)
        BY <1>2, <2>2, <3>3 DEF ClientOK, RestOK
      <3> QED BY <3>1, <3>4
    <2>3. CASE k.state = "finWait"
      <3>1. After(k, s) = k
        BY <1>0, <2>3 DEF After
      <3>2. FinWaitOK(k, e, i, o, s)
        BY <1>2, <2>3 DEF ClientOK, RestOK
      <3>3. FinWaitOK(k, e, i, o, NoFrame)
        BY <1>0, <3>2 DEF FinWaitOK
      <3>4. ClientOK(k, e, i, o, NoFrame, p)
        BY <1>2, <2>3, <3>3 DEF ClientOK, RestOK
      <3> QED BY <3>1, <3>4
    <2>4. CASE k.state = "lastAck"
      <3>1. LastAckOK(k, e, i, o, s)
        BY <1>2, <2>4 DEF ClientOK, RestOK
      <3>2. s.ack = 3 /\ k.sent = 3 /\ e.state = "Closed" /\ None(i, o) /\ ~k.ackDue
            /\ k.got = Answer(k.request)
        BY <1>0, <3>1 DEF LastAckOK, NoFrame, Bare
      <3> DEFINE l == [k EXCEPT !.state = "closed"]
      <3>3. After(k, s) = l
        BY <1>0, <2>4, <3>2 DEF After
      <3>4. l.state = "closed" /\ l.ackDue = k.ackDue /\ l.got = k.got /\ l.request = k.request
        BY DEF Client
      <3> HIDE DEF l
      <3>5. ClosedOK(l, e, i, o, NoFrame)
        BY <3>2, <3>4 DEF ClosedOK, NoFrame, Bare
      <3>6. ClientOK(l, e, i, o, NoFrame, p) /\ ~Waits(l)
        BY <3>4, <3>5 DEF ClientOK, RestOK, Waits
      <3>7. After(k, s) = Ended(k)
        BY <3>3 DEF l, Ended
      <3>8. ClientOK(After(k, s), e, i, o, NoFrame, p) /\ ~Waits(After(k, s))
        BY <3>3, <3>6
      <3> QED BY <1>2, <2>4, <3>2, <3>7, <3>8
    <2> QED BY <2>1, <2>2, <2>3, <2>4
  <1> QED BY <1>1, <1>2

\* The device's FIN: the end of the answer, or, numbered one too high, that of
\* a client that closes first.
LEMMA FinSeen ==
  ASSUME NEW k \in Client, NEW e, NEW i, NEW o, NEW s, NEW p, ClientOK(k, e, i, o, s, p),
         s.flags = "FIN"
  PROVE  /\ ClientOK(After(k, s), e, i, o, NoFrame, p) /\ ~Waits(After(k, s))
         /\ \/ Waits(k) /\ After(k, s) = Told(k)
               /\ k.got = Answer(k.request) /\ k.next = Total(k.request) + 1
               /\ e.state = "FINWait1"
            \/ ~Waits(k) /\ k.state = "finWait"
               /\ After(k, s) = Halved(k)
  <1>1. CASE Waits(k)
    <2>1. WaitOK(k, e, i, o, s, p) /\ Served(k, e, i, o, s, p)
      BY <1>1 DEF ClientOK, WaitOK, Asked, NoFrame, Bare
    <2>2. e.state = "FINWait1" /\ ToSend(k, e, p) /\ OnItsWay(k, e, s) /\ Acks(i, o)
          /\ e.SequenceNumberIn = 2 /\ k.sent = 2
      BY <2>1 DEF Served, WaitOK
    <2>3. s.seq = k.next
      BY <2>2 DEF OnItsWay, Receipt, NoFrame, Bare
    <2>4. k.next = Total(k.request) + 1
      BY <2>2 DEF ToSend
    <2>5. k.got = Answer(k.request) /\ k.request \in Gets
      BY <1>1, <2>1, <2>4, AllReceived DEF WaitOK, Waits
    <2> DEFINE l == [k EXCEPT !.state = "finSeen", !.next = @ + 1, !.ackDue = TRUE]
    <2>6. After(k, s) = l
      BY <1>1, <2>3 DEF After, Waits
    <2>7. /\ l.state = "finSeen" /\ l.ackDue /\ l.got = k.got /\ l.request = k.request
          /\ l.sent = k.sent
      BY DEF Client
    <2> HIDE DEF l
    <2>10. e.SequenceNumberOut <= LAST_BLOCK + 3
      <3>1. e.SequenceNumberOut = Total(k.request) + 1
        BY <2>2, <2>4 DEF OnItsWay, Receipt
      <3>2. LAST_BLOCK \in 0..255
        BY EthAssumption
      <3>3. Total(k.request) \in {1, LAST_BLOCK + 2}
        BY DEF Total
      <3> QED BY <3>1, <3>2, <3>3
    <2>8. FinSeenOK(l, e, i, o, NoFrame)
      BY <2>2, <2>5, <2>7, <2>10 DEF FinSeenOK, Closing
    <2>9. ClientOK(l, e, i, o, NoFrame, p) /\ ~Waits(l)
      BY <2>7, <2>8 DEF ClientOK, RestOK, Waits
    <2> QED BY <1>1, <2>2, <2>4, <2>5, <2>6, <2>9 DEF l, Told
  <1>2. CASE ~Waits(k)
    <2>1. k.state = "finWait"
      BY <1>2, StatesOf DEF ClientOK, RestOK, ClosedOK, SynSentOK, OpenOK, FinSeenOK, LastAckOK, HalfOK,
                            Receipt, NoFrame, Bare
    <2>2. FinWaitOK(k, e, i, o, s)
      BY <1>2, <2>1 DEF ClientOK, RestOK
    <2>3. e.state = "CloseWait" /\ None(i, o) /\ s.seq = 2 /\ k.next = 1 /\ k.got = <<>>
          /\ k.request \in {Nothing, ForOther}
      BY <2>2 DEF FinWaitOK, Receipt, NoFrame, Bare
    <2> DEFINE l == [k EXCEPT !.state = "half", !.ackDue = TRUE]
    <2>4. After(k, s) = l
      BY <2>1, <2>3 DEF After
    <2>5. l.state = "half" /\ l.ackDue /\ l.got = k.got /\ l.request = k.request
      BY DEF Client
    <2> HIDE DEF l
    <2>6. HalfOK(l, e, i, o, NoFrame)
      BY <2>3, <2>5 DEF HalfOK
    <2>7. ClientOK(l, e, i, o, NoFrame, p) /\ ~Waits(l)
      BY <2>5, <2>6 DEF ClientOK, RestOK, Waits
    <2> QED BY <1>2, <2>1, <2>4, <2>7 DEF l, Halved
  <1> QED BY <1>1, <1>2

\* What a client sends: it finds the endpoint empty.
LEMMA Opened ==
  ASSUME NEW k \in Client, NEW e, NEW i, NEW b, NEW p, ClientOK(k, e, i, "none", b, p),
         k.state = "closed",
         NEW l, l = [state |-> "synSent", request |-> Nothing, got |-> <<>>, sent |-> 1, next |-> 0,
                     ackDue |-> FALSE]
  PROVE  ClientOK(l, e, i, "SYN", b, p) /\ ~Waits(k) /\ ~Waits(l)
  <1>1. ~Waits(k) /\ ~Waits(l)
    BY DEF Waits
  <1>2. ClosedOK(k, e, i, "none", b)
    BY <1>1 DEF ClientOK, RestOK
  <1>3. SynSentOK(l, e, i, "SYN", b)
    BY <1>2 DEF ClosedOK, SynSentOK, None, Only, Both
  <1> QED BY <1>1, <1>3 DEF ClientOK, RestOK

LEMMA Acknowledged ==
  ASSUME NEW k \in Client, NEW e, NEW i, NEW b, NEW p, ClientOK(k, e, i, "none", b, p),
         k.ackDue, NEW l, l.state = k.state, l.request = k.request, l.got = k.got, l.sent = k.sent,
         l.next = k.next, ~l.ackDue
  PROVE  ClientOK(l, e, i, "ACK", b, p)
  <1>1. CASE Waits(k)
    <2>1. WaitOK(k, e, i, "none", b, p) /\ Served(k, e, i, "none", b, p)
      BY <1>1 DEF ClientOK, WaitOK, Asked
    <2>2. OnItsWay(l, e, b) /\ ToSend(l, e, p)
      BY <2>1 DEF Served, OnItsWay, ToSend
    <2>3. Served(l, e, i, "ACK", b, p)
      BY <2>1, <2>2 DEF Served, Acks
    <2>4. WaitOK(l, e, i, "ACK", b, p)
      BY <2>1, <2>3 DEF WaitOK
    <2>5. Waits(l)
      BY <1>1 DEF Waits
    <2> QED BY <2>4, <2>5 DEF ClientOK
  <1>2. CASE ~Waits(k)
    <2>1. ~Waits(l)
      BY <1>2 DEF Waits
    <2>2. k.state \in {"open", "finSeen", "half"}
      BY <1>2, StatesOf DEF ClientOK, RestOK, ClosedOK, SynSentOK, LastAckOK, FinWaitOK
    <2>3. CASE k.state = "open"
      <3>1. OpenOK(k, e, i, "none", b)
        BY <1>2, <2>3 DEF ClientOK, RestOK
      <3>2. OpenOK(l, e, i, "ACK", b)
        BY <3>1 DEF OpenOK, None, Only
      <3> QED BY <2>1, <2>3, <3>2 DEF ClientOK, RestOK
    <2>4. CASE k.state = "finSeen"
      <3>1. FinSeenOK(k, e, i, "none", b)
        BY <1>2, <2>4 DEF ClientOK, RestOK
      <3>2. FinSeenOK(l, e, i, "ACK", b)
        BY <3>1 DEF FinSeenOK, Acks
      <3> QED BY <2>1, <2>4, <3>2 DEF ClientOK, RestOK
    <2>5. CASE k.state = "half"
      <3>1. HalfOK(k, e, i, "none", b)
        BY <1>2, <2>5 DEF ClientOK, RestOK
      <3>2. HalfOK(l, e, i, "ACK", b)
        BY <3>1 DEF HalfOK, None, Only
      <3> QED BY <2>1, <2>5, <3>2 DEF ClientOK, RestOK
    <2> QED BY <2>2, <2>3, <2>4, <2>5
  <1> QED BY <1>1, <1>2

LEMMA Requested ==
  ASSUME NEW k \in Client, NEW e, NEW i, NEW b, NEW p, ClientOK(k, e, i, "none", b, p),
         k.state = "open", ~k.ackDue, k.request = Nothing, ~e.Ready, ~e.InUse,
         NEW r \in Requests, NEW l, l.state = k.state, l.request = r, l.got = k.got,
         l.sent = k.sent + 1, l.next = k.next, ~l.ackDue
  PROVE  ClientOK(l, e, i, "PSH", b, p) /\ ~Waits(k) /\ b = NoFrame
  <1>1. ~Waits(k)
    BY GetsApart DEF Waits
  <1>2. OpenOK(k, e, i, "none", b)
    BY <1>1 DEF ClientOK, RestOK
  <1>3. /\ k.got = <<>> /\ k.next = 1 /\ k.sent = 1 /\ b = NoFrame
        /\ \/ e.state = "SYNReceived" /\ Numbered(e, 1, 0) /\ i = "ACK"
           \/ e.state = "Established" /\ Numbered(e, 1, 1) /\ i = "none"
    BY <1>2, RequestsApart DEF OpenOK, None, Only
  <1>4. CASE r \in Gets
    <2>1. Waits(l)
      BY <1>4 DEF Waits
    <2>2. Asked(l, e, i, "PSH", b)
      BY <1>3 DEF Asked, Both, Only
    <2>3. Len(l.got) = 0
      BY <1>3
    <2>4. Len(l.got) + 1 = l.next /\ l.sent = 2 /\ \A n \in 1..Len(l.got) : l.got[n] = Piece(l.request, n)
      BY <1>3, <2>3
    <2> QED BY <1>1, <1>3, <2>1, <2>2, <2>4 DEF ClientOK, WaitOK
  <1>5. CASE r \notin Gets
    <2>1. r = ForOther
      BY <1>5, GetsApart
    <2>2. ~Waits(l)
      BY <1>5 DEF Waits
    <2>3. OpenOK(l, e, i, "PSH", b)
      BY <1>3, <2>1 DEF OpenOK, Both, Only
    <2> QED BY <1>1, <1>3, <2>2, <2>3 DEF ClientOK, RestOK
  <1> QED BY <1>4, <1>5

LEMMA ClosedFirst ==
  ASSUME NEW k \in Client, NEW e, NEW i, NEW b, NEW p, ClientOK(k, e, i, "none", b, p),
         k.state = "open", ~k.ackDue, ~Waits(k),
         NEW l, l.state = "finWait", l.request = k.request, l.got = k.got,
         l.sent = k.sent + 1, l.next = k.next, ~l.ackDue
  PROVE  ClientOK(l, e, i, "FIN", b, p) /\ ~Waits(l)
  <1>1. ~Waits(l)
    BY DEF Waits
  <1>2. OpenOK(k, e, i, "none", b)
    BY DEF ClientOK, RestOK
  <1>3. FinWaitOK(l, e, i, "FIN", b)
    BY <1>2 DEF OpenOK, FinWaitOK, None, Only, Both, Numbered
  <1> QED BY <1>1, <1>3 DEF ClientOK, RestOK

LEMMA ClosedLast ==
  ASSUME NEW k \in Client, NEW e, NEW i, NEW b, NEW p, ClientOK(k, e, i, "none", b, p),
         k.state = "finSeen",
         NEW l, l.state = "lastAck", l.request = k.request, l.got = k.got,
         l.sent = k.sent + 1, ~l.ackDue
  PROVE  ClientOK(l, e, i, "FIN", b, p) /\ ~Waits(k) /\ ~Waits(l)
  <1>1. ~Waits(k) /\ ~Waits(l)
    BY DEF Waits
  <1>2. FinSeenOK(k, e, i, "none", b)
    BY <1>1 DEF ClientOK, RestOK
  <1>3. LastAckOK(l, e, i, "FIN", b)
    BY <1>2 DEF FinSeenOK, LastAckOK, Acks, Only, Both
  <1> QED BY <1>1, <1>3 DEF ClientOK, RestOK

LEMMA GivenUp ==
  ASSUME NEW k \in Client, NEW e, NEW i, NEW b, NEW p, ClientOK(k, e, i, "none", b, p),
         k.state = "finSeen",
         NEW l, l.state = "closed", l.request = k.request, l.got = k.got, ~l.ackDue
  PROVE  ClientOK(l, e, i, "RST", b, p) /\ ~Waits(k) /\ ~Waits(l)
  <1>1. ~Waits(k) /\ ~Waits(l)
    BY DEF Waits
  <1>2. FinSeenOK(k, e, i, "none", b)
    BY <1>1 DEF ClientOK, RestOK
  <1>3. ClosedOK(l, e, i, "RST", b)
    BY <1>2 DEF FinSeenOK, ClosedOK, Acks, NoFrame, Bare
  <1> QED BY <1>1, <1>3 DEF ClientOK, RestOK

-----------------------------------------------------------------------------
(* The table of connections.                                               *)

\* TCP_SetConnectionState takes an entry that is there.
LEMMA FirstIn ==
  ASSUME NEW S, S \subseteq Nat, S # {}
  PROVE  First(S) \in S
  <1> DEFINE R == {ss \in Nat \X Nat : ss[1] < ss[2]}
  <1>1. IsWellFoundedOn(R, Nat)
    BY NatLessThanWellFounded DEF OpToRel
  <1>2. \A y, x \in Nat : y < x => <<y, x>> \in R
    OBVIOUS
  <1>3. \E x \in S : \A y \in S : ~(<<y, x>> \in R)
    <2> HIDE DEF R
    <2> QED BY <1>1, WFMin
  <1>4. \E x \in S : \A y \in S : x <= y
    <2> HIDE DEF R
    <2>1. PICK x \in S : \A y \in S : ~(<<y, x>> \in R)
      BY <1>3
    <2>2. ASSUME NEW y \in S PROVE x <= y
      <3>1. ~(y < x) /\ x \in Nat /\ y \in Nat
        BY <1>2, <2>1
      <3> QED BY <3>1
    <2> QED BY <2>2
  <1> QED BY <1>4 DEF First, Sets!Min

LEMMA MineOf ==
  ASSUME NEW t, DOMAIN t \subseteq Nat, OneEach(t), NEW i, i \in DOMAIN t, t[i].client # NoClient
  PROVE  Owned(t, t[i].client) = {i} /\ Mine(t, t[i].client) = t[i]
  <1>1. Owned(t, t[i].client) = {i}
    BY DEF Owned, OneEach
  <1>2. First({i}) = i
    BY FirstIn
  <1> QED BY <1>1, <1>2 DEF Mine

LEMMA MineNone ==
  ASSUME NEW t, NEW c, Owned(t, c) = {}
  PROVE  Mine(t, c) = Unused /\ Mine(t, c).state = "Closed"
  BY DEF Mine, Unused

Changed(t, u, i) ==
  /\ DOMAIN t \subseteq Nat /\ i \in DOMAIN t /\ OneEach(t) /\ Spare(t)
  /\ DOMAIN u = DOMAIN t /\ \A j \in DOMAIN t : j # i => u[j] = t[j]

\* Entry i changes hands from nobody, or stays with its client.
LEMMA EntryTaken ==
  ASSUME NEW t, NEW u, NEW i, Changed(t, u, i), NEW e, u[i] = e, e.client # NoClient,
         t[i].client = e.client \/ (Owned(t, e.client) = {} /\ t[i].state = "Closed")
  PROVE  /\ OneEach(u) /\ Spare(u) /\ Mine(u, e.client) = e
         /\ \A d : d # NoClient /\ d # e.client =>
              Mine(u, d) = Mine(t, d) \/ (Mine(u, d).state = "Closed" /\ Mine(t, d).state = "Closed")
  <1>1. /\ DOMAIN t \subseteq Nat /\ i \in DOMAIN t /\ OneEach(t) /\ Spare(t)
        /\ DOMAIN u = DOMAIN t /\ u[i] = e /\ \A j \in DOMAIN t : j # i => u[j] = t[j]
    BY DEF Changed
  <1>2. \A j \in DOMAIN t : t[j].client = e.client => j = i
    BY <1>1 DEF OneEach, Owned
  <1>3. OneEach(u)
    BY <1>1, <1>2 DEF OneEach
  <1>4. Spare(u)
    BY <1>1 DEF Spare
  <1>5. Mine(u, e.client) = e
    BY <1>1, <1>3, MineOf
  <1>6. ASSUME NEW d, d # NoClient, d # e.client
        PROVE  Mine(u, d) = Mine(t, d) \/ (Mine(u, d).state = "Closed" /\ Mine(t, d).state = "Closed")
    <2>1. CASE t[i].client = d
      <3>1. t[i].state = "Closed" /\ Mine(t, d) = t[i]
        BY <1>1, <1>6, <2>1, MineOf
      <3>2. Owned(u, d) = {}
        BY <1>1, <1>2, <1>6, <2>1 DEF Owned, OneEach
      <3> QED BY <3>1, <3>2, MineNone
    <2>2. CASE t[i].client # d
      <3>1. Owned(u, d) = Owned(t, d) /\ i \notin Owned(t, d) /\ Owned(t, d) \subseteq DOMAIN t
        BY <1>1, <1>6, <2>2 DEF Owned
      <3>2. CASE Owned(t, d) = {}
        <4>1. Mine(u, d) = Mine(t, d)
          BY <3>1, <3>2 DEF Mine
        <4> QED BY <4>1
      <3>3. CASE Owned(t, d) # {}
        <4>1. First(Owned(t, d)) \in Owned(t, d)
          BY <1>1, <3>1, <3>3, FirstIn
        <4>2. u[First(Owned(t, d))] = t[First(Owned(t, d))]
          BY <1>1, <3>1, <4>1
        <4>3. Mine(u, d) = Mine(t, d)
          BY <3>1, <4>2 DEF Mine
        <4> QED BY <4>3
      <3> QED BY <3>2, <3>3
    <2> QED BY <2>1, <2>2
  <1> QED BY <1>3, <1>4, <1>5, <1>6

\* Entry i stays with whoever has it.
LEMMA EntryKept ==
  ASSUME NEW t, NEW u, NEW i, Changed(t, u, i), NEW e, u[i] = e, e.client = t[i].client,
         e.client = NoClient => e.state = "Closed"
  PROVE  /\ OneEach(u) /\ Spare(u)
         /\ \A d : d # NoClient => Mine(u, d) = IF e.client = d THEN e ELSE Mine(t, d)
  <1>1. /\ DOMAIN t \subseteq Nat /\ i \in DOMAIN t /\ OneEach(t) /\ Spare(t)
        /\ DOMAIN u = DOMAIN t /\ u[i] = e /\ \A j \in DOMAIN t : j # i => u[j] = t[j]
    BY DEF Changed
  <1>2. \A j \in DOMAIN t : u[j].client = t[j].client
    BY <1>1
  <1>3. OneEach(u)
    BY <1>1, <1>2 DEF OneEach
  <1>4. Spare(u)
    BY <1>1 DEF Spare
  <1>5. ASSUME NEW d, d # NoClient PROVE Mine(u, d) = IF e.client = d THEN e ELSE Mine(t, d)
    <2>1. CASE e.client = d
      BY <1>1, <1>3, <1>5, <2>1, MineOf
    <2>2. CASE e.client # d
      <3>1. Owned(u, d) = Owned(t, d) /\ i \notin Owned(t, d) /\ Owned(t, d) \subseteq DOMAIN t
        BY <1>1, <1>2, <2>2 DEF Owned
      <3>2. CASE Owned(t, d) = {}
        BY <2>2, <3>1, <3>2 DEF Mine
      <3>3. CASE Owned(t, d) # {}
        <4>1. First(Owned(t, d)) \in Owned(t, d)
          BY <1>1, <3>1, <3>3, FirstIn
        <4>2. u[First(Owned(t, d))] = t[First(Owned(t, d))]
          BY <1>1, <3>1, <4>1
        <4> QED BY <2>2, <3>1, <4>2 DEF Mine
      <3> QED BY <3>2, <3>3
    <2> QED BY <2>1, <2>2
  <1> QED BY <1>3, <1>4, <1>5

-----------------------------------------------------------------------------
(* What the invariant says of a state.                                     *)

LEMMA Typed ==
  ASSUME EthTypeOK
  PROVE  /\ MAX_TCP_CONNECTIONS \in Nat /\ MAX_TCP_CONNECTIONS >= 1
         /\ at \in 0..(MAX_TCP_CONNECTIONS + 3)
         /\ Entries \subseteq Nat /\ DOMAIN connections = Entries
         /\ \A i \in Entries : connections[i] \in ConnectionState
         /\ \A c \in Clients : clients[c] \in Client /\ c # NoClient
         /\ \A c : EntriesOf(c) = Owned(connections, c) /\ State(c) = Mine(connections, c).state
  <1>1. MAX_TCP_CONNECTIONS \in Nat /\ MAX_TCP_CONNECTIONS >= 1
    BY EthAssumption DEF EthTypeOK
  <1>2. at \in 0..(MAX_TCP_CONNECTIONS + 3)
    BY DEF EthTypeOK, Processing, Writing
  <1>3. Entries \subseteq Nat
    BY <1>1 DEF Entries
  <1>4. DOMAIN connections = Entries /\ \A i \in Entries : connections[i] \in ConnectionState
    BY DEF EthTypeOK
  <1>5. \A c \in Clients : clients[c] \in Client /\ c # NoClient
    BY EthAssumption DEF EthTypeOK
  <1>6. ASSUME NEW c PROVE EntriesOf(c) = Owned(connections, c) /\ State(c) = Mine(connections, c).state
    <2>1. EntriesOf(c) = Owned(connections, c)
      BY <1>4 DEF EntriesOf, Owned
    <2>2. CASE EntriesOf(c) = {}
      BY <2>1, <2>2, MineNone DEF State
    <2>3. CASE EntriesOf(c) # {}
      BY <2>1, <2>3 DEF State, Mine
    <2> QED BY <2>1, <2>2, <2>3
  <1> QED BY <1>1, <1>2, <1>3, <1>4, <1>5, <1>6

\* The entry of a client that has one.
LEMMA Held ==
  ASSUME EthTypeOK, TableOK, NEW i \in Entries, connections[i].client \in Clients
  PROVE  /\ Mine(connections, connections[i].client) = connections[i]
         /\ EntriesOf(connections[i].client) = {i}
         /\ clients[connections[i].client] \in Client
  <1>1. DOMAIN connections \subseteq Nat /\ DOMAIN connections = Entries
        /\ connections[i].client # NoClient /\ OneEach(connections)
    BY Typed DEF TableOK
  <1> QED BY <1>1, MineOf, Typed

LEMMA FramesApart ==
  ASSUME NEW c \in Clients
  PROVE  /\ From(NoFrame, c) = "none" /\ From(Ping, c) = "none"
         /\ NoFrame.client # c /\ Ping.client # c /\ Pong.client # c
         /\ NoFrame.flags = "none" /\ Ping.flags = "ping" /\ Pong.flags = "pong"
         /\ \A b : Back(NoFrame, b, c) = IF b.client = c THEN b ELSE NoFrame
         /\ \A b : Back(b, NoFrame, c) = IF b.client = c THEN b ELSE NoFrame
  BY EthAssumption DEF From, Back, NoFrame, Ping, Pong, Bare

\* A segment arrives.
LEMMA Arrival ==
  ASSUME EthInv, Traffic = "plain", TCPFrame
  PROVE  /\ at = Processing /\ FrameOUT = NoFrame /\ inBank = NoFrame /\ FrameIN \in ToDevice
         /\ FrameIN.client \in Clients /\ clients[FrameIN.client] \in Client
         /\ ClientOK(clients[FrameIN.client], Mine(connections, FrameIN.client), FrameIN.flags,
                     From(outBank, FrameIN.client), NoFrame, PageBlock)
         /\ \A d \in Clients : d # FrameIN.client =>
              ClientOK(clients[d], Mine(connections, d), "none", From(outBank, d), NoFrame, PageBlock)
  <1>1. at = Processing /\ FrameIN # NoFrame /\ FrameIN # Ping /\ inBank = NoFrame
    BY DEF TCPFrame, Arrived, Prompt
  <1>2. FrameOUT = NoFrame
    BY <1>1 DEF EthInv, FrameInTurn
  <1>3. FrameIN \in ToDevice
    BY <1>1 DEF EthInv, EthTypeOK
  <1>4. FrameIN.client \in Clients
    BY <1>3 DEF ToDevice
  <1>5. \A c \in Clients : ClientOK(clients[c], Mine(connections, c), From(FrameIN, c),
                                    From(outBank, c), NoFrame, PageBlock)
    <2>1. \A c \in Clients : Back(FrameOUT, inBank, c) = NoFrame
      BY <1>1, <1>2, FramesApart
    <2> QED BY <2>1 DEF EthInv, ClientsAgree, ViewOK
  <1>6. From(FrameIN, FrameIN.client) = FrameIN.flags
        /\ \A d \in Clients : d # FrameIN.client => From(FrameIN, d) = "none"
    BY DEF From
  <1>7. clients[FrameIN.client] \in Client
    BY <1>4, Typed DEF EthInv
  <1> QED BY <1>1, <1>2, <1>3, <1>4, <1>5, <1>6, <1>7

-----------------------------------------------------------------------------
(* TCP_ProcessTCPPacket.                                                   *)

\* The entry that is written has no buffer that is ready, unless it is one.
Idling(e, k) ==
  /\ e.Ready => /\ e.Direction = "IN" /\ e.state = "Established"
                /\ e.Data = k.request /\ k.request # Nothing /\ k.state \in {"open", "finWait"}
  /\ e.InUse => Waits(k) /\ e.state = "Established" /\ e.Direction = "OUT"

\* What is to be shown of an entry e that is written to the table, and of the
\* reply.
HandledOK(i, e, response, reply) ==
  LET c == FrameIN.client IN
  /\ i \in Entries /\ e \in ConnectionState /\ e.client = c
  /\ response \in {"none", "SYN", "ACK", "FIN", "RST"} /\ Processed(i, e, response)
  /\ reply = IF response = "none" THEN NoFrame ELSE Segment(e, response, Nothing)
  /\ \/ connections[i].client = c
     \/ Owned(connections, c) = {} /\ connections[i].state = "Closed"
  /\ ClientOK(clients[c], e, "none", From(outBank, c), reply, PageBlock)
  /\ Idling(e, clients[c])
  /\ response # "none" => \A d \in Clients : Waits(clients[d]) =>
       \/ Asks(outBank, d)
       \/ d = c /\ (e.SequenceNumberOut = 1 \/ e.state = "FINWait1")

LEMMA Handled ==
  ASSUME EthInv, Traffic = "plain", TCPFrame, MAX_TCP_CONNECTIONS' = MAX_TCP_CONNECTIONS,
         NEW i, NEW e, NEW response, NEW reply, HandledOK(i, e, response, reply)
  PROVE  EthInv'
  <1>0. /\ i \in Entries /\ e \in ConnectionState /\ e.client = FrameIN.client
        /\ response \in {"none", "SYN", "ACK", "FIN", "RST"} /\ Processed(i, e, response)
        /\ reply = IF response = "none" THEN NoFrame ELSE Segment(e, response, Nothing)
        /\ \/ connections[i].client = e.client
           \/ Owned(connections, e.client) = {} /\ connections[i].state = "Closed"
        /\ ClientOK(clients[e.client], e, "none", From(outBank, e.client), reply, PageBlock)
        /\ Idling(e, clients[e.client])
        /\ response # "none" => \A d \in Clients : Waits(clients[d]) =>
             \/ Asks(outBank, d)
             \/ d = e.client /\ (e.SequenceNumberOut = 1 \/ e.state = "FINWait1")
    BY DEF HandledOK
  <1>1. /\ at = 0 /\ FrameOUT = NoFrame /\ inBank = NoFrame /\ FrameIN \in ToDevice
        /\ e.client \in Clients /\ e.client # NoClient
        /\ \A d \in Clients : d # e.client =>
              ClientOK(clients[d], Mine(connections, d), "none", From(outBank, d), NoFrame, PageBlock)
    BY <1>0, Arrival, EthAssumption DEF Processing
  <1>2. /\ connections' = [connections EXCEPT ![i] = e] /\ FrameOUT' = reply
        /\ FrameIN' = NoFrame /\ at' = 1 /\ message' = message /\ PageBlock' = PageBlock
        /\ outBank' = outBank /\ inBank' = NoFrame /\ clients' = clients /\ sessions' = sessions
    BY <1>0, <1>1 DEF Processed, BusFrame
  <1>3. /\ EthTypeOK /\ TableOK /\ MAX_TCP_CONNECTIONS \in Nat /\ MAX_TCP_CONNECTIONS >= 1
        /\ Entries' = Entries
    BY Typed DEF EthInv, Entries
  <1>4. reply \in ToHost \cup {NoFrame, Pong} /\ (reply = NoFrame \/ reply.client = e.client)
    <2>1. Nothing \in Payload
      BY DEF Payload
    <2>2. e.SequenceNumberIn \in Numbers /\ e.SequenceNumberOut \in Numbers
      BY <1>0 DEF ConnectionState
    <2>3. response # "none" => Segment(e, response, Nothing) \in ToHost
      BY <1>0, <1>1, <2>1, <2>2 DEF Segment, ToHost
    <2>4. Segment(e, response, Nothing).client = e.client
      BY DEF Segment
    <2> QED BY <1>0, <2>3, <2>4
  <1>5. EthTypeOK'
    <2>1. connections' \in [Entries -> ConnectionState]
      BY <1>0, <1>2, <1>3 DEF EthTypeOK
    <2>2. at' \in Processing..Writing'
      BY <1>2, <1>3 DEF Processing, Writing
    <2>3. {FrameIN', outBank'} \subseteq ToDevice \cup {NoFrame, Ping}
      BY <1>2, <1>3 DEF EthTypeOK
    <2>4. {FrameOUT', inBank'} \subseteq ToHost \cup {NoFrame, Pong}
      BY <1>2, <1>4
    <2> QED BY <1>2, <1>3, <2>1, <2>2, <2>3, <2>4 DEF EthTypeOK, Processing
  <1>6. /\ OneEach(connections') /\ Spare(connections') /\ Mine(connections', e.client) = e
        /\ \A d \in Clients : d # e.client =>
             \/ Mine(connections', d) = Mine(connections, d)
             \/ Mine(connections', d).state = "Closed" /\ Mine(connections, d).state = "Closed"
    <2>1. DOMAIN connections \subseteq Nat /\ i \in DOMAIN connections
      BY <1>0, <1>3, Typed
    <2>2. OneEach(connections) /\ Spare(connections)
      BY <1>3 DEF TableOK
    <2>3. \A d \in Clients : d # NoClient
      BY EthAssumption
    <2>4. /\ OneEach(connections') /\ Spare(connections') /\ Mine(connections', e.client) = e
          /\ \A d : d # NoClient /\ d # e.client =>
               \/ Mine(connections', d) = Mine(connections, d)
               \/ Mine(connections', d).state = "Closed" /\ Mine(connections, d).state = "Closed"
      <3>1. e.client # NoClient /\ connections' = [connections EXCEPT ![i] = e]
        BY <1>1, <1>2
      <3>2. \/ connections[i].client = e.client
            \/ Owned(connections, e.client) = {} /\ connections[i].state = "Closed"
        BY <1>0
      <3>3. Changed(connections, connections', i) /\ connections'[i] = e
        BY <2>1, <2>2, <3>1 DEF Changed
      <3>6. e.client # NoClient
        BY <1>1
      <3>4. OneEach(connections') /\ Spare(connections') /\ Mine(connections', e.client) = e
        BY <3>2, <3>3, <3>6, EntryTaken
      <3>5. ASSUME NEW d, d # NoClient, d # e.client
            PROVE  \/ Mine(connections', d) = Mine(connections, d)
                   \/ Mine(connections', d).state = "Closed" /\ Mine(connections, d).state = "Closed"
        BY <3>2, <3>3, <3>5, <3>6, EntryTaken
      <3> QED BY <3>4, <3>5
    <2> QED BY <2>3, <2>4
  <1>7. ClientsAgree'
    <2>4. \A d \in Clients : From(FrameIN', d) = "none" 
      BY <1>2, FramesApart
    <2>5. \A d \in Clients : Back(FrameOUT', inBank', d) = IF reply.client = d THEN reply ELSE NoFrame
      BY <1>2, FramesApart
    <2>6. \A d \in Clients : NoFrame.client # d
      BY FramesApart
    <2>1. \A d \in Clients : From(FrameIN', d) = "none" 
            /\ Back(FrameOUT', inBank', d) = IF d = e.client THEN reply ELSE NoFrame
      BY <1>1, <1>4, <2>4, <2>5, <2>6
    <2>2. ClientOK(clients[e.client], e, "none", From(outBank, e.client), reply, PageBlock)
      BY <1>0
    <2>3. ASSUME NEW d \in Clients PROVE
            ClientOK(clients'[d], Mine(connections', d), From(FrameIN', d), From(outBank', d),
                     Back(FrameOUT', inBank', d), PageBlock')
      <3>1. CASE d = e.client
        BY <1>2, <1>6, <2>1, <2>2, <3>1
      <3>2. CASE d # e.client
        <4>1. ClientOK(clients[d], Mine(connections, d), "none", From(outBank, d), NoFrame, PageBlock)
          BY <1>1, <3>2
        <4>2. ClientOK(clients[d], Mine(connections', d), "none", From(outBank, d), NoFrame, PageBlock)
          BY <1>6, <3>2, <4>1, ClosedAlike
        <4> QED BY <1>2, <2>1, <3>2, <4>2
      <3> QED BY <3>1, <3>2
    <2> QED BY <2>3 DEF ClientsAgree, ViewOK
  <1>8. TableOK'
    BY <1>6 DEF TableOK
  <1>9. BusInTurn' /\ FrameInTurn'
    BY <1>2 DEF BusInTurn, FrameInTurn
  <1>10. FramesTrue'
    BY <1>2, FramesApart DEF EthInv, FramesTrue
  <1>11. OneWaits'
    BY <1>2 DEF EthInv, OneWaits
  <1>12. OthersAside'
    <2>1. ASSUME NEW d \in Clients, Waits(clients[d]), ~Asks(outBank, d)
          PROVE  /\ outBank.flags \in {"none", "ACK"} /\ ~message
                 /\ \/ FrameOUT' = NoFrame
                    \/ d = e.client /\ (e.SequenceNumberOut = 1 \/ e.state = "FINWait1")
      <3>1. Unhindered(d)
        BY <2>1 DEF EthInv, OthersAside
      <3>2. response = "none" => FrameOUT' = NoFrame
        BY <1>0, <1>2
      <3> QED BY <1>0, <2>1, <3>1, <3>2 DEF Unhindered
    <2>2. ASSUME NEW d \in Clients, Waits(clients'[d]) PROVE Unhindered(d)'
      <3>1. CASE Asks(outBank, d)
        BY <1>2, <3>1 DEF Unhindered
      <3>2. CASE ~Asks(outBank, d)
        <4>1. /\ outBank.flags \in {"none", "ACK"} /\ ~message
              /\ \/ FrameOUT' = NoFrame
                 \/ d = e.client /\ (e.SequenceNumberOut = 1 \/ e.state = "FINWait1")
          BY <1>2, <2>1, <2>2, <3>2
        <4>2. at' # Processing' /\ FrameIN'.flags = "none" /\ ~message'
              /\ outBank'.flags \in {"none", "ACK"}
          BY <1>2, <4>1 DEF Processing, NoFrame, Bare
        <4>3. \/ FrameOUT' = NoFrame
              \/ ~(Mine(connections', d).SequenceNumberOut > 1)
              \/ Mine(connections', d).state = "FINWait1"
          BY <1>6, <4>1
        <4> QED BY <4>2, <4>3 DEF Unhindered
      <3> QED BY <3>1, <3>2
    <2> QED BY <2>2 DEF OthersAside
  <1>13. BuffersOK'
    <2>1. ASSUME NEW j \in Entries PROVE BufferOK(connections[j], j)'
      <3>1. CASE j = i
        <4>1. connections'[j] = e
          BY <1>0, <1>2, <1>3, <3>1 DEF EthTypeOK
        <4>2. at' \in 1..j /\ j \in Nat
          BY <1>2 DEF Entries
        <4>3. Idling(connections'[j], clients'[connections'[j].client])
              /\ connections'[j].client \in Clients
          BY <1>0, <1>1, <1>2, <4>1
        <4> QED BY <4>2, <4>3 DEF BufferOK, Taking, Idling
      <3>2. CASE j # i
        <4>1. connections'[j] = connections[j]
          BY <1>2, <1>3, <3>2 DEF EthTypeOK
        <4>2. BufferOK(connections[j], j)
          BY DEF EthInv, BuffersOK
        <4>3. at \notin 1..j /\ at \notin (j + 1)..Sending
          BY <1>1 DEF Entries
        <4> QED BY <1>2, <4>1, <4>2, <4>3 DEF BufferOK, Taking, Giving
      <3> QED BY <3>1, <3>2
    <2> QED BY <1>3, <2>1 DEF BuffersOK
  <1> QED BY <1>5, <1>7, <1>8, <1>9, <1>10, <1>11, <1>12, <1>13 DEF EthInv

\* The buffer of an entry before the applications are called.
LEMMA AtRest ==
  ASSUME EthInv, at = 0, NEW i \in Entries
  PROVE  /\ connections[i].Ready =>
              /\ connections[i].client \in Clients /\ Waits(clients[connections[i].client])
              /\ connections[i].Direction = "OUT" /\ connections[i].state \in {"Established", "Closing"}
              /\ connections[i].state = "Closing" => clients[connections[i].client].request # ForPage
         /\ connections[i].InUse =>
              /\ connections[i].client \in Clients /\ Waits(clients[connections[i].client])
              /\ connections[i].Direction = "OUT" /\ connections[i].state = "Established"
  <1>1. BufferOK(connections[i], i)
    BY DEF EthInv, BuffersOK
  <1>2. at \notin 1..i /\ at \notin (i + 1)..Sending
    BY DEF Entries
  <1> QED BY <1>1, <1>2 DEF BufferOK, Taking, Giving

\* What is neither an acknowledgement nor a request comes when nobody waits, or
\* before the request of the one who does.
LEMMA Unasked ==
  ASSUME EthInv, FrameIN.flags \notin {"none", "ACK", "PSH"}
  PROVE  \A d \in Clients : Waits(clients[d]) => Asks(outBank, d)
  BY DEF EthInv, OthersAside, Unhindered, Asks

\* The entry of the sender of a frame.
LEMMA SenderHeld ==
  ASSUME EthInv, NEW c \in Clients, EntriesOf(c) # {}
  PROVE  /\ First(EntriesOf(c)) \in Entries /\ connections[First(EntriesOf(c))].client = c
         /\ connections[First(EntriesOf(c))] \in ConnectionState
         /\ Mine(connections, c) = connections[First(EntriesOf(c))]
         /\ Usable(c) = EntriesOf(c)
  <1>1. EthTypeOK /\ Entries \subseteq Nat
    BY Typed DEF EthInv
  <1>2. EntriesOf(c) \subseteq Entries
    BY DEF EntriesOf
  <1>3. First(EntriesOf(c)) \in EntriesOf(c)
    BY <1>1, <1>2, FirstIn
  <1>4. First(EntriesOf(c)) \in Entries /\ connections[First(EntriesOf(c))].client = c
    BY <1>3 DEF EntriesOf
  <1>5. connections[First(EntriesOf(c))] \in ConnectionState
    BY <1>1, <1>4, Typed
  <1>6. Mine(connections, c) = connections[First(EntriesOf(c))]
    BY <1>1, Typed DEF Mine
  <1> QED BY <1>4, <1>5, <1>6 DEF Usable

LEMMA SenderNew ==
  ASSUME EthInv, NEW c \in Clients, EntriesOf(c) = {}
  PROVE  /\ Mine(connections, c).state = "Closed" /\ Owned(connections, c) = {}
         /\ Usable(c) # {} => /\ First(Usable(c)) \in Entries
                              /\ connections[First(Usable(c))] \in ConnectionState
                              /\ connections[First(Usable(c))].state = "Closed"
  <1>1. EthTypeOK /\ Entries \subseteq Nat
    BY Typed DEF EthInv
  <1>2. Owned(connections, c) = {}
    BY <1>1, Typed
  <1>3. Usable(c) = {e \in Entries : connections[e].state = "Closed"}
    BY DEF Usable
  <1>4. ASSUME Usable(c) # {} PROVE First(Usable(c)) \in Usable(c)
    BY <1>1, <1>3, <1>4, FirstIn
  <1>5. ASSUME Usable(c) # {}
        PROVE  First(Usable(c)) \in Entries /\ connections[First(Usable(c))].state = "Closed"
    BY <1>3, <1>4, <1>5
  <1>6. \A i \in Entries : connections[i] \in ConnectionState
    BY <1>1, Typed
  <1> QED BY <1>2, <1>5, <1>6, MineNone

\* A frame that changes nothing, or no frame.
LEMMA Dropped ==
  ASSUME EthInv, Traffic = "plain", MAX_TCP_CONNECTIONS' = MAX_TCP_CONNECTIONS, at = Processing, Prompt,
         Ignored,
         \A c \in Clients : ClientOK(clients[c], Mine(connections, c), "none", From(outBank, c),
                                     Back(FrameOUT, inBank, c), PageBlock)
  PROVE  EthInv'
  <1>1. /\ at = 0 /\ at' = 1 /\ FrameIN' = NoFrame /\ inBank = NoFrame /\ FrameOUT' = FrameOUT
        /\ message' = message /\ connections' = connections /\ PageBlock' = PageBlock
        /\ outBank' = outBank /\ inBank' = inBank /\ clients' = clients /\ sessions' = sessions
    BY DEF Ignored, BusFrame, Prompt, Processing
  <1>2. /\ EthTypeOK /\ MAX_TCP_CONNECTIONS \in Nat /\ MAX_TCP_CONNECTIONS >= 1
        /\ Entries' = Entries
    BY Typed DEF EthInv, Entries
  <1>3. EthTypeOK'
    <2>1. at' \in Processing..Writing'
      BY <1>1, <1>2 DEF Processing, Writing
    <2> QED BY <1>1, <1>2, <2>1 DEF EthTypeOK, Processing
  <1>4. ClientsAgree'
    BY <1>1, FramesApart DEF ClientsAgree, ViewOK
  <1>5. TableOK' /\ OneWaits'
    BY <1>1 DEF EthInv, TableOK, OneWaits
  <1>6. BusInTurn' /\ FrameInTurn'
    BY <1>1 DEF BusInTurn, FrameInTurn
  <1>7. FramesTrue'
    BY <1>1, FramesApart DEF EthInv, FramesTrue
  <1>8. OthersAside'
    <2>1. ASSUME NEW d \in Clients, Waits(clients'[d]) PROVE Unhindered(d)'
      <3>1. Unhindered(d)
        BY <1>1, <2>1 DEF EthInv, OthersAside
      <3>2. FrameIN'.flags = "none"
        BY <1>1 DEF NoFrame, Bare
      <3> QED BY <1>1, <3>1, <3>2 DEF Unhindered, Processing, Asks
    <2> QED BY <2>1 DEF OthersAside
  <1>9. BuffersOK'
    <2>1. ASSUME NEW j \in Entries PROVE BufferOK(connections[j], j)'
      <3>1. BufferOK(connections[j], j)
        BY DEF EthInv, BuffersOK
      <3>2. at \notin 1..j /\ at \notin (j + 1)..Sending
        BY <1>1 DEF Entries
      <3> QED BY <1>1, <3>1, <3>2 DEF BufferOK, Taking, Giving
    <2> QED BY <1>2, <2>1 DEF BuffersOK
  <1> QED BY <1>3, <1>4, <1>5, <1>6, <1>7, <1>8, <1>9 DEF EthInv

LEMMA NoPacketKeeps ==
  ASSUME EthInv, Traffic = "plain", MAX_TCP_CONNECTIONS' = MAX_TCP_CONNECTIONS, NoPacket
  PROVE  EthInv'
  <1>1. \A c \in Clients : From(FrameIN, c) = "none"
    BY FramesApart DEF NoPacket
  <1>2. \A c \in Clients : ClientOK(clients[c], Mine(connections, c), "none", From(outBank, c),
                                    Back(FrameOUT, inBank, c), PageBlock)
    BY <1>1 DEF EthInv, ClientsAgree, ViewOK
  <1> QED BY <1>2, Dropped DEF NoPacket

LEMMA ProcessSYNKeeps ==
  ASSUME EthInv, Traffic = "plain", MAX_TCP_CONNECTIONS' = MAX_TCP_CONNECTIONS, ProcessSYN
  PROVE  EthInv'
  <1> DEFINE c == FrameIN.client
             k == clients[c]
             o == From(outBank, c)
  <1>1. TCPFrame /\ FrameIN.flags = "SYN"
    BY DEF ProcessSYN
  <1>2. /\ at = Processing /\ FrameOUT = NoFrame /\ inBank = NoFrame /\ c \in Clients /\ k \in Client
        /\ ClientOK(k, Mine(connections, c), "SYN", o, NoFrame, PageBlock)
        /\ \A d \in Clients : d # c =>
             ClientOK(clients[d], Mine(connections, d), "none", From(outBank, d), NoFrame, PageBlock)
    BY <1>1, Arrival
  <1>3. /\ Mine(connections, c).state = "Closed"
        /\ ClientOK(k, Mine(connections, c), "none", o, NoFrame, PageBlock)
        /\ \A f, b : f.state = "SYNReceived" /\ Numbered(f, 1, 0) /\ b.flags = "SYN" /\ b.seq = 0
              => ClientOK(k, f, "none", o, b, PageBlock)
    <2> HIDE DEF c, k, o
    <2> QED BY <1>2, SynTaken
  <1>4. CASE Usable(c) = {} /\ Ignored
    <2>1. \A d \in Clients : Back(FrameOUT, inBank, d) = NoFrame
      BY <1>2, FramesApart
    <2>2. \A d \in Clients : ClientOK(clients[d], Mine(connections, d), "none", From(outBank, d),
                                      Back(FrameOUT, inBank, d), PageBlock)
      BY <1>2, <1>3, <2>1
    <2> QED BY <1>1, <1>2, <1>4, <2>2, Dropped DEF TCPFrame, Arrived
  <1>5. CASE Usable(c) # {}
    <2> DEFINE i == First(Usable(c))
               e == [connections[i] EXCEPT !.client = c, !.state = "SYNReceived",
                       !.SequenceNumberIn = 1, !.SequenceNumberOut = 0, !.InUse = FALSE]
    <2>1. Processed(i, e, "SYN")
      BY <1>5 DEF ProcessSYN
    <2>2. /\ i \in Entries /\ connections[i] \in ConnectionState /\ connections[i].state = "Closed"
          /\ connections[i].client = c \/ (Owned(connections, c) = {} /\ connections[i].state = "Closed")
      <3> HIDE DEF c
      <3>1. CASE EntriesOf(c) = {}
        BY <1>2, <1>5, <3>1, SenderNew
      <3>2. CASE EntriesOf(c) # {}
        BY <1>2, <1>3, <3>2, SenderHeld
      <3> QED BY <3>1, <3>2
    <2>3. ~connections[i].Ready
      <3> HIDE DEF c, i
      <3> QED BY <1>2, <2>2, AtRest DEF Processing
    <2>4. /\ e.client = c /\ e.state = "SYNReceived" /\ e.SequenceNumberIn = 1
          /\ e.SequenceNumberOut = 0 /\ ~e.InUse /\ e.Ready = connections[i].Ready
          /\ e \in ConnectionState
      <3> HIDE DEF c, i
      <3>1. 0 \in Numbers /\ 1 \in Numbers
        BY EthAssumption DEF Numbers
      <3> QED BY <1>2, <2>2, <3>1 DEF ConnectionState
    <2> HIDE DEF e, i
    <2>5. Segment(e, "SYN", Nothing).flags = "SYN" /\ Segment(e, "SYN", Nothing).seq = 0
      BY <2>4 DEF Segment
    <2>6. ClientOK(k, e, "none", o, Segment(e, "SYN", Nothing), PageBlock)
      BY <1>3, <2>4, <2>5 DEF Numbered
    <2>7. Idling(e, k)
      BY <2>3, <2>4 DEF Idling
    <2>8. \A d \in Clients : Waits(clients[d]) => Asks(outBank, d)
      BY <1>1, Unasked
    <2>9. HandledOK(i, e, "SYN", Segment(e, "SYN", Nothing))
      BY <2>1, <2>2, <2>4, <2>6, <2>7, <2>8 DEF HandledOK
    <2> QED BY <1>1, <2>9, Handled
  <1> QED BY <1>4, <1>5 DEF ProcessSYN

LEMMA ProcessRSTKeeps ==
  ASSUME EthInv, Traffic = "plain", MAX_TCP_CONNECTIONS' = MAX_TCP_CONNECTIONS, ProcessRST
  PROVE  EthInv'
  <1> DEFINE c == FrameIN.client
             k == clients[c]
             o == From(outBank, c)
             i == First(Usable(c))
             e == [connections[i] EXCEPT !.client = c, !.state = "Closed"]
  <1>1. TCPFrame /\ FrameIN.flags = "RST"
    BY DEF ProcessRST
  <1>2. /\ at = Processing /\ c \in Clients /\ k \in Client
        /\ ClientOK(k, Mine(connections, c), "RST", o, NoFrame, PageBlock)
    BY <1>1, Arrival
  <1>3. /\ Closing(Mine(connections, c)) /\ ~Waits(k)
        /\ \A f, b : f.state = "Closed" /\ b.flags = "RST" => ClientOK(k, f, "none", o, b, PageBlock)
    <2> HIDE DEF c, k, o
    <2>1. ASSUME NEW f, NEW b, f.state = "Closed", b.flags = "RST"
          PROVE  /\ Closing(Mine(connections, c)) /\ ~Waits(k) /\ ClientOK(k, f, "none", o, b, PageBlock)
      BY <1>2, <2>1, RstTaken
    <2>2. Unused.state = "Closed" /\ [flags |-> "RST"].flags = "RST"
      BY DEF Unused
    <2> QED BY <2>1, <2>2
  <1>4. EntriesOf(c) # {}
    <2> HIDE DEF c, k, o
    <2>1. Mine(connections, c).state # "Closed"
      BY <1>3 DEF Closing
    <2> QED BY <1>2, <2>1, SenderNew
  <1>5. /\ i \in Entries /\ connections[i].client = c /\ connections[i] \in ConnectionState
        /\ Mine(connections, c) = connections[i] /\ Usable(c) # {}
    <2> HIDE DEF c, k, o
    <2> QED BY <1>2, <1>4, SenderHeld
  <1>6. ~connections[i].Ready /\ ~connections[i].InUse
    <2> HIDE DEF c, k, o, i
    <2> QED BY <1>2, <1>3, <1>5, AtRest DEF Processing, Closing
  <1>7. Processed(i, e, "RST")
    BY <1>5 DEF ProcessRST
  <1>8. /\ e.client = c /\ e.state = "Closed" /\ ~e.InUse /\ ~e.Ready /\ e \in ConnectionState
    <2> HIDE DEF c, i
    <2> QED BY <1>2, <1>5, <1>6 DEF ConnectionState
  <1> HIDE DEF e, i
  <1>9. Segment(e, "RST", Nothing).flags = "RST"
    BY DEF Segment
  <1>10. ClientOK(k, e, "none", o, Segment(e, "RST", Nothing), PageBlock)
    BY <1>3, <1>8, <1>9
  <1>11. \A d \in Clients : Waits(clients[d]) => Asks(outBank, d)
    BY <1>1, Unasked
  <1>12. HandledOK(i, e, "RST", Segment(e, "RST", Nothing))
    BY <1>5, <1>7, <1>8, <1>10, <1>11 DEF HandledOK, Idling
  <1> QED BY <1>1, <1>12, Handled

\* A change of state.
Moved(e, t) ==
  LET fin == t[2] = "FIN" /\ t[1] # "Closing"
  IN  [e EXCEPT !.state = t[3],
         !.SequenceNumberIn  = IF fin THEN @ + 1 ELSE @,
         !.SequenceNumberOut = IF fin \/ t[1] = "SYNReceived" THEN @ + 1 ELSE @,
         !.InUse = IF t[1] = "Closing" THEN FALSE ELSE @]

LEMMA TransitionsAre ==
  ASSUME NEW t \in Transitions
  PROVE  \/ t[1] = "SYNReceived" /\ t[2] = "ACK" /\ t[3] = "Established" /\ t[4] = "none"
         \/ t[1] = "Established" /\ t[2] = "FIN" /\ t[3] = "CloseWait" /\ t[4] = "FIN"
         \/ t[1] \in {"FINWait1", "FINWait2"} /\ t[2] = "FIN" /\ t[3] = "Closed" /\ t[4] = "ACK"
         \/ t[1] = "FINWait1" /\ t[2] = "ACK" /\ t[3] = "FINWait2" /\ t[4] = "none"
         \/ t[1] = "CloseWait" /\ t[2] = "ACK" /\ t[3] = "Closed" /\ t[4] = "none"
         \/ t[1] = "Closing" /\ t[2] \in {"ACK", "PSH", "FIN"} /\ t[3] = "FINWait1" /\ t[4] = "FIN"
  BY DEF Transitions

\* What f, the entry after the change t of e, keeps and what is new in it.
MovedTo(f, e, t) ==
  /\ f.client = e.client /\ f.state = t[3] /\ f.Ready = e.Ready /\ f.Direction = e.Direction
  /\ f.SequenceNumberIn = IF t[2] = "FIN" /\ t[1] # "Closing" THEN e.SequenceNumberIn + 1
                          ELSE e.SequenceNumberIn
  /\ f.SequenceNumberOut = IF (t[2] = "FIN" /\ t[1] # "Closing") \/ t[1] = "SYNReceived"
                           THEN e.SequenceNumberOut + 1 ELSE e.SequenceNumberOut
  /\ f.InUse = IF t[1] = "Closing" THEN FALSE ELSE e.InUse
  /\ f.SequenceNumberIn \in Numbers /\ f.SequenceNumberOut \in Numbers => f \in ConnectionState

LEMMA MovedFields ==
  ASSUME NEW e \in ConnectionState, NEW t \in Transitions
  PROVE  MovedTo(Moved(e, t), e, t)
  <1> DEFINE f == Moved(e, t)
  <1>1. /\ f.client = e.client /\ f.state = t[3] /\ f.Ready = e.Ready /\ f.Direction = e.Direction
        /\ f.SequenceNumberIn = IF t[2] = "FIN" /\ t[1] # "Closing" THEN e.SequenceNumberIn + 1
                                ELSE e.SequenceNumberIn
        /\ f.SequenceNumberOut = IF (t[2] = "FIN" /\ t[1] # "Closing") \/ t[1] = "SYNReceived"
                                 THEN e.SequenceNumberOut + 1 ELSE e.SequenceNumberOut
        /\ f.InUse = IF t[1] = "Closing" THEN FALSE ELSE e.InUse
    BY DEF Moved, ConnectionState
  <1>2. ASSUME f.SequenceNumberIn \in Numbers, f.SequenceNumberOut \in Numbers
        PROVE  f \in ConnectionState
    BY <1>2, TransitionsAre DEF Moved, ConnectionState
  <1> HIDE DEF f
  <1>3. MovedTo(f, e, t)
    BY <1>1, <1>2 DEF MovedTo
  <1> QED BY <1>3 DEF f

LEMMA ChangeStateKeeps ==
  ASSUME EthInv, Traffic = "plain", MAX_TCP_CONNECTIONS' = MAX_TCP_CONNECTIONS, ChangeState
  PROVE  EthInv'
  <1> DEFINE c == FrameIN.client
             k == clients[c]
             o == From(outBank, c)
             i == First(EntriesOf(c))
             e == connections[i]
  <1>1. PICK t \in Transitions : Taken(t) /\ Processed(i, Moved(e, t), t[4])
    BY DEF ChangeState, Moved
  <1> DEFINE f == Moved(e, t)
             b == IF t[4] = "none" THEN NoFrame ELSE Segment(f, t[4], Nothing)
  <1>2. TCPFrame /\ FrameIN.flags = t[2] /\ State(c) = t[1]
    BY <1>1 DEF ChangeState, Taken
  <1>3. /\ at = Processing /\ c \in Clients /\ k \in Client
        /\ ClientOK(k, Mine(connections, c), t[2], o, NoFrame, PageBlock)
    BY <1>2, Arrival
  <1>4. State(c) = Mine(connections, c).state
    BY Typed DEF EthInv
  <1>5. EntriesOf(c) # {}
    <2> HIDE DEF c, k, o
    <2>1. t[1] # "Closed"
      BY TransitionsAre
    <2> QED BY <1>2, <1>3, <1>4, <2>1, SenderNew
  <1>6. /\ i \in Entries /\ e.client = c /\ e \in ConnectionState /\ Mine(connections, c) = e
        /\ e.state = t[1]
    <2> HIDE DEF c, k, o
    <2> QED BY <1>2, <1>3, <1>4, <1>5, SenderHeld
  <1>7. /\ e.Ready => Waits(k) /\ e.Direction = "OUT" /\ e.state \in {"Established", "Closing"}
                      /\ (e.state = "Closing" => k.request # ForPage)
        /\ e.InUse => Waits(k) /\ e.state = "Established"
    <2> HIDE DEF i
    <2> QED BY <1>3, <1>6, AtRest DEF Processing
  <1>8. Processed(i, f, t[4])
    BY <1>1
  <1>9. ClientOK(k, e, t[2], o, NoFrame, PageBlock)
    BY <1>3, <1>6
  <1> HIDE DEF c, k, o, i, e
  <1>10. /\ f.client = c /\ f.state = t[3] /\ f.Ready = e.Ready /\ f.Direction = e.Direction
         /\ f.SequenceNumberIn = IF t[2] = "FIN" /\ t[1] # "Closing" THEN e.SequenceNumberIn + 1
                                 ELSE e.SequenceNumberIn
         /\ f.SequenceNumberOut = IF (t[2] = "FIN" /\ t[1] # "Closing") \/ t[1] = "SYNReceived"
                                  THEN e.SequenceNumberOut + 1 ELSE e.SequenceNumberOut
         /\ f.InUse = IF t[1] = "Closing" THEN FALSE ELSE e.InUse
         /\ f.SequenceNumberIn \in Numbers /\ f.SequenceNumberOut \in Numbers => f \in ConnectionState
    <2>1. MovedTo(f, e, t)
      BY <1>6, MovedFields
    <2> HIDE DEF f
    <2> QED BY <1>6, <2>1 DEF MovedTo
  <1> HIDE DEF f
  <1>11. t[4] # "none" => /\ b.flags = t[4] /\ b.data = Nothing /\ b.seq = f.SequenceNumberOut
                          /\ b.ack = f.SequenceNumberIn
    BY DEF Segment
  <1>12. t[4] = "none" => b = NoFrame
    OBVIOUS
  <1> HIDE DEF b
  <1>13. /\ e.SequenceNumberIn \in Numbers /\ e.SequenceNumberOut \in Numbers /\ LAST_BLOCK \in 0..255
    BY <1>6, EthAssumption DEF ConnectionState
  <1> DEFINE Goal == /\ ClientOK(k, f, "none", o, b, PageBlock) /\ Idling(f, k)
                     /\ f.SequenceNumberIn \in Numbers /\ f.SequenceNumberOut \in Numbers
                     /\ t[4] # "none" => \A d \in Clients : Waits(clients[d]) =>
                          \/ Asks(outBank, d)
                          \/ d = c /\ (f.SequenceNumberOut = 1 \/ f.state = "FINWait1")
  <1>14. t[2] = "FIN" => \A d \in Clients : Waits(clients[d]) => Asks(outBank, d)
    BY <1>2, Unasked
  <1>15. ASSUME t[1] = "SYNReceived" /\ t[2] = "ACK" /\ t[3] = "Established" /\ t[4] = "none"
         PROVE  Goal
    <2>1. ~e.Ready /\ ~e.InUse
      BY <1>6, <1>7, <1>15
    <2>2. f.SequenceNumberIn = e.SequenceNumberIn /\ f.SequenceNumberOut = e.SequenceNumberOut + 1
          /\ ~f.Ready /\ ~f.InUse /\ f.state = "Established"
      BY <1>10, <1>15, <2>1
    <2>3. ClientOK(k, f, "none", o, NoFrame, PageBlock) /\ f.SequenceNumberOut = 1
      <3>1. ClientOK(k, e, "ACK", o, NoFrame, PageBlock) /\ e.state = "SYNReceived"
        BY <1>6, <1>9, <1>15
      <3> QED BY <1>3, <2>2, <3>1, AckEstablishes
    <2>4. f.SequenceNumberIn \in Numbers /\ f.SequenceNumberOut \in Numbers
      BY <1>13, <2>2, <2>3 DEF Numbers
    <2> QED BY <1>12, <1>15, <2>2, <2>3, <2>4 DEF Idling
  <1>16. ASSUME t[1] = "Established" /\ t[2] = "FIN" /\ t[3] = "CloseWait" /\ t[4] = "FIN"
         PROVE  Goal
    <2>1. f.SequenceNumberIn = e.SequenceNumberIn + 1 /\ f.SequenceNumberOut = e.SequenceNumberOut + 1
          /\ f.state = "CloseWait"
      BY <1>10, <1>16
    <2>2. b.flags = "FIN" /\ b.seq = f.SequenceNumberOut
      BY <1>11, <1>16
    <2>3. ClientOK(k, f, "none", o, b, PageBlock) /\ ~Waits(k)
          /\ e.SequenceNumberOut = 1 /\ e.SequenceNumberIn \in {1, 2}
      <3>1. ClientOK(k, e, "FIN", o, NoFrame, PageBlock) /\ e.state = "Established"
        BY <1>6, <1>9, <1>16
      <3> QED BY <1>3, <2>1, <2>2, <3>1, FinAnswered
    <2>4. f.SequenceNumberIn \in Numbers /\ f.SequenceNumberOut \in Numbers
      BY <1>13, <2>1, <2>3 DEF Numbers
    <2>5. ~f.Ready /\ ~f.InUse
      BY <1>7, <1>10, <1>16, <2>3
    <2> QED BY <1>14, <1>16, <2>3, <2>4, <2>5 DEF Idling
  <1>17. ASSUME t[1] \in {"FINWait1", "FINWait2"} /\ t[2] = "FIN" /\ t[3] = "Closed" /\ t[4] = "ACK"
         PROVE  Goal
    <2>1. f.SequenceNumberIn = e.SequenceNumberIn + 1 /\ f.SequenceNumberOut = e.SequenceNumberOut + 1
          /\ f.state = "Closed"
      BY <1>10, <1>17
    <2>2. Receipt(b) /\ b.ack = f.SequenceNumberIn
      BY <1>11, <1>17 DEF Receipt
    <2>3. ClientOK(k, f, "none", o, b, PageBlock) /\ ~Waits(k)
          /\ e.SequenceNumberIn = 2 /\ e.SequenceNumberOut <= LAST_BLOCK + 3
      <3>1. ClientOK(k, e, "FIN", o, NoFrame, PageBlock) /\ Closing(e)
        BY <1>6, <1>9, <1>17 DEF Closing
      <3> QED BY <1>3, <2>1, <2>2, <3>1, FinLast
    <2>4. f.SequenceNumberIn \in Numbers /\ f.SequenceNumberOut \in Numbers
      BY <1>13, <2>1, <2>3 DEF Numbers
    <2>5. ~f.Ready /\ ~f.InUse
      BY <1>7, <1>10, <1>17, <2>3
    <2> QED BY <1>14, <1>17, <2>3, <2>4, <2>5 DEF Idling
  <1>18. ASSUME t[1] = "FINWait1" /\ t[2] = "ACK" /\ t[3] = "FINWait2" /\ t[4] = "none"
         PROVE  Goal
    <2>1. ~e.Ready /\ ~e.InUse
      BY <1>6, <1>7, <1>18
    <2>2. f.SequenceNumberIn = e.SequenceNumberIn /\ f.SequenceNumberOut = e.SequenceNumberOut
          /\ ~f.Ready /\ ~f.InUse /\ f.state = "FINWait2"
      BY <1>10, <1>18, <2>1
    <2>3. ClientOK(k, f, "none", o, NoFrame, PageBlock)
      <3>1. ClientOK(k, e, "ACK", o, NoFrame, PageBlock) /\ Closing(e)
        BY <1>6, <1>9, <1>18 DEF Closing
      <3> QED BY <1>3, <2>2, <3>1, AckWhileClosing
    <2> QED BY <1>12, <1>13, <1>18, <2>2, <2>3 DEF Idling
  <1>19. ASSUME t[1] = "CloseWait" /\ t[2] = "ACK" /\ t[3] = "Closed" /\ t[4] = "none"
         PROVE  Goal
    <2>1. ~e.Ready /\ ~e.InUse
      BY <1>6, <1>7, <1>19
    <2>2. f.SequenceNumberIn = e.SequenceNumberIn /\ f.SequenceNumberOut = e.SequenceNumberOut
          /\ ~f.Ready /\ ~f.InUse /\ f.state = "Closed"
      BY <1>10, <1>19, <2>1
    <2>3. ClientOK(k, f, "none", o, NoFrame, PageBlock)
      <3>1. ClientOK(k, e, "ACK", o, NoFrame, PageBlock) /\ e.state = "CloseWait"
        BY <1>6, <1>9, <1>19
      <3> QED BY <1>3, <2>2, <3>1, AckOfHalf
    <2> QED BY <1>12, <1>13, <1>19, <2>2, <2>3 DEF Idling
  <1>20. ASSUME t[1] = "Closing" /\ t[2] \in {"ACK", "PSH", "FIN"} /\ t[3] = "FINWait1" /\ t[4] = "FIN"
         PROVE  Goal
    <2>1. f.SequenceNumberIn = e.SequenceNumberIn /\ f.SequenceNumberOut = e.SequenceNumberOut
          /\ f.state = "FINWait1" /\ ~f.InUse /\ f.Ready = e.Ready
      BY <1>10, <1>20
    <2>2. b.flags = "FIN" /\ b.seq = f.SequenceNumberOut
      BY <1>11, <1>20
    <2>3. ClientOK(k, f, "none", o, b, PageBlock) /\ Waits(k) /\ ~e.Ready
      <3>1. ClientOK(k, e, t[2], o, NoFrame, PageBlock) /\ e.state = "Closing"
            /\ t[2] \in {"ACK", "PSH", "FIN"} /\ (e.Ready => k.request # ForPage)
        BY <1>6, <1>7, <1>9, <1>20
      <3> QED BY <1>3, <2>1, <2>2, <3>1, AckCloses
    <2>4. \A d \in Clients : Waits(clients[d]) => d = c
      BY <1>3, <2>3 DEF EthInv, OneWaits, k
    <2> QED BY <1>13, <1>20, <2>1, <2>3, <2>4 DEF Idling
  <1>21. Goal
    BY <1>15, <1>16, <1>17, <1>18, <1>19, <1>20, TransitionsAre
  <1>22. t[4] \in {"none", "SYN", "ACK", "FIN", "RST"}
    BY TransitionsAre
  <1>23. HandledOK(i, f, t[4], b)
    BY <1>6, <1>8, <1>10, <1>21, <1>22 DEF HandledOK, c, k, o, b, e
  <1> QED BY <1>2, <1>23, Handled

\* An acknowledgement that is left in FrameIN, while the application sends.
LEMMA DeferredKeeps ==
  ASSUME EthInv, Traffic = "plain", MAX_TCP_CONNECTIONS' = MAX_TCP_CONNECTIONS, TCPFrame, Deferred,
         ~message
  PROVE  EthInv'
  <1>0. at = Processing /\ FrameOUT = NoFrame /\ inBank = NoFrame
    BY Arrival
  <1>1. /\ at = 0 /\ at' = 1 /\ FrameIN' = FrameIN /\ FrameOUT' = FrameOUT /\ inBank' = inBank
        /\ message' = message /\ connections' = connections /\ PageBlock' = PageBlock
        /\ outBank' = outBank /\ clients' = clients /\ sessions' = sessions
    BY <1>0 DEF Deferred, BusFrame, Processing
  <1>2. /\ EthTypeOK /\ MAX_TCP_CONNECTIONS \in Nat /\ MAX_TCP_CONNECTIONS >= 1
        /\ Entries' = Entries
    BY Typed DEF EthInv, Entries
  <1>3. EthTypeOK'
    <2>1. at' \in Processing..Writing'
      BY <1>1, <1>2 DEF Processing, Writing
    <2> QED BY <1>1, <1>2, <2>1 DEF EthTypeOK, Processing
  <1>4. ClientsAgree' /\ TableOK' /\ OneWaits' /\ FramesTrue'
    BY <1>1 DEF EthInv, TableOK, OneWaits, FramesTrue, ClientsAgree, ViewOK
  <1>6. BusInTurn' /\ FrameInTurn'
    BY <1>0, <1>1 DEF BusInTurn, FrameInTurn, Processing
  <1>8. OthersAside'
    <2>1. ASSUME NEW d \in Clients, Waits(clients'[d]) PROVE Unhindered(d)'
      <3>1. Unhindered(d)
        BY <1>1, <2>1 DEF EthInv, OthersAside
      <3> QED BY <1>0, <1>1, <3>1 DEF Unhindered, Processing, Asks
    <2> QED BY <2>1 DEF OthersAside
  <1>9. BuffersOK'
    <2>1. ASSUME NEW j \in Entries PROVE BufferOK(connections[j], j)'
      <3>1. BufferOK(connections[j], j)
        BY DEF EthInv, BuffersOK
      <3>2. at \notin 1..j /\ at \notin (j + 1)..Sending
        BY <1>1 DEF Entries
      <3> QED BY <1>1, <3>1, <3>2 DEF BufferOK, Taking, Giving
    <2> QED BY <1>2, <2>1 DEF BuffersOK
  <1> QED BY <1>3, <1>4, <1>6, <1>8, <1>9 DEF EthInv

LEMMA ProcessDataKeeps ==
  ASSUME EthInv, Traffic = "plain", MAX_TCP_CONNECTIONS' = MAX_TCP_CONNECTIONS, ProcessData
  PROVE  EthInv'
  <1> DEFINE c == FrameIN.client
             k == clients[c]
             o == From(outBank, c)
             i == First(EntriesOf(c))
             e == connections[i]
             claimed == IF ~e.InUse /\ ~e.Ready
                        THEN [e EXCEPT !.Direction = "IN", !.InUse = TRUE, !.Data = Nothing] ELSE e
             filled  == IF FrameIN.data = Nothing THEN claimed
                        ELSE AppendData(claimed, FrameIN.data)
  <1>1. /\ TCPFrame /\ FrameIN.flags \in {"ACK", "PSH"} /\ State(c) = "Established"
        /\ \/ claimed.Direction = "OUT" /\ Deferred
           \/ claimed.Direction = "IN" /\ FrameIN.flags = "ACK" /\ Processed(i, filled, "none")
           \/ claimed.Direction = "IN" /\ FrameIN.flags = "PSH"
              /\ Processed(i, [filled EXCEPT !.InUse = FALSE, !.Ready = TRUE], "ACK")
    BY DEF ProcessData
  <1>3. /\ at = Processing /\ c \in Clients /\ k \in Client /\ FrameIN \in ToDevice
        /\ ClientOK(k, Mine(connections, c), FrameIN.flags, o, NoFrame, PageBlock)
    BY <1>1, Arrival
  <1>4. State(c) = Mine(connections, c).state
    BY Typed DEF EthInv
  <1>5. EntriesOf(c) # {}
    <2> HIDE DEF c, k, o
    <2> QED BY <1>1, <1>3, <1>4, SenderNew
  <1>6. /\ i \in Entries /\ e.client = c /\ e \in ConnectionState /\ Mine(connections, c) = e
        /\ e.state = "Established"
    <2> HIDE DEF c, k, o
    <2> QED BY <1>1, <1>3, <1>4, <1>5, SenderHeld
  <1>7. /\ e.Ready => Waits(k) /\ e.Direction = "OUT"
        /\ e.InUse => Waits(k)
    <2> HIDE DEF i
    <2> QED BY <1>3, <1>6, AtRest DEF Processing
  <1>8. CASE FrameIN.flags = "ACK"
    <2>1. Waits(k) /\ e.Direction = "OUT" /\ e.InUse /\ o # "PSH"
      <3>1. ClientOK(k, e, "ACK", o, NoFrame, PageBlock)
        BY <1>3, <1>6, <1>8
      <3> HIDE DEF k, e, o
      <3> QED BY <1>3, <1>6, <3>1, AckDeferred
    <2>2. claimed.Direction = "OUT"
      BY <2>1
    <2>3. Deferred
      <3> HIDE DEF claimed
      <3> QED BY <1>1, <2>2
    <2>4. ~message
      <3>1. ~Asks(outBank, c)
        BY <2>1 DEF Asks, From
      <3> QED BY <1>3, <2>1, <3>1 DEF EthInv, OthersAside, Unhindered
    <2> QED BY <1>1, <2>3, <2>4, DeferredKeeps
  <1>9. CASE FrameIN.flags = "PSH"
    <2>1. /\ e.SequenceNumberOut = 1 /\ e.SequenceNumberIn = 1
          /\ k.request # Nothing /\ k.state \in {"open", "finWait"} /\ (Waits(k) => ~e.Ready /\ ~e.InUse)
          /\ \A f, b : /\ f.state = "Established" /\ f.Direction = "IN" /\ f.Ready /\ ~f.InUse
                      /\ Numbered(f, 2, 1) /\ Receipt(b)
                      => ClientOK(k, f, "none", o, b, PageBlock)
      <3>1. ClientOK(k, e, "PSH", o, NoFrame, PageBlock)
        BY <1>3, <1>6, <1>9
      <3> HIDE DEF k, e, o
      <3> QED BY <1>3, <3>1, PshTaken
    <2>2. ~e.Ready /\ ~e.InUse
      BY <1>7, <2>1
    <2>3. FrameIN.data = k.request
      BY <1>3, <1>9 DEF EthInv, FramesTrue, Carries
    <2> DEFINE f == [filled EXCEPT !.InUse = FALSE, !.Ready = TRUE]
    <2>4. /\ f.client = c /\ f.state = "Established" /\ f.Direction = "IN" /\ f.Ready /\ ~f.InUse
          /\ f.SequenceNumberIn = 2 /\ f.SequenceNumberOut = 1 /\ f.Data = k.request
          /\ f \in ConnectionState /\ claimed.Direction = "IN"
      <3> DEFINE g == [e EXCEPT !.Direction = "IN", !.InUse = TRUE, !.Data = Nothing]
      <3>0. Nothing \in Payload /\ FrameIN.data \in Payload
        BY <1>3 DEF ToDevice, Payload
      <3>1. claimed = g
        BY <2>2
      <3> HIDE DEF e, c, k
      <3>2. /\ g \in ConnectionState /\ g.client = c /\ g.state = "Established" /\ g.Direction = "IN"
            /\ g.SequenceNumberIn = 1 /\ g.SequenceNumberOut = 1 /\ g.Data = Nothing
        BY <1>6, <2>1, <3>0 DEF ConnectionState
      <3> HIDE DEF g, claimed
      <3>3. filled = [g EXCEPT !.SequenceNumberIn = @ + 1, !.Data = FrameIN.data]
        BY <2>1, <2>3, <3>1, <3>2 DEF AppendData
      <3> HIDE DEF filled
      <3>4. 2 \in Numbers
        BY EthAssumption DEF Numbers
      <3>5. g.SequenceNumberIn + 1 = 2
        BY <3>2
      <3>6. /\ filled.client = c /\ filled.state = "Established" /\ filled.Direction = "IN"
            /\ filled.SequenceNumberIn = 2 /\ filled.SequenceNumberOut = 1
            /\ filled.Data = FrameIN.data
        BY <3>2, <3>3, <3>5 DEF ConnectionState
      <3>7. filled \in ConnectionState
        BY <3>0, <3>2, <3>3, <3>4, <3>5 DEF ConnectionState
      <3>8. f \in ConnectionState
        BY <3>7 DEF ConnectionState
      <3>9. /\ f.client = filled.client /\ f.state = filled.state /\ f.Direction = filled.Direction
            /\ f.SequenceNumberIn = filled.SequenceNumberIn
            /\ f.SequenceNumberOut = filled.SequenceNumberOut /\ f.Data = filled.Data
            /\ f.Ready /\ ~f.InUse
        BY <3>7 DEF ConnectionState
      <3> HIDE DEF f
      <3>10. claimed.Direction = "IN"
        BY <3>1, <3>2
      <3> QED BY <2>3, <3>6, <3>8, <3>9, <3>10
    <2>5. Processed(i, f, "ACK")
      <3> HIDE DEF filled, claimed
      <3> QED BY <1>1, <1>9, <2>4
    <2> HIDE DEF f
    <2> DEFINE b == Segment(f, "ACK", Nothing)
    <2>6. ClientOK(k, f, "none", o, b, PageBlock)
      <3>1. Receipt(b)
        BY DEF Receipt, Segment
      <3> HIDE DEF b
      <3> QED BY <2>1, <2>4, <3>1 DEF Numbered
    <2>7. \A d \in Clients : Waits(clients[d]) => Asks(outBank, d) \/ d = c
      BY <1>9 DEF EthInv, OthersAside, Unhindered, Asks
    <2>8. HandledOK(i, f, "ACK", b)
      <3> HIDE DEF i
      <3> QED BY <1>6, <2>1, <2>4, <2>5, <2>6, <2>7 DEF HandledOK, Idling
    <2> QED BY <1>1, <2>8, Handled
  <1> QED BY <1>1, <1>8, <1>9

LEMMA ProcessOtherKeeps ==
  ASSUME EthInv, Traffic = "plain", MAX_TCP_CONNECTIONS' = MAX_TCP_CONNECTIONS, ProcessOther
  PROVE  EthInv'
  <1> DEFINE c == FrameIN.client
             k == clients[c]
             o == From(outBank, c)
             e == Mine(connections, c)
  <1>1. TCPFrame /\ FrameIN.flags \notin {"SYN", "RST"} /\ Ignored
    BY DEF ProcessOther
  <1>2. /\ at = Processing /\ FrameOUT = NoFrame /\ inBank = NoFrame /\ c \in Clients /\ k \in Client
        /\ FrameIN \in ToDevice
        /\ ClientOK(k, e, FrameIN.flags, o, NoFrame, PageBlock)
        /\ \A d \in Clients : d # c =>
             ClientOK(clients[d], Mine(connections, d), "none", From(outBank, d), NoFrame, PageBlock)
    BY <1>1, Arrival
  <1>3. FrameIN.flags \in {"ACK", "PSH", "FIN"}
    BY <1>1, <1>2 DEF ToDevice
  <1>4. State(c) = e.state
    BY Typed DEF EthInv
  <1>5. \A t \in Transitions : ~(FrameIN.flags = t[2] /\ e.state = t[1])
    BY <1>4 DEF ProcessOther, Taken
  <1>6. /\ e.state # "Established" \/ FrameIN.flags = "FIN"
        /\ e.state = "SYNReceived" => FrameIN.flags # "ACK"
        /\ e.state = "CloseWait" => FrameIN.flags # "ACK"
        /\ e.state = "Established" => FrameIN.flags # "FIN"
        /\ e.state \in {"FINWait1", "FINWait2"} => FrameIN.flags # "FIN"
        /\ e.state = "FINWait1" => FrameIN.flags # "ACK"
        /\ e.state # "Closing"
    <2>1. e.state = "Established" => FrameIN.flags \notin {"ACK", "PSH"}
      BY <1>4 DEF ProcessOther
    <2>2. /\ <<"SYNReceived", "ACK", "Established", "none">> \in Transitions
          /\ <<"Established", "FIN", "CloseWait",   "FIN">> \in Transitions
          /\ <<"FINWait1",    "FIN", "Closed",      "ACK">> \in Transitions
          /\ <<"FINWait1",    "ACK", "FINWait2",    "none">> \in Transitions
          /\ <<"FINWait2",    "FIN", "Closed",      "ACK">> \in Transitions
          /\ <<"CloseWait",   "ACK", "Closed",      "none">> \in Transitions
          /\ \A flags \in {"ACK", "PSH", "FIN"} : <<"Closing", flags, "FINWait1", "FIN">> \in Transitions
      BY DEF Transitions
    <2>3. \A s, flags, r, a : <<s, flags, r, a>> \in Transitions => ~(FrameIN.flags = flags /\ e.state = s)
      <3> HIDE DEF e
      <3> QED BY <1>5
    <2> HIDE DEF e
    <2> QED BY <1>3, <2>1, <2>2, <2>3
  <1>7. FrameIN.flags = "ACK" /\ e.state = "FINWait2"
    <2>1. e.state # "Established"
      BY <1>3, <1>6
    <2> HIDE DEF e, k, o, c
    <2> QED BY <1>2, <1>3, <1>6, <2>1, NoOther
  <1>8. ClientOK(k, e, "none", o, NoFrame, PageBlock)
    <2>1. ClientOK(k, e, "ACK", o, NoFrame, PageBlock) /\ Closing(e)
      BY <1>2, <1>7 DEF Closing
    <2> HIDE DEF e, k, o, c
    <2> QED BY <1>2, <1>7, <2>1, AckWhileClosing
  <1>9. \A d \in Clients : Back(FrameOUT, inBank, d) = NoFrame
    BY <1>2, FramesApart
  <1>10. \A d \in Clients : ClientOK(clients[d], Mine(connections, d), "none", From(outBank, d),
                                     Back(FrameOUT, inBank, d), PageBlock)
    BY <1>2, <1>8, <1>9
  <1> QED BY <1>1, <1>2, <1>10, Dropped DEF TCPFrame, Arrived

LEMMA ProcessPingKeeps ==
  ASSUME EthInv, Traffic = "plain", MAX_TCP_CONNECTIONS' = MAX_TCP_CONNECTIONS, ProcessPing
  PROVE  EthInv'
  <1>1. /\ at = 0 /\ at' = 1 /\ FrameIN = Ping /\ FrameIN # NoFrame /\ inBank = NoFrame
        /\ FrameIN' = NoFrame /\ FrameOUT' = Pong /\ inBank' = NoFrame
        /\ message' = message /\ connections' = connections /\ PageBlock' = PageBlock
        /\ outBank' = outBank /\ clients' = clients /\ sessions' = sessions
    BY DEF ProcessPing, Arrived, BusFrame, Processing, Prompt
  <1>2. /\ EthTypeOK /\ MAX_TCP_CONNECTIONS \in Nat /\ MAX_TCP_CONNECTIONS >= 1
        /\ Entries' = Entries
    BY Typed DEF EthInv, Entries
  <1>3. EthTypeOK'
    <2>1. at' \in Processing..Writing'
      BY <1>1, <1>2 DEF Processing, Writing
    <2> QED BY <1>1, <1>2, <2>1 DEF EthTypeOK, Processing
  <1>4. ClientsAgree'
    <2>1. FrameOUT = NoFrame
      BY <1>1 DEF EthInv, FrameInTurn, Processing
    <2>2. \A d \in Clients : /\ From(FrameIN', d) = From(FrameIN, d)
                             /\ Back(FrameOUT', inBank', d) = Back(FrameOUT, inBank, d)
      BY <1>1, <2>1, FramesApart
    <2> QED BY <1>1, <2>2 DEF EthInv, ClientsAgree, ViewOK
  <1>5. TableOK' /\ OneWaits'
    BY <1>1 DEF EthInv, TableOK, OneWaits
  <1>6. BusInTurn' /\ FrameInTurn'
    BY <1>1 DEF BusInTurn, FrameInTurn
  <1>7. FramesTrue'
    BY <1>1, FramesApart DEF EthInv, FramesTrue
  <1>8. OthersAside'
    <2>1. FrameIN.flags = "ping"
      BY <1>1 DEF Ping, Bare
    <2>2. ASSUME NEW d \in Clients, Waits(clients'[d]) PROVE Unhindered(d)'
      BY <1>1, <2>1, <2>2, Unasked DEF Unhindered
    <2> QED BY <2>2 DEF OthersAside
  <1>9. BuffersOK'
    <2>1. ASSUME NEW j \in Entries PROVE BufferOK(connections[j], j)'
      <3>1. BufferOK(connections[j], j)
        BY DEF EthInv, BuffersOK
      <3>2. at \notin 1..j /\ at \notin (j + 1)..Sending
        BY <1>1 DEF Entries
      <3> QED BY <1>1, <3>1, <3>2 DEF BufferOK, Taking, Giving
    <2> QED BY <1>2, <2>1 DEF BuffersOK
  <1> QED BY <1>3, <1>4, <1>5, <1>6, <1>7, <1>8, <1>9 DEF EthInv

-----------------------------------------------------------------------------
(* TCP_TCPTask.                                                            *)

\* What is to be shown of the entry e the application leaves, and of PageBlock.
CalledOK(e, block) ==
  LET old == connections[at]
      c   == e.client IN
  /\ at \in Entries /\ Prompt /\ Called(e, block) /\ e \in ConnectionState /\ block \in 0..255
  /\ c = old.client
  /\ c = NoClient => e.state = "Closed"
  /\ c \in Clients => ClientOK(clients[c], e, From(FrameIN, c), From(outBank, c),
                               Back(FrameOUT, inBank, c), block)
  /\ block = PageBlock \/ (c \in Clients /\ Waits(clients[c]))
  /\ e.SequenceNumberOut = old.SequenceNumberOut /\ (e.state = "FINWait1" <=> old.state = "FINWait1")
  /\ e.Ready => /\ c \in Clients /\ Waits(clients[c])
                /\ e.Direction = "OUT" /\ e.state \in {"Established", "Closing"}
  /\ e.InUse => /\ c \in Clients /\ Waits(clients[c])
                /\ e.Direction = "OUT" /\ e.state = "Established"

LEMMA CalledKeeps ==
  ASSUME EthInv, Traffic = "plain", MAX_TCP_CONNECTIONS' = MAX_TCP_CONNECTIONS,
         NEW e, NEW block, CalledOK(e, block)
  PROVE  EthInv'
  <1> DEFINE c == e.client
             old == connections[at]
  <1>0. /\ at \in Entries /\ Prompt /\ Called(e, block) /\ e \in ConnectionState /\ block \in 0..255
        /\ c = old.client
        /\ c = NoClient => e.state = "Closed"
        /\ c \in Clients => ClientOK(clients[c], e, From(FrameIN, c), From(outBank, c),
                                     Back(FrameOUT, inBank, c), block)
        /\ block = PageBlock \/ (c \in Clients /\ Waits(clients[c]))
        /\ e.SequenceNumberOut = old.SequenceNumberOut
        /\ (e.state = "FINWait1" <=> old.state = "FINWait1")
        /\ e.Ready => /\ c \in Clients /\ Waits(clients[c])
                      /\ e.Direction = "OUT" /\ e.state \in {"Established", "Closing"}
        /\ e.InUse => /\ c \in Clients /\ Waits(clients[c])
                      /\ e.Direction = "OUT" /\ e.state = "Established"
    BY DEF CalledOK
  <1>1. /\ connections' = [connections EXCEPT ![at] = e] /\ PageBlock' = block /\ at' = at + 1
        /\ FrameIN' = FrameIN /\ FrameOUT' = FrameOUT /\ inBank' = inBank /\ inBank = NoFrame
        /\ message' = message /\ outBank' = outBank /\ clients' = clients /\ sessions' = sessions
    BY <1>0 DEF Called, BusFrame, Prompt
  <1>2. /\ EthTypeOK /\ MAX_TCP_CONNECTIONS \in Nat /\ MAX_TCP_CONNECTIONS >= 1
        /\ Entries' = Entries
    BY Typed DEF EthInv, Entries
  <1>3. at \in Nat /\ at >= 1 /\ at + 1 <= Sending /\ at # Processing /\ at' # Processing
        /\ at + 1 \in Nat /\ Sending' = Sending
    BY <1>0, <1>1, <1>2 DEF Entries, Sending, Processing
  <1>4. EthTypeOK'
    <2>1. at' \in Processing..Writing'
      BY <1>1, <1>2, <1>3 DEF Processing, Writing, Sending
    <2>2. connections' \in [Entries -> ConnectionState]
      BY <1>0, <1>1, <1>2 DEF EthTypeOK
    <2> QED BY <1>0, <1>1, <1>2, <2>1, <2>2 DEF EthTypeOK, Processing
  <1>5. /\ connections'[at] = e /\ \A j \in Entries : j # at => connections'[j] = connections[j]
    BY <1>0, <1>1, <1>2 DEF EthTypeOK
  <1>6. /\ OneEach(connections') /\ Spare(connections')
        /\ \A d \in Clients : Mine(connections', d) = IF c = d THEN e ELSE Mine(connections, d)
    <2>1. DOMAIN connections \subseteq Nat /\ at \in DOMAIN connections
      BY <1>0, <1>2, Typed
    <2>2. OneEach(connections) /\ Spare(connections)
      BY DEF EthInv, TableOK
    <2>3. \A d \in Clients : d # NoClient
      BY EthAssumption
    <2>4. Changed(connections, connections', at)
      BY <1>1, <2>1, <2>2 DEF Changed
    <2>5. e.client = connections[at].client /\ (e.client = NoClient => e.state = "Closed")
          /\ connections'[at] = e
      BY <1>0, <1>5
    <2>6. /\ OneEach(connections') /\ Spare(connections')
          /\ \A d : d # NoClient => Mine(connections', d) = IF e.client = d THEN e ELSE Mine(connections, d)
      BY <2>4, <2>5, EntryKept
    <2> QED BY <2>3, <2>6
  <1>7. c \in Clients => Mine(connections, c) = old
    BY <1>0, <1>2, Held DEF EthInv
  <1> HIDE DEF c, old
  <1>8. ClientsAgree'
    <2>1. ASSUME NEW d \in Clients PROVE
            ClientOK(clients'[d], Mine(connections', d), From(FrameIN', d), From(outBank', d),
                     Back(FrameOUT', inBank', d), PageBlock')
      <3>1. CASE d = c
        BY <1>0, <1>1, <1>6, <3>1
      <3>2. CASE d # c
        <4>1. ClientOK(clients[d], Mine(connections, d), From(FrameIN, d), From(outBank, d),
                       Back(FrameOUT, inBank, d), PageBlock)
          BY DEF EthInv, ClientsAgree, ViewOK
        <4>2. block = PageBlock \/ ~Waits(clients[d])
          BY <1>0, <3>2 DEF EthInv, OneWaits
        <4>3. ClientOK(clients[d], Mine(connections, d), From(FrameIN, d), From(outBank, d),
                       Back(FrameOUT, inBank, d), block)
          BY <4>1, <4>2, PageAside
        <4> QED BY <1>1, <1>6, <3>2, <4>3
      <3> QED BY <3>1, <3>2
    <2> QED BY <2>1 DEF ClientsAgree, ViewOK
  <1>9. TableOK'
    BY <1>6 DEF TableOK
  <1>10. OneWaits' /\ FramesTrue'
    BY <1>1 DEF EthInv, OneWaits, FramesTrue
  <1>11. BusInTurn' /\ FrameInTurn'
    BY <1>1, <1>3 DEF EthInv, BusInTurn, FrameInTurn
  <1>12. OthersAside'
    <2>1. ASSUME NEW d \in Clients, Waits(clients'[d]) PROVE Unhindered(d)'
      <3>1. Unhindered(d)
        BY <1>1, <2>1 DEF EthInv, OthersAside
      <3>2. /\ Mine(connections', d).SequenceNumberOut = Mine(connections, d).SequenceNumberOut
            /\ Mine(connections', d).state = "FINWait1" <=> Mine(connections, d).state = "FINWait1"
        BY <1>0, <1>6, <1>7
      <3>3. at \in 1..Sending
        BY <1>2, <1>3 DEF Sending
      <3>4. CASE Asks(outBank, d)
        BY <1>1, <3>4 DEF Unhindered
      <3>5. CASE ~Asks(outBank, d)
        <4>1. /\ outBank.flags \in {"none", "ACK"}
              /\ FrameIN.flags \in {"none", "ACK"} \/ Asks(FrameIN, d)
              /\ ~message
              /\ \/ FrameOUT = NoFrame
                 \/ ~(Mine(connections, d).SequenceNumberOut > 1)
                 \/ Mine(connections, d).state = "FINWait1"
          BY <3>1, <3>3, <3>5 DEF Unhindered
        <4>2. \/ FrameOUT' = NoFrame
              \/ ~(Mine(connections', d).SequenceNumberOut > 1)
              \/ Mine(connections', d).state = "FINWait1"
          BY <1>1, <3>2, <4>1
        <4>3. Asks(FrameIN', d) = Asks(FrameIN, d)
          BY <1>1
        <4> QED BY <1>1, <1>3, <4>1, <4>2, <4>3 DEF Unhindered
      <3> QED BY <3>4, <3>5
    <2> QED BY <2>1 DEF OthersAside
  <1>13. BuffersOK'
    <2>1. ASSUME NEW j \in Entries PROVE BufferOK(connections[j], j)'
      <3>1. j \in Nat
        BY DEF Entries
      <3>2. CASE j = at
        <4>1. connections'[j] = e
          BY <1>5, <3>2
        <4>2. at' \in (j + 1)..Sending'
          BY <1>1, <1>2, <1>3, <3>2 DEF Sending
        <4> QED BY <1>0, <1>1, <4>1, <4>2 DEF BufferOK, Giving, c
      <3>3. CASE j # at
        <4>1. connections'[j] = connections[j]
          BY <1>5, <3>3
        <4>2. BufferOK(connections[j], j)
          BY DEF EthInv, BuffersOK
        <4>3. (at \in 1..j => at' \in 1..j) /\ (at \in (j + 1)..Sending => at' \in (j + 1)..Sending')
          BY <1>1, <1>2, <1>3, <3>1, <3>3 DEF Sending
        <4> QED BY <1>1, <4>1, <4>2, <4>3 DEF BufferOK, Taking, Giving
      <3> QED BY <3>2, <3>3
    <2> QED BY <1>2, <2>1 DEF BuffersOK
  <1> QED BY <1>4, <1>8, <1>9, <1>10, <1>11, <1>12, <1>13 DEF EthInv

\* What the invariant says of the entry whose application is called.
LEMMA CalledFor ==
  ASSUME EthInv, at \in Entries
  PROVE  /\ connections[at] \in ConnectionState
         /\ BufferOK(connections[at], at)
         /\ connections[at].client = NoClient => connections[at].state = "Closed"
         /\ connections[at].client \in Clients =>
              /\ clients[connections[at].client] \in Client
              /\ ClientOK(clients[connections[at].client], connections[at],
                          From(FrameIN, connections[at].client), From(outBank, connections[at].client),
                          Back(FrameOUT, inBank, connections[at].client), PageBlock)
         /\ PageBlock \in 0..255
  <1>1. EthTypeOK /\ TableOK /\ BuffersOK /\ ClientsAgree /\ DOMAIN connections = Entries
    BY Typed DEF EthInv
  <1>2. connections[at] \in ConnectionState
    BY <1>1, Typed
  <1>3. connections[at].client = NoClient => connections[at].state = "Closed"
    BY <1>1 DEF TableOK, Spare
  <1>4. ASSUME connections[at].client \in Clients
        PROVE  /\ clients[connections[at].client] \in Client
               /\ Mine(connections, connections[at].client) = connections[at]
    BY <1>1, <1>4, Held
  <1>5. PageBlock \in 0..255
    BY <1>1 DEF EthTypeOK
  <1>6. BufferOK(connections[at], at)
    BY <1>1 DEF BuffersOK
  <1> QED BY <1>1, <1>2, <1>3, <1>4, <1>5, <1>6 DEF ClientsAgree, ViewOK

LEMMA IdleKeeps ==
  ASSUME EthInv, Traffic = "plain", MAX_TCP_CONNECTIONS' = MAX_TCP_CONNECTIONS, Idle
  PROVE  EthInv'
  <1> DEFINE e == connections[at]
  <1>1. at \in Entries /\ Prompt /\ Called(e, PageBlock) /\ ~Received(e)
    BY DEF Idle
  <1>2. CalledOK(e, PageBlock)
    BY <1>1, CalledFor DEF CalledOK, BufferOK, Taking, Giving, Received
  <1> QED BY <1>2, CalledKeeps

LEMMA ServeRequestKeeps ==
  ASSUME EthInv, Traffic = "plain", MAX_TCP_CONNECTIONS' = MAX_TCP_CONNECTIONS, ServeRequest
  PROVE  EthInv'
  <1> DEFINE e == connections[at]
             c == e.client
             k == clients[c]
             i == From(FrameIN, c)
             o == From(outBank, c)
             b == Back(FrameOUT, inBank, c)
  <1>1. at \in Entries /\ Prompt /\ e.Ready /\ e.Direction = "IN"
    BY DEF ServeRequest, Received
  <1>2. /\ c \in Clients /\ e.state = "Established" /\ e.Data = k.request /\ k.request # Nothing
        /\ k.state \in {"open", "finWait"} /\ k \in Client /\ e \in ConnectionState
        /\ ClientOK(k, e, i, o, b, PageBlock) /\ PageBlock \in 0..255
        /\ (e.InUse => Waits(k) /\ e.Direction = "OUT")
    BY <1>1, CalledFor DEF BufferOK, Taking, Giving
  <1>3. c # NoClient
    BY <1>2, EthAssumption
  <1>4. ~e.InUse
    BY <1>1, <1>2
  <1>5. Header \in Payload /\ NotFound \in Payload /\ Nothing \in Payload
    BY DEF Payload
  <1>6. CASE e.Data = <<"GET /", 0>>
    <2> DEFINE f == [Sent(e, Header) EXCEPT !.InUse = TRUE]
    <2>1. Called(f, 0)
      <3>1. e.Data # <<"GET /x", 0>>
        BY <1>6, RequestsApart DEF ForPage, ForNone
      <3> QED BY <1>6, <3>1 DEF ServeRequest
    <2>2. /\ f \in ConnectionState /\ f.client = c /\ f.state = e.state
          /\ f.SequenceNumberIn = e.SequenceNumberIn /\ f.SequenceNumberOut = e.SequenceNumberOut
          /\ f.Direction = "OUT" /\ f.Ready /\ f.InUse /\ f.Data = Header
      BY <1>2, <1>5 DEF Sent, ConnectionState
    <2> HIDE DEF f, i, o, b
    <2>3. Waits(k) /\ ClientOK(k, f, i, o, b, 0)
      <3>1. k.request = ForPage
        BY <1>2, <1>6 DEF ForPage
      <3> HIDE DEF e, c, k
      <3> QED BY <1>1, <1>2, <2>2, <3>1, PageServed
    <2>4. CalledOK(f, 0)
      BY <1>1, <1>2, <1>3, <2>1, <2>2, <2>3 DEF CalledOK, i, o, b
    <2> QED BY <2>4, CalledKeeps
  <1>7. CASE e.Data = <<"GET /x", 0>>
    <2> DEFINE f == [Sent(e, NotFound) EXCEPT !.state = "Closing"]
    <2>1. Called(f, PageBlock)
      <3>1. e.Data # <<"GET /", 0>>
        BY <1>7, RequestsApart DEF ForPage, ForNone
      <3> QED BY <1>7, <3>1 DEF ServeRequest
    <2>2. /\ f \in ConnectionState /\ f.client = c /\ f.state = "Closing"
          /\ f.SequenceNumberIn = e.SequenceNumberIn /\ f.SequenceNumberOut = e.SequenceNumberOut
          /\ f.Direction = "OUT" /\ f.Ready /\ f.InUse = e.InUse /\ f.Data = NotFound
      BY <1>2, <1>5 DEF Sent, ConnectionState
    <2> HIDE DEF f, i, o, b
    <2>3. Waits(k) /\ ClientOK(k, f, i, o, b, PageBlock)
      <3>1. k.request = ForNone
        BY <1>2, <1>7 DEF ForNone
      <3> HIDE DEF e, c, k
      <3> QED BY <1>1, <1>2, <2>2, <3>1, RefusalServed
    <2>4. CalledOK(f, PageBlock)
      BY <1>1, <1>2, <1>3, <1>4, <2>1, <2>2, <2>3 DEF CalledOK, i, o, b
    <2> QED BY <2>4, CalledKeeps
  <1>8. CASE e.Data \notin {<<"GET /", 0>>, <<"GET /x", 0>>}
    <2> DEFINE f == [e EXCEPT !.Ready = FALSE, !.Data = Nothing]
    <2>1. Called(f, PageBlock)
      BY <1>8 DEF ServeRequest
    <2>2. /\ f \in ConnectionState /\ f.client = c /\ f.state = e.state
          /\ f.SequenceNumberIn = e.SequenceNumberIn /\ f.SequenceNumberOut = e.SequenceNumberOut
          /\ ~f.Ready /\ f.InUse = e.InUse
      BY <1>2, <1>5 DEF ConnectionState
    <2> HIDE DEF f, i, o, b
    <2>3. ~Waits(k)
      BY <1>2, <1>8 DEF Waits, Gets, ForPage, ForNone
    <2>4. ClientOK(k, f, i, o, b, PageBlock)
      <3> HIDE DEF e, c, k
      <3> QED BY <1>2, <2>2, <2>3, RestAside
    <2>5. CalledOK(f, PageBlock)
      BY <1>1, <1>2, <1>3, <1>4, <2>1, <2>2, <2>4 DEF CalledOK, i, o, b
    <2> QED BY <2>5, CalledKeeps
  <1> QED BY <1>6, <1>7, <1>8

LEMMA ServeBlockKeeps ==
  ASSUME EthInv, Traffic = "plain", MAX_TCP_CONNECTIONS' = MAX_TCP_CONNECTIONS, ServeBlock
  PROVE  EthInv'
  <1> DEFINE e == connections[at]
             c == e.client
             k == clients[c]
             i == From(FrameIN, c)
             o == From(outBank, c)
             b == Back(FrameOUT, inBank, c)
             full == Sent(e, Block(PageBlock))
             f == IF PageBlock = LAST_BLOCK
                  THEN [full EXCEPT !.InUse = FALSE, !.state = "Closing"] ELSE full
             next == (PageBlock + 1) % 256
  <1>1. at \in Entries /\ Prompt /\ ~e.Ready /\ e.InUse /\ e.Direction = "OUT" /\ Called(f, next)
    BY DEF ServeBlock, Captured
  <1>2. /\ c \in Clients /\ e.state = "Established" /\ Waits(k) /\ k \in Client /\ e \in ConnectionState
        /\ ClientOK(k, e, i, o, b, PageBlock) /\ PageBlock \in 0..255
    BY <1>1, CalledFor DEF BufferOK
  <1>3. c # NoClient
    BY <1>2, EthAssumption
  <1>4. Block(PageBlock) \in Payload /\ next \in 0..255
    BY <1>2 DEF Payload
  <1>5. /\ f \in ConnectionState /\ f.client = c
        /\ f.SequenceNumberIn = e.SequenceNumberIn /\ f.SequenceNumberOut = e.SequenceNumberOut
        /\ f.Direction = "OUT" /\ f.Ready /\ f.Data = Block(PageBlock)
        /\ IF PageBlock = LAST_BLOCK THEN ~f.InUse /\ f.state = "Closing" ELSE f.InUse /\ f.state = e.state
    <2>1. /\ full \in ConnectionState /\ full.client = c /\ full.state = e.state
          /\ full.SequenceNumberIn = e.SequenceNumberIn /\ full.SequenceNumberOut = e.SequenceNumberOut
          /\ full.Direction = "OUT" /\ full.Ready /\ full.InUse = e.InUse /\ full.Data = Block(PageBlock)
      <3> HIDE DEF next
      <3> QED BY <1>2, <1>4 DEF Sent, ConnectionState
    <2> HIDE DEF full, e, c
    <2>2. CASE PageBlock = LAST_BLOCK
      <3> DEFINE g == [full EXCEPT !.InUse = FALSE, !.state = "Closing"]
      <3>1. /\ g \in ConnectionState /\ g.client = full.client /\ g.SequenceNumberIn = full.SequenceNumberIn
            /\ g.SequenceNumberOut = full.SequenceNumberOut /\ g.Direction = full.Direction
            /\ g.Ready = full.Ready /\ g.Data = full.Data /\ ~g.InUse /\ g.state = "Closing"
        BY <2>1 DEF ConnectionState
      <3>2. f = g
        BY <2>2
      <3> HIDE DEF f, g
      <3> QED BY <2>1, <2>2, <3>1, <3>2
    <2>3. CASE PageBlock # LAST_BLOCK
      <3>1. f = full
        BY <2>3
      <3> HIDE DEF f
      <3> QED BY <1>1, <2>1, <2>3, <3>1
    <2> QED BY <2>2, <2>3
  <1> HIDE DEF f, i, o, b
  <1>6. ClientOK(k, f, i, o, b, next)
    <2> HIDE DEF e, c, k
    <2>1. Filled(f, e, PageBlock)
      BY <1>5 DEF Filled
    <2>2. Awaits(k, e, i, o, b, PageBlock)
      BY <1>1, <1>2 DEF Awaits
    <2>3. ClientOK(k, f, i, o, b, (PageBlock + 1) % 256)
      <3> HIDE DEF next
      <3> QED BY ONLY <2>1, <2>2, BlockNext
    <2> QED BY <2>3
  <1> HIDE DEF next
  <1>7. f.state # "FINWait1" /\ f.state \in {"Established", "Closing"}
        /\ (f.InUse => f.state = "Established")
    BY <1>2, <1>5
  <1>8. CalledOK(f, next)
    BY <1>1, <1>2, <1>3, <1>4, <1>5, <1>6, <1>7 DEF CalledOK, i, o, b
  <1> QED BY <1>8, CalledKeeps

\* Only the client that waits has a buffer that is ready to be sent.
LEMMA OneReady ==
  ASSUME EthInv, NEW i \in Entries, connections[i].Direction = "OUT", connections[i].Ready
  PROVE  /\ connections[i].client \in Clients /\ Waits(clients[connections[i].client])
         /\ connections[i].state \in {"Established", "Closing"}
         /\ \A j \in Entries : connections[j].Direction = "OUT" /\ connections[j].Ready => j = i
  <1>1. \A j \in Entries : connections[j].Direction = "OUT" /\ connections[j].Ready =>
          /\ connections[j].client \in Clients /\ Waits(clients[connections[j].client])
          /\ connections[j].state \in {"Established", "Closing"}
    BY DEF EthInv, BuffersOK, BufferOK, Taking, Giving
  <1>2. \A j \in Entries : connections[j].Direction = "OUT" /\ connections[j].Ready =>
          connections[j].client = connections[i].client
    BY <1>1 DEF EthInv, OneWaits
  <1>3. \A c \in Clients : c # NoClient
    BY EthAssumption
  <1>4. DOMAIN connections = Entries
    BY Typed DEF EthInv
  <1> QED BY <1>1, <1>2, <1>3, <1>4 DEF EthInv, TableOK, OneEach

\* After the second half of TCP_TCPTask the buffers are as they are until the
\* applications are called again.
LEMMA BuffersPassed ==
  ASSUME EthInv, MAX_TCP_CONNECTIONS' = MAX_TCP_CONNECTIONS, connections' = connections, clients' = clients,
         at \notin Entries, at # 0,
         \A j \in Entries : connections[j].Ready /\ connections[j].Direction = "OUT"
                              /\ connections[j].state = "Closing"
                              /\ clients[connections[j].client].request = ForPage => at # Sending
  PROVE  BuffersOK'
  <1>1. EthTypeOK /\ Entries' = Entries /\ MAX_TCP_CONNECTIONS \in Nat /\ at \in 0..(MAX_TCP_CONNECTIONS + 3)
    BY Typed DEF EthInv, Entries
  <1>2. ASSUME NEW j \in Entries PROVE BufferOK(connections[j], j)'
    <2>1. BufferOK(connections[j], j)
      BY DEF EthInv, BuffersOK
    <2>2. at \notin 1..j
      BY <1>1 DEF Entries
    <2>3. at \in (j + 1)..Sending => at = Sending
      BY <1>1 DEF Entries, Sending
    <2> QED BY <2>1, <2>2, <2>3 DEF BufferOK, Taking, Giving
  <1> QED BY <1>1, <1>2 DEF BuffersOK

LEMMA SendBufferKeeps ==
  ASSUME EthInv, Traffic = "plain", MAX_TCP_CONNECTIONS' = MAX_TCP_CONNECTIONS, SendBuffer
  PROVE  EthInv'
  <1> DEFINE ready == {j \in Entries : connections[j].Direction = "OUT" /\ connections[j].Ready}
             i == First(ready)
             e == connections[i]
  <1>1. /\ at = Sending /\ at' = Reading /\ inBank = NoFrame
        /\ FrameIN' = FrameIN /\ message' = message /\ PageBlock' = PageBlock /\ inBank' = inBank
        /\ outBank' = outBank /\ clients' = clients /\ sessions' = sessions
    BY DEF SendBuffer, BusFrame, Prompt
  <1>2. /\ EthTypeOK /\ MAX_TCP_CONNECTIONS \in Nat /\ MAX_TCP_CONNECTIONS >= 1
        /\ Entries' = Entries /\ Entries \subseteq Nat /\ DOMAIN connections = Entries
        /\ \A j \in Entries : connections[j] \in ConnectionState
    BY Typed DEF EthInv, Entries
  <1>3. /\ at # Processing /\ at' # Processing' /\ at' # Processing /\ at' \notin 1..Sending'
        /\ at' \in Processing..Writing' /\ at \notin Entries /\ at # 0 /\ at \in 1..Sending
    BY <1>1, <1>2 DEF Processing, Sending, Reading, Writing, Entries
  <1>4. BusInTurn' /\ FrameInTurn'
    BY <1>1, <1>3 DEF EthInv, BusInTurn, FrameInTurn
  <1>5. OneWaits' /\ FramesTrue'
    BY <1>1 DEF EthInv, OneWaits, FramesTrue
  <1>6. OthersAside'
    BY <1>1, <1>3 DEF EthInv, OthersAside, Unhindered, Asks, Processing
  <1>7. CASE (FrameOUT # NoFrame \/ ready = {}) /\ UNCHANGED <<FrameOUT, connections>>
    <2>1. EthTypeOK'
      BY <1>1, <1>2, <1>3, <1>7 DEF EthTypeOK, Processing
    <2>2. ClientsAgree' /\ TableOK'
      BY <1>1, <1>7 DEF EthInv, ClientsAgree, ViewOK, TableOK
    <2>3. ASSUME NEW j \in Entries, connections[j].Ready, connections[j].Direction = "OUT",
                 connections[j].state = "Closing", clients[connections[j].client].request = ForPage
          PROVE  FALSE
      <3> DEFINE c == connections[j].client
      <3>1. FrameOUT # NoFrame
        BY <1>7, <2>3
      <3>2. c \in Clients /\ Waits(clients[c])
        BY <2>3, OneReady
      <3>3. Mine(connections, c) = connections[j] /\ clients[c] \in Client
        BY <1>2, <3>2, Held DEF EthInv
      <3>4. ClientOK(clients[c], connections[j], From(FrameIN, c), From(outBank, c),
                     Back(FrameOUT, inBank, c), PageBlock)
        BY <3>2, <3>3 DEF EthInv, ClientsAgree, ViewOK
      <3> HIDE DEF c
      <3>5. Served(clients[c], connections[j], From(FrameIN, c), From(outBank, c),
                   Back(FrameOUT, inBank, c), PageBlock)
        BY <2>3, <3>2, <3>4 DEF ClientOK, WaitOK, Asked
      <3>6. From(outBank, c) # "PSH" /\ ToSend(clients[c], connections[j], PageBlock)
        BY <3>5 DEF Served, Acks
      <3>7. connections[j].SequenceNumberOut = Total(ForPage)
        BY <2>3, <3>6 DEF ToSend, c
      <3>8. connections[j].SequenceNumberOut > 1
        BY <3>7, PiecesOf, EthAssumption
      <3>9. ~Asks(outBank, c)
        BY <3>6 DEF Asks, From
      <3>10. Mine(connections, c).SequenceNumberOut > 1 /\ Mine(connections, c).state # "FINWait1"
        BY <2>3, <3>3, <3>8
      <3> QED BY <1>3, <3>1, <3>2, <3>9, <3>10 DEF EthInv, OthersAside, Unhindered
    <2>4. BuffersOK'
      BY <1>1, <1>3, <1>7, <2>3, BuffersPassed
    <2> QED BY <1>4, <1>5, <1>6, <2>1, <2>2, <2>4 DEF EthInv
  <1>8. CASE FrameOUT = NoFrame /\ ready # {}
    <2>1. i \in ready
      BY <1>2, <1>8, FirstIn
    <2>2. /\ i \in Entries /\ e.Direction = "OUT" /\ e.Ready /\ e \in ConnectionState
      BY <1>2, <2>1
    <2>3. /\ FrameOUT' = Segment(e, "ACK", e.Data)
          /\ connections' = [connections EXCEPT ![i].SequenceNumberOut = @ + 1, ![i].Ready = FALSE]
      BY <1>8 DEF SendBuffer
    <2> HIDE DEF i, ready
    <2> DEFINE f == [e EXCEPT !.SequenceNumberOut = @ + 1, !.Ready = FALSE]
               c == e.client
               b == Segment(e, "ACK", e.Data)
    <2>4. connections'[i] = f /\ \A j \in Entries : j # i => connections'[j] = connections[j]
      BY <1>2, <2>2, <2>3 DEF EthTypeOK
    <2>5. /\ f.client = c /\ f.state = e.state /\ f.SequenceNumberIn = e.SequenceNumberIn
          /\ f.SequenceNumberOut = e.SequenceNumberOut + 1 /\ f.Direction = "OUT" /\ ~f.Ready
          /\ f.InUse = e.InUse /\ f.Data = e.Data
          /\ (e.SequenceNumberOut + 1 \in Numbers => f \in ConnectionState)
      BY <2>2 DEF ConnectionState
    <2>6. DOMAIN connections' = Entries
      BY <1>2, <2>3
    <2>7. /\ c \in Clients /\ Waits(clients[c]) /\ e.state \in {"Established", "Closing"}
          /\ \A j \in Entries : connections[j].Direction = "OUT" /\ connections[j].Ready => j = i
      BY <2>2, OneReady
    <2>8. Mine(connections, c) = e /\ clients[c] \in Client
      BY <1>2, <2>2, <2>7, Held DEF EthInv
    <2>9. ClientOK(clients[c], e, From(FrameIN, c), From(outBank, c), NoFrame, PageBlock)
      <3>1. Back(FrameOUT, inBank, c) = NoFrame
        BY <1>1, <1>8, <2>7, FramesApart
      <3> QED BY <2>7, <2>8, <3>1 DEF EthInv, ClientsAgree, ViewOK
    <2>10. b.client = c /\ b.flags = "ACK" /\ b.data = e.Data /\ b.seq = e.SequenceNumberOut
           /\ b.ack = e.SequenceNumberIn
      BY DEF Segment
    <2>11. b \in ToHost
      BY <2>2, <2>7 DEF Segment, ToHost, ConnectionState
    <2> HIDE DEF f, e, c, b
    <2>12. ClientOK(clients[c], f, From(FrameIN, c), From(outBank, c), b, PageBlock)
      <3>1. PageBlock \in 0..255
        BY <1>2 DEF EthTypeOK
      <3> QED BY <2>2, <2>5, <2>7, <2>8, <2>9, <2>10, <3>1, PieceSent
    <2>13. e.SequenceNumberOut + 1 \in Numbers
      <3>1. Served(clients[c], e, From(FrameIN, c), From(outBank, c), NoFrame, PageBlock)
        BY <2>2, <2>7, <2>9 DEF ClientOK, WaitOK, Asked
      <3>2. ToSend(clients[c], e, PageBlock)
        BY <3>1 DEF Served
      <3>3. \/ e.SequenceNumberOut = PageBlock + 1 /\ PageBlock <= LAST_BLOCK
            \/ e.SequenceNumberOut = Total(clients[c].request)
        BY <2>2, <2>7, <3>2 DEF ToSend
      <3>4. LAST_BLOCK \in 0..255 /\ PageBlock \in 0..255
        BY <1>2, EthAssumption DEF EthTypeOK
      <3>5. Total(clients[c].request) \in {1, LAST_BLOCK + 2}
        BY DEF Total
      <3> QED BY <3>3, <3>4, <3>5 DEF Numbers
    <2>14. EthTypeOK'
      <3>1. connections' \in [Entries -> ConnectionState]
        <4>1. \A j \in Entries : connections'[j] \in ConnectionState
          BY <1>2, <2>4, <2>5, <2>13
        <4>2. connections' = [j \in Entries |-> connections'[j]]
          BY <1>2, <2>3 DEF EthTypeOK
        <4> HIDE DEF f
        <4> QED BY <4>1, <4>2
      <3>2. FrameOUT' = b
        BY <2>3 DEF b
      <3> QED BY <1>1, <1>2, <1>3, <2>11, <3>1, <3>2 DEF EthTypeOK, Processing
    <2>15. /\ OneEach(connections') /\ Spare(connections')
           /\ \A d \in Clients : Mine(connections', d) = IF c = d THEN f ELSE Mine(connections, d)
      <3>2. OneEach(connections) /\ Spare(connections)
        BY DEF EthInv, TableOK
      <3>3. \A d \in Clients : d # NoClient
        BY EthAssumption
      <3>4. Changed(connections, connections', i)
        BY <1>2, <2>2, <2>4, <2>6, <3>2 DEF Changed
      <3>5. f.client = connections[i].client /\ (f.client = NoClient => f.state = "Closed")
            /\ connections'[i] = f
        BY <2>4, <2>5, <2>7, <3>3 DEF c, e
      <3>6. /\ OneEach(connections') /\ Spare(connections')
            /\ \A d : d # NoClient => Mine(connections', d) = IF f.client = d THEN f ELSE Mine(connections, d)
        BY <3>4, <3>5, EntryKept
      <3> QED BY <2>5, <3>3, <3>6
    <2>16. ClientsAgree'
      <3>0. FrameOUT' = b /\ inBank' = NoFrame
        BY <1>1, <2>3 DEF b
      <3>1. \A d \in Clients : Back(FrameOUT', inBank', d) = IF d = c THEN b ELSE Back(FrameOUT, inBank, d)
        BY <1>1, <1>8, <2>10, <3>0, FramesApart
      <3>2. ASSUME NEW d \in Clients PROVE
            ClientOK(clients'[d], Mine(connections', d), From(FrameIN', d), From(outBank', d),
                     Back(FrameOUT', inBank', d), PageBlock')
        <4>1. CASE d = c
          BY <1>1, <2>12, <2>15, <3>1, <4>1
        <4>2. CASE d # c
          <5>1. ClientOK(clients[d], Mine(connections, d), From(FrameIN, d), From(outBank, d),
                         Back(FrameOUT, inBank, d), PageBlock)
            BY DEF EthInv, ClientsAgree, ViewOK
          <5> QED BY <1>1, <2>15, <3>1, <4>2, <5>1
        <4> QED BY <4>1, <4>2
      <3> QED BY <3>2 DEF ClientsAgree, ViewOK
    <2>17. TableOK'
      BY <2>15 DEF TableOK
    <2>18. BuffersOK'
      <3>1. ASSUME NEW j \in Entries PROVE BufferOK(connections[j], j)'
        <4>1. BufferOK(connections[j], j)
          BY DEF EthInv, BuffersOK
        <4>2. CASE j = i
          <5>1. /\ ~connections'[j].Ready /\ connections'[j].InUse = connections[j].InUse
                /\ connections'[j].client = connections[j].client
                /\ connections'[j].state = connections[j].state
                /\ connections'[j].Direction = connections[j].Direction
            BY <2>2, <2>4, <2>5, <4>2 DEF e, c
          <5> QED BY <1>1, <4>1, <5>1 DEF BufferOK
        <4>3. CASE j # i
          <5>1. /\ connections'[j] = connections[j]
                /\ ~(connections[j].Ready /\ connections[j].Direction = "OUT")
            BY <2>4, <2>7, <4>3
          <5>2. at \notin 1..j
            BY <1>1, <1>2 DEF Entries, Sending
          <5>3. ~connections[j].Ready
            BY <4>1, <5>1, <5>2 DEF BufferOK, Taking, Giving
          <5> QED BY <1>1, <4>1, <5>1, <5>3 DEF BufferOK
        <4> QED BY <4>2, <4>3
      <3> QED BY <1>2, <3>1 DEF BuffersOK
    <2> QED BY <1>4, <1>5, <1>6, <2>14, <2>16, <2>17, <2>18 DEF EthInv
  <1> QED BY <1>7, <1>8 DEF SendBuffer

-----------------------------------------------------------------------------
(* RNDIS_Device_USBTask and the control requests.                          *)

LEMMA ReadFrameKeeps ==
  ASSUME EthInv, MAX_TCP_CONNECTIONS' = MAX_TCP_CONNECTIONS, ReadFrame
  PROVE  EthInv'
  <1>1. /\ at = Reading /\ at' = Writing /\ inBank = NoFrame /\ FrameOUT' = FrameOUT
        /\ message' = message /\ PageBlock' = PageBlock /\ inBank' = inBank
        /\ connections' = connections /\ clients' = clients /\ sessions' = sessions
    BY Typed DEF ReadFrame, EthInv, BusInTurn, Processing, Reading
  <1>2. /\ EthTypeOK /\ MAX_TCP_CONNECTIONS \in Nat /\ MAX_TCP_CONNECTIONS >= 1
        /\ Entries' = Entries /\ \A c \in Clients : clients[c] \in Client
    BY Typed DEF EthInv, Entries
  <1>3. /\ at # Processing /\ at' # Processing /\ at' \notin 1..Sending' /\ at' \in Processing..Writing'
        /\ at \notin Entries /\ at # 0 /\ at # Sending
    BY <1>1, <1>2 DEF Processing, Sending, Reading, Writing, Entries
  <1>4. BuffersOK'
    BY <1>1, <1>3, BuffersPassed
  <1>5. OneWaits' /\ TableOK' /\ BusInTurn'
    BY <1>1 DEF EthInv, OneWaits, TableOK, BusInTurn
  <1>6. CASE UNCHANGED <<FrameIN, outBank>>
    <2>1. EthTypeOK'
      BY <1>1, <1>2, <1>3, <1>6 DEF EthTypeOK, Processing
    <2>2. ClientsAgree' /\ FramesTrue'
      BY <1>1, <1>6 DEF EthInv, ClientsAgree, ViewOK, FramesTrue
    <2>3. FrameInTurn'
      BY <1>1, <1>3, <1>6 DEF EthInv, FrameInTurn
    <2>4. OthersAside'
      BY <1>1, <1>3, <1>6 DEF EthInv, OthersAside, Unhindered, Asks
    <2> QED BY <1>4, <1>5, <2>1, <2>2, <2>3, <2>4 DEF EthInv
  <1>7. CASE ~message /\ FrameIN = NoFrame /\ FrameIN' = outBank /\ outBank' = NoFrame
    <2>1. EthTypeOK'
      BY <1>1, <1>2, <1>3, <1>7 DEF EthTypeOK, Processing
    <2>2. ClientsAgree'
      <3>1. ASSUME NEW d \in Clients PROVE ViewOK(d)'
        <4>1. ClientOK(clients[d], Mine(connections, d), From(FrameIN, d), From(outBank, d),
                       Back(FrameOUT, inBank, d), PageBlock)
          BY DEF EthInv, ClientsAgree, ViewOK
        <4>2. From(FrameIN, d) = "none" /\ From(outBank', d) = "none" /\ From(FrameIN', d) = From(outBank, d)
          BY <1>7, FramesApart
        <4>3. ClientOK(clients[d], Mine(connections, d), From(outBank, d), "none",
                       Back(FrameOUT, inBank, d), PageBlock)
          BY <1>2, <4>1, <4>2, ReadShift
        <4> QED BY <1>1, <4>2, <4>3 DEF ViewOK
      <3> QED BY <3>1 DEF ClientsAgree
    <2>3. FramesTrue'
      BY <1>1, <1>7, FramesApart DEF EthInv, FramesTrue
    <2>4. FrameInTurn'
      BY <1>1, <1>3, <1>7 DEF FrameInTurn
    <2>5. OthersAside'
      <3>1. ASSUME NEW d \in Clients, Waits(clients'[d]) PROVE Unhindered(d)'
        <4>1. Unhindered(d)
          BY <1>1, <3>1 DEF EthInv, OthersAside
        <4>2. outBank'.flags = "none"
          BY <1>7, FramesApart
        <4>3. FrameIN'.flags \in {"none", "ACK"} \/ Asks(FrameIN', d)
          BY <1>7, <4>1 DEF Unhindered
        <4>4. ~message'
          BY <1>1, <1>7
        <4> QED BY <1>3, <4>2, <4>3, <4>4 DEF Unhindered
      <3> QED BY <3>1 DEF OthersAside
    <2> QED BY <1>4, <1>5, <2>1, <2>2, <2>3, <2>4, <2>5 DEF EthInv
  <1> QED BY <1>6, <1>7 DEF ReadFrame

LEMMA WriteFrameKeeps ==
  ASSUME EthInv, MAX_TCP_CONNECTIONS' = MAX_TCP_CONNECTIONS, WriteFrame
  PROVE  EthInv'
  <1>1. /\ at = Writing /\ at' = Processing
        /\ FrameIN' = FrameIN /\ outBank' = outBank
        /\ message' = message /\ PageBlock' = PageBlock
        /\ connections' = connections /\ clients' = clients /\ sessions' = sessions
    BY DEF WriteFrame
  <1>2. /\ EthTypeOK /\ MAX_TCP_CONNECTIONS \in Nat /\ MAX_TCP_CONNECTIONS >= 1
        /\ Entries' = Entries
    BY Typed DEF EthInv, Entries
  <1>3. /\ at # Processing /\ at' = 0 /\ Processing' = Processing /\ at' \notin 1..Sending'
        /\ at' \in Processing..Writing' /\ at \notin Entries /\ at # 0 /\ at # Sending
    BY <1>1, <1>2 DEF Processing, Sending, Reading, Writing, Entries
  <1>4. inBank = NoFrame
    BY <1>3 DEF EthInv, BusInTurn
  <1>5. BuffersOK'
    BY <1>1, <1>3, BuffersPassed
  <1>6. OneWaits' /\ TableOK' /\ FramesTrue'
    BY <1>1 DEF EthInv, OneWaits, TableOK, FramesTrue
  <1>7. CASE message /\ UNCHANGED <<FrameOUT, inBank>>
    <2>1. EthTypeOK'
      BY <1>1, <1>2, <1>3, <1>7 DEF EthTypeOK, Processing
    <2>2. ClientsAgree'
      BY <1>1, <1>7 DEF EthInv, ClientsAgree, ViewOK
    <2>3. BusInTurn'
      BY <1>4, <1>7 DEF BusInTurn
    <2>4. FrameInTurn'
      BY <1>1, <1>3, <1>7 DEF EthInv, FrameInTurn
    <2>5. OthersAside'
      BY <1>1, <1>7 DEF EthInv, OthersAside, Unhindered, Asks
    <2> QED BY <1>5, <1>6, <2>1, <2>2, <2>3, <2>4, <2>5 DEF EthInv
  <1>8. CASE ~message /\ inBank' = FrameOUT /\ FrameOUT' = NoFrame
    <2>1. EthTypeOK'
      BY <1>1, <1>2, <1>3, <1>8 DEF EthTypeOK, Processing
    <2>2. ClientsAgree'
      <3>1. ASSUME NEW d \in Clients PROVE ViewOK(d)'
        <4>1. Back(FrameOUT', inBank', d) = Back(FrameOUT, inBank, d)
          BY <1>4, <1>8, FramesApart
        <4> QED BY <1>1, <4>1 DEF EthInv, ClientsAgree, ViewOK
      <3> QED BY <3>1 DEF ClientsAgree
    <2>3. BusInTurn'
      BY <1>1, <1>8 DEF BusInTurn, Processing
    <2>4. FrameInTurn'
      BY <1>1, <1>8 DEF FrameInTurn, Processing
    <2>5. OthersAside'
      <3>1. ASSUME NEW d \in Clients, Waits(clients'[d]) PROVE Unhindered(d)'
        <4>1. Unhindered(d)
          BY <1>1, <3>1 DEF EthInv, OthersAside
        <4> QED BY <1>1, <1>3, <1>8, <4>1 DEF Unhindered, Asks
      <3> QED BY <3>1 DEF OthersAside
    <2> QED BY <1>5, <1>6, <2>1, <2>2, <2>3, <2>4, <2>5 DEF EthInv
  <1>9. QED BY <1>4, <1>7, <1>8 DEF WriteFrame

\* A client waits in the sense of the actions when it waits in the sense of the
\* invariant.
LEMMA WaitsAlike ==
  ASSUME EthInv, NEW c \in Clients
  PROVE  Waiting(c) <=> Waits(clients[c])
  <1>1. clients[c] \in Client
    BY Typed DEF EthInv
  <1>2. clients[c].request \in Requests \cup {Nothing}
    BY <1>1 DEF Client
  <1> QED BY <1>2, NoAnswer DEF Waiting, Waits

LEMMA ControlKeeps ==
  ASSUME EthInv, Traffic = "plain", MAX_TCP_CONNECTIONS' = MAX_TCP_CONNECTIONS,
         KeepAlive \/ GetResponse
  PROVE  EthInv'
  <1>1. /\ at = Processing /\ at' = at /\ FrameIN' = FrameIN /\ FrameOUT' = FrameOUT
        /\ message' \in BOOLEAN /\ PageBlock' = PageBlock /\ connections' = connections
        /\ inBank' = inBank /\ outBank' = outBank /\ clients' = clients /\ sessions' = sessions
    BY DEF KeepAlive, GetResponse, BusFrame
  <1>2. EthTypeOK /\ Entries' = Entries /\ Sending' = Sending /\ Writing' = Writing
    BY DEF EthInv, Entries, Sending, Writing
  <1>3. EthTypeOK'
    BY <1>1, <1>2 DEF EthTypeOK, Processing
  <1>4. ClientsAgree' /\ TableOK' /\ OneWaits' /\ FramesTrue'
    BY <1>1 DEF EthInv, ClientsAgree, ViewOK, TableOK, OneWaits, FramesTrue
  <1>5. BusInTurn' /\ FrameInTurn'
    BY <1>1 DEF EthInv, BusInTurn, FrameInTurn, Processing
  <1>6. OthersAside'
    <2>1. CASE KeepAlive
      <3>1. \A c \in Clients : ~Waits(clients'[c])
        BY <1>1, <2>1, WaitsAlike DEF KeepAlive, Undisturbed
      <3> QED BY <3>1 DEF OthersAside
    <2>2. CASE GetResponse
      <3>1. message' = FALSE
        BY <2>2 DEF GetResponse
      <3> QED BY <1>1, <1>2, <3>1 DEF EthInv, OthersAside, Unhindered, Asks, Processing
    <2> QED BY <2>1, <2>2
  <1>7. BuffersOK'
    <2>1. ASSUME NEW j \in Entries PROVE BufferOK(connections[j], j)'
      <3>1. BufferOK(connections[j], j)
        BY DEF EthInv, BuffersOK
      <3> QED BY <1>1, <1>2, <3>1 DEF BufferOK, Taking, Giving
    <2> QED BY <1>2, <2>1 DEF BuffersOK
  <1> QED BY <1>3, <1>4, <1>5, <1>6, <1>7 DEF EthInv

-----------------------------------------------------------------------------
(* The host takes a frame.                                                 *)

\* What the client makes of a segment that is for it.
Follows(k, l, e, i, o, p) ==
  /\ l \in Client /\ ClientOK(l, e, i, o, NoFrame, p) /\ l.request = k.request
  /\ Waits(l) => Waits(k)
  /\ Waits(k) => Waits(l) \/ e.state = "FINWait1"
  /\ k.state \in {"open", "finWait"} /\ ~Waits(k) =>
       l.state = k.state \/ (k.state = "finWait" /\ l.state = "half")

LEMMA SegmentSeen ==
  ASSUME NEW k \in Client, NEW e \in ConnectionState \cup {Unused}, NEW i, NEW o, NEW s \in ToHost,
         NEW p, ClientOK(k, e, i, o, s, p)
  PROVE  Follows(k, After(k, s), e, i, o, p)
  <1> DEFINE l == After(k, s)
  <1>1. s.flags \in {"SYN", "ACK", "FIN", "RST"} /\ s.data \in Payload
    BY DEF ToHost
  <1>2. /\ k.next \in Nat /\ 1 \in Numbers /\ e.SequenceNumberOut \in Numbers
        /\ k.request \in Requests \cup {Nothing} /\ k.got \in Seq(Payload)
    <2>1. 0 \in Numbers /\ 1 \in Numbers /\ k.next \in Nat
      BY NumbersOf, EthAssumption DEF Numbers
    <2>2. e.SequenceNumberOut \in Numbers
      BY <2>1 DEF ConnectionState, Unused
    <2>3. k.request \in Requests \cup {Nothing} /\ k.got \in Seq(Payload)
      BY DEF Client
    <2> QED BY <2>1, <2>2, <2>3
  <1>3. CASE s.flags = "SYN"
    <2>1. /\ ClientOK(l, e, i, o, NoFrame, p) /\ ~Waits(k) /\ ~Waits(l)
          /\ l = Joined(k)
          /\ k.state = "synSent"
      BY ONLY k \in Client, ClientOK(k, e, i, o, s, p), <1>3, SynSeen
    <2>2. l \in Client /\ l.request = k.request
      BY <1>1, <1>2, <2>1, TakenFields
    <2> QED BY <2>1, <2>2 DEF Follows
  <1>4. CASE s.flags = "RST"
    <2>1. ClientOK(l, e, i, o, NoFrame, p) /\ l = k
      BY <1>4, RstSeen
    <2> QED BY <2>1 DEF Follows
  <1>5. CASE s.flags = "ACK" /\ s.data # Nothing
    <2>1. /\ ClientOK(l, e, i, o, NoFrame, p) /\ Waits(k) /\ Waits(l)
          /\ l = Fed(k, s.data)
          /\ k.next + 1 = e.SequenceNumberOut
      BY ONLY k \in Client, ClientOK(k, e, i, o, s, p), <1>1, <1>5, PieceSeen
    <2>2. l \in Client /\ l.request = k.request
      <3>1. k.next + 1 \in Numbers
        BY <1>2, <2>1
      <3>2. Fed(k, s.data) \in Client /\ Fed(k, s.data).request = k.request
        BY ONLY <1>1, <1>2, <3>1, k \in Client, TakenFields
      <3> QED BY <2>1, <3>2
    <2> QED BY <2>1, <2>2 DEF Follows
  <1>6. CASE s.flags = "ACK" /\ s.data = Nothing
    <2>1. /\ ClientOK(l, e, i, o, NoFrame, p)
          /\ \/ l = k
             \/ ~Waits(k) /\ ~Waits(l) /\ k.state = "lastAck" /\ l = Ended(k)
      BY <1>6, ReceiptSeen DEF Receipt
    <2>2. l \in Client /\ l.request = k.request
      BY <1>1, <1>2, <2>1, TakenFields
    <2> QED BY <2>1, <2>2 DEF Follows
  <1>7. CASE s.flags = "FIN"
    <2>1. /\ ClientOK(l, e, i, o, NoFrame, p) /\ ~Waits(l)
          /\ \/ Waits(k) /\ l = Told(k)
                /\ k.next = Total(k.request) + 1 /\ e.state = "FINWait1"
             \/ ~Waits(k) /\ k.state = "finWait" /\ l = Halved(k)
      BY ONLY k \in Client, ClientOK(k, e, i, o, s, p), <1>7, FinSeen
    <2>2. l \in Client /\ l.request = k.request
      <3>1. Total(k.request) \in {1, LAST_BLOCK + 2}
        BY DEF Total
      <3>2. k.next = Total(k.request) + 1 => k.next + 1 \in Numbers
        BY <3>1, EthAssumption DEF Numbers
      <3> QED BY <1>1, <1>2, <2>1, <3>2, TakenFields
    <2>3. l.state = "half" \/ Waits(k)
      BY <1>1, <1>2, <2>1, TakenFields
    <2> QED BY <2>1, <2>2, <2>3 DEF Follows
  <1> QED BY <1>1, <1>3, <1>4, <1>5, <1>6, <1>7

LEMMA TakeFrameKeeps ==
  ASSUME EthInv, Traffic = "plain", MAX_TCP_CONNECTIONS' = MAX_TCP_CONNECTIONS, TakeFrame
  PROVE  EthInv'
  <1>1. /\ at = Processing /\ at' = at /\ FrameIN' = FrameIN /\ FrameOUT' = FrameOUT /\ FrameOUT = NoFrame
        /\ message' = message /\ PageBlock' = PageBlock /\ connections' = connections
        /\ inBank # NoFrame /\ inBank' = NoFrame /\ outBank' = outBank /\ sessions' = sessions
    BY DEF TakeFrame, deviceVars, EthInv, BusInTurn
  <1>2. EthTypeOK /\ Entries' = Entries /\ Sending' = Sending /\ Writing' = Writing
    BY DEF EthInv, Entries, Sending, Writing
  <1>3. TableOK' /\ BusInTurn' /\ FrameInTurn'
    BY <1>1 DEF EthInv, TableOK, BusInTurn, FrameInTurn, Processing
  <1>4. CASE inBank = Pong
    <2>1. clients' = clients
      BY <1>4 DEF TakeFrame
    <2>2. EthTypeOK'
      BY <1>1, <1>2, <2>1 DEF EthTypeOK, Processing
    <2>3. ASSUME NEW d \in Clients PROVE ViewOK(d)'
      <3>1. Back(FrameOUT', inBank', d) = Back(FrameOUT, inBank, d)
        BY <1>1, <1>4, FramesApart
      <3> QED BY <1>1, <2>1, <3>1 DEF EthInv, ClientsAgree, ViewOK
    <2>4. OneWaits' /\ FramesTrue'
      BY <1>1, <2>1 DEF EthInv, OneWaits, FramesTrue
    <2>5. OthersAside'
      BY <1>1, <1>2, <2>1 DEF EthInv, OthersAside, Unhindered, Asks, Processing
    <2>6. BuffersOK'
      <3>1. ASSUME NEW j \in Entries PROVE BufferOK(connections[j], j)'
        <4>1. BufferOK(connections[j], j)
          BY DEF EthInv, BuffersOK
        <4> QED BY <1>1, <1>2, <2>1, <4>1 DEF BufferOK, Taking, Giving
      <3> QED BY <1>2, <3>1 DEF BuffersOK
    <2> QED BY <1>3, <2>2, <2>3, <2>4, <2>5, <2>6 DEF EthInv, ClientsAgree
  <1>5. CASE inBank # Pong
    <2> DEFINE c == inBank.client
               k == clients[c]
               l == After(k, inBank)
               e == Mine(connections, c)
    <2>1. /\ inBank \in ToHost /\ c \in Clients /\ k \in Client /\ DOMAIN connections = Entries
          /\ \A j \in Entries : connections[j] \in ConnectionState
      BY <1>1, <1>2, <1>5, Typed DEF EthTypeOK, ToHost
    <2>2. clients' = [clients EXCEPT ![c] = l]
      BY <1>5 DEF TakeFrame
    <2>3. e \in ConnectionState \cup {Unused}
      BY <1>2, <2>1, Typed, FirstIn DEF Mine, Owned
    <2>4. ClientOK(k, e, From(FrameIN, c), From(outBank, c), inBank, PageBlock)
      <3>1. Back(FrameOUT, inBank, c) = inBank
        BY <1>1, <2>1, FramesApart
      <3> QED BY <2>1, <3>1 DEF EthInv, ClientsAgree, ViewOK
    <2>5. Follows(k, l, e, From(FrameIN, c), From(outBank, c), PageBlock)
      <3> HIDE DEF k, e, c
      <3> QED BY <2>1, <2>3, <2>4, SegmentSeen DEF l
    <2>6. clients'[c] = l /\ \A d \in Clients : d # c => clients'[d] = clients[d]
      BY <1>2, <2>1, <2>2 DEF EthTypeOK
    <2> HIDE DEF l
    <2>7. EthTypeOK'
      <3>1. clients' \in [Clients -> Client]
        BY <1>2, <2>2, <2>5 DEF EthTypeOK, Follows
      <3> QED BY <1>1, <1>2, <3>1 DEF EthTypeOK, Processing
    <2>8. ClientsAgree'
      <3>1. ASSUME NEW d \in Clients PROVE ViewOK(d)'
        <4>1. CASE d = c
          <5>1. Back(FrameOUT', inBank', d) = NoFrame
            BY <1>1, FramesApart
          <5> QED BY <1>1, <2>5, <2>6, <4>1, <5>1 DEF ViewOK, Follows
        <4>2. CASE d # c
          <5>1. Back(FrameOUT', inBank', d) = Back(FrameOUT, inBank, d)
            BY <1>1, <4>2, FramesApart
          <5> QED BY <1>1, <2>6, <4>2, <5>1 DEF EthInv, ClientsAgree, ViewOK
        <4> QED BY <4>1, <4>2
      <3> QED BY <3>1 DEF ClientsAgree
    <2>9. \A d \in Clients : /\ Waits(clients'[d]) => Waits(clients[d])
                             /\ clients'[d].request = clients[d].request
      BY <2>5, <2>6 DEF Follows
    <2>10. OneWaits' /\ FramesTrue'
      BY <1>1, <2>9 DEF EthInv, OneWaits, FramesTrue
    <2>11. OthersAside'
      BY <1>1, <1>2, <2>9 DEF EthInv, OthersAside, Unhindered, Asks, Processing
    <2>12. BuffersOK'
      <3>1. ASSUME NEW j \in Entries PROVE BufferOK(connections[j], j)'
        <4>1. BufferOK(connections[j], j)
          BY DEF EthInv, BuffersOK
        <4>2. at = 0 /\ at' = 0
          BY <1>1 DEF Processing
        <4>3. at \notin 1..j /\ j \in Nat
          BY <4>2 DEF Entries
        <4>4. ASSUME connections[j].client = c, Waits(k), connections[j].state # "FINWait1" PROVE Waits(l)
          <5>1. e = connections[j]
            BY <2>1, <4>4, Held DEF EthInv
          <5> QED BY <2>5, <4>4, <5>1 DEF Follows
        <4>5. ASSUME Waits(clients[connections[j].client]), connections[j].client \in Clients,
                     connections[j].state # "FINWait1"
              PROVE  Waits(clients'[connections[j].client])
          <5>1. CASE connections[j].client = c
            BY <2>6, <4>4, <4>5, <5>1
          <5>2. CASE connections[j].client # c
            BY <2>6, <4>5, <5>2
          <5> QED BY <5>1, <5>2
        <4>6. connections[j].client \in Clients =>
                clients'[connections[j].client].request = clients[connections[j].client].request
          BY <2>9
        <4> QED BY <1>1, <1>2, <4>1, <4>2, <4>3, <4>5, <4>6 DEF BufferOK, Taking, Giving
      <3> QED BY <1>2, <3>1 DEF BuffersOK
    <2> QED BY <1>3, <2>7, <2>8, <2>10, <2>11, <2>12 DEF EthInv
  <1> QED BY <1>4, <1>5

-----------------------------------------------------------------------------
(* A client sends.                                                         *)

\* What is to be shown of a segment of client c, and of the client l it leaves.
SentOK(c, flags, data, l) ==
  LET k == clients[c] IN
  /\ c \in Clients /\ flags \in {"SYN", "ACK", "PSH", "FIN", "RST"} /\ data \in Payload /\ l \in Client
  /\ Send(c, flags, data, l) /\ sessions' \in 0..MaxSessions
  /\ ClientOK(l, Mine(connections, c), From(FrameIN, c), flags, Back(FrameOUT, inBank, c), PageBlock)
  /\ data = IF flags = "PSH" THEN l.request ELSE Nothing
  /\ l.request = k.request \/ From(FrameIN, c) # "PSH"
  /\ \/ flags = "ACK" /\ l.state = k.state /\ l.request = k.request
     \/ (\A d \in Clients : ~Waits(clients[d])) /\ (Waits(l) => flags = "PSH")
  /\ \A j \in Entries : connections[j].client = c /\ connections[j].Ready =>
       l.request = k.request /\ (l.state = k.state \/ l.state \in {"open", "finWait"})

LEMMA SentKeeps ==
  ASSUME EthInv, Traffic = "plain", MAX_TCP_CONNECTIONS' = MAX_TCP_CONNECTIONS,
         NEW c, NEW flags, NEW data, NEW l, SentOK(c, flags, data, l)
  PROVE  EthInv'
  <1> DEFINE k == clients[c]
             frame == [client |-> c, flags |-> flags, data |-> data]
             others == \A d \in Clients : ~Waits(clients[d])
  <1>1. /\ c \in Clients /\ flags \in {"SYN", "ACK", "PSH", "FIN", "RST"} /\ data \in Payload
        /\ l \in Client /\ sessions' \in 0..MaxSessions
        /\ ClientOK(l, Mine(connections, c), From(FrameIN, c), flags, Back(FrameOUT, inBank, c), PageBlock)
        /\ data = IF flags = "PSH" THEN l.request ELSE Nothing
        /\ l.request = k.request \/ From(FrameIN, c) # "PSH"
        /\ \/ flags = "ACK" /\ l.state = k.state /\ l.request = k.request
           \/ others /\ (Waits(l) => flags = "PSH")
        /\ \A j \in Entries : connections[j].client = c /\ connections[j].Ready =>
             l.request = k.request /\ (l.state = k.state \/ l.state \in {"open", "finWait"})
    BY DEF SentOK
  <1>2. /\ outBank = NoFrame /\ outBank' = frame /\ clients' = [clients EXCEPT ![c] = l]
        /\ at' = at /\ FrameIN' = FrameIN /\ FrameOUT' = FrameOUT /\ message' = message
        /\ connections' = connections /\ PageBlock' = PageBlock /\ inBank' = inBank
    BY DEF SentOK, Send, Put, deviceVars
  <1>3. frame.client = c /\ frame.flags = flags /\ frame.data = data
    OBVIOUS
  <1>4. EthTypeOK /\ Entries' = Entries /\ Sending' = Sending /\ Writing' = Writing
        /\ \A d \in Clients : d # NoClient
    BY EthAssumption DEF EthInv, Entries, Sending, Writing
  <1>5. clients'[c] = l /\ \A d \in Clients : d # c => clients'[d] = clients[d]
    BY <1>1, <1>2, <1>4 DEF EthTypeOK
  <1>6. EthTypeOK'
    <2>1. frame \in ToDevice
      BY <1>1 DEF ToDevice
    <2>2. clients' \in [Clients -> Client]
      BY <1>1, <1>2, <1>4 DEF EthTypeOK
    <2> HIDE DEF frame
    <2> QED BY <1>1, <1>2, <1>4, <2>1, <2>2 DEF EthTypeOK, Processing
  <1> HIDE DEF frame
  <1>7. ClientsAgree'
    <2>1. ASSUME NEW d \in Clients PROVE ViewOK(d)'
      <3>1. CASE d = c
        <4>1. From(outBank', d) = flags
          BY <1>2, <1>3, <3>1 DEF From
        <4> QED BY <1>1, <1>2, <1>5, <3>1, <4>1 DEF ViewOK
      <3>2. CASE d # c
        <4>1. From(outBank', d) = From(outBank, d)
          BY <1>2, <1>3, <3>2, FramesApart DEF From
        <4> QED BY <1>2, <1>5, <3>2, <4>1 DEF EthInv, ClientsAgree, ViewOK
      <3> QED BY <3>1, <3>2
    <2> QED BY <2>1 DEF ClientsAgree
  <1>8. TableOK' /\ BusInTurn' /\ FrameInTurn'
    BY <1>2 DEF EthInv, TableOK, BusInTurn, FrameInTurn, Processing
  <1>9. FramesTrue'
    <2>1. ASSUME NEW d \in Clients, FrameIN'.client = d PROVE Carries(FrameIN', clients'[d].request)
      <3>1. Carries(FrameIN, clients[d].request)
        BY <1>2, <2>1 DEF EthInv, FramesTrue
      <3>2. CASE d = c
        <4>1. From(FrameIN, c) = FrameIN.flags
          BY <1>2, <2>1, <3>2 DEF From
        <4> QED BY <1>1, <1>2, <1>5, <3>1, <3>2, <4>1 DEF Carries
      <3>3. CASE d # c
        BY <1>2, <1>5, <3>1, <3>3
      <3> QED BY <3>2, <3>3
    <2>2. ASSUME NEW d \in Clients, outBank'.client = d PROVE Carries(outBank', clients'[d].request)
      BY <1>1, <1>2, <1>3, <1>5, <2>2 DEF Carries
    <2> QED BY <2>1, <2>2 DEF FramesTrue
  <1>10. CASE flags = "ACK" /\ l.state = k.state /\ l.request = k.request
    <2>1. \A d \in Clients : /\ Waits(clients'[d]) <=> Waits(clients[d])
                             /\ clients'[d].state = clients[d].state
                             /\ clients'[d].request = clients[d].request
      BY <1>5, <1>10 DEF Waits
    <2>2. OneWaits'
      BY <2>1 DEF EthInv, OneWaits
    <2>3. OthersAside'
      <3>1. ASSUME NEW d \in Clients, Waits(clients'[d]) PROVE Unhindered(d)'
        <4>1. Unhindered(d)
          BY <2>1, <3>1 DEF EthInv, OthersAside
        <4>2. ~Asks(outBank, d)
          BY <1>2, FramesApart DEF Asks
        <4>3. outBank'.flags = "ACK" /\ Asks(FrameIN', d) = Asks(FrameIN, d)
          BY <1>2, <1>3, <1>10
        <4> QED BY <1>2, <1>4, <4>1, <4>2, <4>3 DEF Unhindered, Processing
      <3> QED BY <3>1 DEF OthersAside
    <2>4. BuffersOK'
      <3>1. ASSUME NEW j \in Entries PROVE BufferOK(connections[j], j)'
        <4>1. BufferOK(connections[j], j)
          BY DEF EthInv, BuffersOK
        <4> QED BY <1>2, <1>4, <2>1, <4>1 DEF BufferOK, Taking, Giving
      <3> QED BY <1>4, <3>1 DEF BuffersOK
    <2> QED BY <1>6, <1>7, <1>8, <1>9, <2>2, <2>3, <2>4 DEF EthInv
  <1>11. CASE others /\ (Waits(l) => flags = "PSH")
    <2>1. \A d \in Clients : Waits(clients'[d]) => d = c /\ flags = "PSH"
      BY <1>5, <1>11
    <2>2. OneWaits'
      BY <2>1 DEF OneWaits
    <2>3. OthersAside'
      BY <1>2, <1>3, <2>1 DEF OthersAside, Unhindered, Asks
    <2>4. BuffersOK'
      <3>1. ASSUME NEW j \in Entries PROVE BufferOK(connections[j], j)'
        <4>1. BufferOK(connections[j], j)
          BY DEF EthInv, BuffersOK
        <4>2. ~connections[j].InUse
          BY <1>11, <4>1 DEF BufferOK
        <4>3. connections[j].Ready => connections[j].client \in Clients
                                      /\ Taking(connections[j], j, clients[connections[j].client])
          BY <1>11, <4>1 DEF BufferOK, Giving
        <4>4. connections[j].Ready => connections[j].client \in Clients
                                      /\ Taking(connections'[j], j, clients'[connections[j].client])
          BY <1>1, <1>2, <1>5, <4>3 DEF Taking
        <4>5. connections[j].Ready => connections[j].client \in Clients
                                      /\ Taking(connections[j], j, clients[connections[j].client])'
          BY <1>2, <4>4 DEF Taking
        <4> QED BY <1>2, <4>2, <4>5 DEF BufferOK
      <3> QED BY <1>4, <3>1 DEF BuffersOK
    <2> QED BY <1>6, <1>7, <1>8, <1>9, <2>2, <2>3, <2>4 DEF EthInv
  <1> HIDE DEF others
  <1> QED BY <1>1, <1>10, <1>11

\* What the invariant says of a client that may send.
LEMMA Sender ==
  ASSUME EthInv, NEW c \in Clients, outBank = NoFrame
  PROVE  /\ clients[c] \in Client
         /\ ClientOK(clients[c], Mine(connections, c), From(FrameIN, c), "none",
                     Back(FrameOUT, inBank, c), PageBlock)
  BY Typed, FramesApart DEF EthInv, ClientsAgree, ViewOK

\* A request is read once.
LEMMA NothingAsked ==
  ASSUME NEW k \in Client, NEW e, NEW i, NEW b, NEW p, ClientOK(k, e, i, "none", b, p),
         k.state = "closed" \/ (k.state = "open" /\ k.request = Nothing)
  PROVE  i # "PSH" /\ ~Waits(k)
  <1>1. ~Waits(k)
    BY GetsApart DEF Waits
  <1>2. CASE k.state = "closed"
    BY <1>1, <1>2 DEF ClientOK, RestOK, ClosedOK, None
  <1>3. CASE k.state = "open" /\ k.request = Nothing
    BY <1>1, <1>3, RequestsApart DEF ClientOK, RestOK, OpenOK, None, Only
  <1> QED BY <1>1, <1>2, <1>3

\* The buffer of a client whose request is none, or is done with, is empty.
LEMMA BufferFree ==
  ASSUME EthInv, NEW c \in Clients, ~Waits(clients[c]),
         clients[c].request = Nothing \/ clients[c].state \notin {"open", "finWait"}
  PROVE  /\ \A j \in Entries : connections[j].client = c => ~connections[j].Ready /\ ~connections[j].InUse
         /\ ~Mine(connections, c).Ready /\ ~Mine(connections, c).InUse
  <1>1. \A j \in Entries : connections[j].client = c => ~connections[j].Ready /\ ~connections[j].InUse
    BY DEF EthInv, BuffersOK, BufferOK, Taking, Giving
  <1>2. CASE EntriesOf(c) = {}
    BY <1>1, <1>2, Typed DEF EthInv, Mine, Unused
  <1>3. CASE EntriesOf(c) # {}
    BY <1>1, <1>3, SenderHeld
  <1> QED BY <1>1, <1>2, <1>3

\* What is left of the numbers a client may still use.
LEMMA SentSoFar ==
  ASSUME NEW k \in Client, NEW e, NEW i, NEW o, NEW b, NEW p, ClientOK(k, e, i, o, b, p),
         k.state \in {"open", "finSeen"}
  PROVE  k.sent + 1 \in Numbers
  <1>1. k.sent \in {1, 2}
    BY DEF ClientOK, WaitOK, RestOK, OpenOK, FinSeenOK
  <1> QED BY <1>1, EthAssumption DEF Numbers

LEMMA SendPingKeeps ==
  ASSUME EthInv, Traffic = "plain", MAX_TCP_CONNECTIONS' = MAX_TCP_CONNECTIONS, SendPing
  PROVE  EthInv'
  <1>1. /\ outBank = NoFrame /\ outBank' = Ping /\ clients' = clients
        /\ at' = at /\ FrameIN' = FrameIN /\ FrameOUT' = FrameOUT /\ message' = message
        /\ connections' = connections /\ PageBlock' = PageBlock /\ inBank' = inBank
        /\ sessions' = sessions
    BY DEF SendPing, Put, deviceVars
  <1>2. \A d \in Clients : ~Waits(clients[d])
    BY WaitsAlike DEF SendPing, Undisturbed
  <1>3. EthTypeOK /\ Entries' = Entries /\ Sending' = Sending /\ Writing' = Writing
    BY DEF EthInv, Entries, Sending, Writing
  <1>4. EthTypeOK'
    BY <1>1, <1>3 DEF EthTypeOK, Processing
  <1>5. ASSUME NEW d \in Clients PROVE ViewOK(d)'
    <2>1. From(outBank', d) = From(outBank, d)
      BY <1>1, FramesApart
    <2> QED BY <1>1, <2>1 DEF EthInv, ClientsAgree, ViewOK
  <1>6. TableOK' /\ BusInTurn' /\ FrameInTurn' /\ OneWaits'
    BY <1>1 DEF EthInv, TableOK, BusInTurn, FrameInTurn, Processing, OneWaits
  <1>7. FramesTrue'
    BY <1>1, FramesApart DEF EthInv, FramesTrue
  <1>8. OthersAside'
    BY <1>1, <1>2 DEF OthersAside
  <1>9. BuffersOK'
    <2>1. ASSUME NEW j \in Entries PROVE BufferOK(connections[j], j)'
      <3>1. BufferOK(connections[j], j)
        BY DEF EthInv, BuffersOK
      <3> QED BY <1>1, <1>3, <3>1 DEF BufferOK, Taking, Giving
    <2> QED BY <1>3, <2>1 DEF BuffersOK
  <1> QED BY <1>4, <1>5, <1>6, <1>7, <1>8, <1>9 DEF EthInv, ClientsAgree

LEMMA OpenConnectionKeeps ==
  ASSUME EthInv, Traffic = "plain", MAX_TCP_CONNECTIONS' = MAX_TCP_CONNECTIONS,
         NEW c \in Clients, OpenConnection(c)
  PROVE  EthInv'
  <1> DEFINE k == clients[c]
             l == [state |-> "synSent", request |-> Nothing, got |-> <<>>, sent |-> 1,
                   next |-> 0, ackDue |-> FALSE]
  <1>1. /\ k.state = "closed" /\ Send(c, "SYN", Nothing, l) /\ outBank = NoFrame
        /\ sessions < MaxSessions /\ sessions' = sessions + 1
    BY DEF OpenConnection, Send, Put
  <1>2. /\ k \in Client
        /\ ClientOK(k, Mine(connections, c), From(FrameIN, c), "none", Back(FrameOUT, inBank, c), PageBlock)
    BY <1>1, Sender
  <1>3. l \in Client /\ l.request = Nothing
    <2>1. 0 \in Numbers /\ 1 \in Numbers
      BY EthAssumption DEF Numbers
    <2>2. <<>> \in Seq(Payload)
      OBVIOUS
    <2> QED BY <2>1, <2>2 DEF Client
  <1>4. /\ ClientOK(l, Mine(connections, c), From(FrameIN, c), "SYN", Back(FrameOUT, inBank, c), PageBlock)
        /\ ~Waits(k) /\ ~Waits(l)
    <2> HIDE DEF k
    <2> QED BY <1>1, <1>2, Opened
  <1> HIDE DEF l
  <1>5. From(FrameIN, c) # "PSH"
    BY <1>1, <1>2, NothingAsked
  <1>6. \A j \in Entries : connections[j].client = c => ~connections[j].Ready
    BY <1>1, <1>4, BufferFree
  <1>7. \A d \in Clients : ~Waits(clients[d])
    BY WaitsAlike DEF OpenConnection, Undisturbed
  <1>8. sessions' \in 0..MaxSessions /\ Nothing \in Payload
    BY <1>1, EthAssumption DEF EthInv, EthTypeOK, Payload
  <1>9. SentOK(c, "SYN", Nothing, l)
    BY <1>1, <1>3, <1>4, <1>5, <1>6, <1>7, <1>8 DEF SentOK
  <1> QED BY <1>9, SentKeeps

LEMMA AcknowledgeKeeps ==
  ASSUME EthInv, Traffic = "plain", MAX_TCP_CONNECTIONS' = MAX_TCP_CONNECTIONS,
         NEW c \in Clients, Acknowledge(c)
  PROVE  EthInv'
  <1> DEFINE k == clients[c]
             l == [k EXCEPT !.ackDue = FALSE]
  <1>1. k.ackDue /\ Send(c, "ACK", Nothing, l) /\ outBank = NoFrame /\ sessions' = sessions
    BY DEF Acknowledge, Send, Put
  <1>2. /\ k \in Client
        /\ ClientOK(k, Mine(connections, c), From(FrameIN, c), "none", Back(FrameOUT, inBank, c), PageBlock)
    BY <1>1, Sender
  <1>3. /\ l \in Client /\ l.state = k.state /\ l.request = k.request /\ l.got = k.got
        /\ l.sent = k.sent /\ l.next = k.next /\ ~l.ackDue
    BY <1>2 DEF Client
  <1> HIDE DEF l
  <1>4. ClientOK(l, Mine(connections, c), From(FrameIN, c), "ACK", Back(FrameOUT, inBank, c), PageBlock)
    <2> HIDE DEF k
    <2> QED BY <1>1, <1>2, <1>3, Acknowledged
  <1>5. sessions' \in 0..MaxSessions /\ Nothing \in Payload
    BY <1>1 DEF EthInv, EthTypeOK, Payload
  <1>6. SentOK(c, "ACK", Nothing, l)
    BY <1>1, <1>3, <1>4, <1>5 DEF SentOK
  <1> QED BY <1>6, SentKeeps

LEMMA RequestKeeps ==
  ASSUME EthInv, Traffic = "plain", MAX_TCP_CONNECTIONS' = MAX_TCP_CONNECTIONS,
         NEW c \in Clients, Request(c)
  PROVE  EthInv'
  <1> DEFINE k == clients[c]
  <1>1. /\ k.state = "open" /\ ~k.ackDue /\ k.request = Nothing /\ sessions' = sessions
        /\ \A d \in Clients : ~Waits(clients[d])
    BY WaitsAlike DEF Request, AtEase, Undisturbed
  <1>2. PICK r \in Requests : Send(c, "PSH", r, [k EXCEPT !.request = r, !.sent = @ + 1])
    BY DEF Request
  <1> DEFINE l == [k EXCEPT !.request = r, !.sent = @ + 1]
  <1>3. Send(c, "PSH", r, l) /\ outBank = NoFrame
    BY <1>2 DEF Send, Put
  <1>4. /\ k \in Client
        /\ ClientOK(k, Mine(connections, c), From(FrameIN, c), "none", Back(FrameOUT, inBank, c), PageBlock)
    BY <1>3, Sender
  <1>5. k.sent + 1 \in Numbers
    BY <1>1, <1>4, SentSoFar
  <1>6. /\ l \in Client /\ l.state = k.state /\ l.request = r /\ l.got = k.got
        /\ l.sent = k.sent + 1 /\ l.next = k.next /\ ~l.ackDue
    BY <1>1, <1>4, <1>5 DEF Client
  <1> HIDE DEF l
  <1>7. /\ \A j \in Entries : connections[j].client = c => ~connections[j].Ready /\ ~connections[j].InUse
        /\ ~Mine(connections, c).Ready /\ ~Mine(connections, c).InUse
    BY <1>1, BufferFree
  <1>8. ClientOK(l, Mine(connections, c), From(FrameIN, c), "PSH", Back(FrameOUT, inBank, c), PageBlock)
    <2> HIDE DEF k
    <2> QED BY <1>1, <1>4, <1>6, <1>7, Requested
  <1>9. From(FrameIN, c) # "PSH"
    BY <1>1, <1>4, NothingAsked
  <1>10. sessions' \in 0..MaxSessions /\ r \in Payload
    BY <1>1 DEF EthInv, EthTypeOK, Payload
  <1>11. SentOK(c, "PSH", r, l)
    BY <1>1, <1>3, <1>6, <1>7, <1>8, <1>9, <1>10 DEF SentOK
  <1> QED BY <1>11, SentKeeps

LEMMA CloseFirstKeeps ==
  ASSUME EthInv, Traffic = "plain", MAX_TCP_CONNECTIONS' = MAX_TCP_CONNECTIONS,
         NEW c \in Clients, CloseFirst(c)
  PROVE  EthInv'
  <1> DEFINE k == clients[c]
             l == [k EXCEPT !.state = "finWait", !.sent = @ + 1]
  <1>1. /\ k.state = "open" /\ ~k.ackDue /\ Send(c, "FIN", Nothing, l) /\ outBank = NoFrame
        /\ sessions' = sessions /\ \A d \in Clients : ~Waits(clients[d])
    BY WaitsAlike DEF CloseFirst, AtEase, Undisturbed, Send, Put
  <1>2. /\ k \in Client
        /\ ClientOK(k, Mine(connections, c), From(FrameIN, c), "none", Back(FrameOUT, inBank, c), PageBlock)
    BY <1>1, Sender
  <1>3. k.sent + 1 \in Numbers
    BY <1>1, <1>2, SentSoFar
  <1>4. /\ l \in Client /\ l.state = "finWait" /\ l.request = k.request /\ l.got = k.got
        /\ l.sent = k.sent + 1 /\ l.next = k.next /\ ~l.ackDue
    BY <1>1, <1>2, <1>3 DEF Client
  <1> HIDE DEF l
  <1>5. /\ ClientOK(l, Mine(connections, c), From(FrameIN, c), "FIN", Back(FrameOUT, inBank, c), PageBlock)
        /\ ~Waits(l)
    <2>1. ~Waits(k)
      BY <1>1
    <2> HIDE DEF k
    <2> QED BY <1>1, <1>2, <1>4, <2>1, ClosedFirst
  <1>6. sessions' \in 0..MaxSessions /\ Nothing \in Payload
    BY <1>1 DEF EthInv, EthTypeOK, Payload
  <1>7. SentOK(c, "FIN", Nothing, l)
    BY <1>1, <1>4, <1>5, <1>6 DEF SentOK
  <1> QED BY <1>7, SentKeeps

LEMMA CloseLastKeeps ==
  ASSUME EthInv, Traffic = "plain", MAX_TCP_CONNECTIONS' = MAX_TCP_CONNECTIONS,
         NEW c \in Clients, CloseLast(c)
  PROVE  EthInv'
  <1> DEFINE k == clients[c]
             l == [k EXCEPT !.state = "lastAck", !.sent = @ + 1, !.ackDue = FALSE]
  <1>1. /\ k.state = "finSeen" /\ Send(c, "FIN", Nothing, l) /\ outBank = NoFrame
        /\ sessions' = sessions /\ \A d \in Clients : ~Waits(clients[d])
    BY WaitsAlike DEF CloseLast, Undisturbed, Send, Put
  <1>2. /\ k \in Client
        /\ ClientOK(k, Mine(connections, c), From(FrameIN, c), "none", Back(FrameOUT, inBank, c), PageBlock)
    BY <1>1, Sender
  <1>3. k.sent + 1 \in Numbers
    BY <1>1, <1>2, SentSoFar
  <1>4. /\ l \in Client /\ l.state = "lastAck" /\ l.request = k.request /\ l.got = k.got
        /\ l.sent = k.sent + 1 /\ ~l.ackDue
    BY <1>2, <1>3 DEF Client
  <1> HIDE DEF l
  <1>5. /\ ClientOK(l, Mine(connections, c), From(FrameIN, c), "FIN", Back(FrameOUT, inBank, c), PageBlock)
        /\ ~Waits(l)
    <2> HIDE DEF k
    <2> QED BY <1>1, <1>2, <1>4, ClosedLast
  <1>6. \A j \in Entries : connections[j].client = c => ~connections[j].Ready
    BY <1>1, BufferFree
  <1>7. sessions' \in 0..MaxSessions /\ Nothing \in Payload
    BY <1>1 DEF EthInv, EthTypeOK, Payload
  <1>8. SentOK(c, "FIN", Nothing, l)
    BY <1>1, <1>4, <1>5, <1>6, <1>7 DEF SentOK
  <1> QED BY <1>8, SentKeeps

LEMMA GiveUpKeeps ==
  ASSUME EthInv, Traffic = "plain", MAX_TCP_CONNECTIONS' = MAX_TCP_CONNECTIONS,
         NEW c \in Clients, GiveUp(c)
  PROVE  EthInv'
  <1> DEFINE k == clients[c]
             l == [k EXCEPT !.state = "closed", !.ackDue = FALSE]
  <1>1. /\ k.state = "finSeen" /\ Send(c, "RST", Nothing, l) /\ outBank = NoFrame
        /\ sessions' = sessions /\ \A d \in Clients : ~Waits(clients[d])
    BY WaitsAlike DEF GiveUp, Undisturbed, Send, Put
  <1>2. /\ k \in Client
        /\ ClientOK(k, Mine(connections, c), From(FrameIN, c), "none", Back(FrameOUT, inBank, c), PageBlock)
    BY <1>1, Sender
  <1>3. /\ l \in Client /\ l.state = "closed" /\ l.request = k.request /\ l.got = k.got
        /\ ~l.ackDue
    BY <1>2 DEF Client
  <1> HIDE DEF l
  <1>4. /\ ClientOK(l, Mine(connections, c), From(FrameIN, c), "RST", Back(FrameOUT, inBank, c), PageBlock)
        /\ ~Waits(l)
    <2> HIDE DEF k
    <2> QED BY <1>1, <1>2, <1>3, GivenUp
  <1>5. \A j \in Entries : connections[j].client = c => ~connections[j].Ready
    BY <1>1, BufferFree
  <1>6. sessions' \in 0..MaxSessions /\ Nothing \in Payload
    BY <1>1 DEF EthInv, EthTypeOK, Payload
  <1>7. SentOK(c, "RST", Nothing, l)
    BY <1>1, <1>3, <1>4, <1>5, <1>6 DEF SentOK
  <1> QED BY <1>7, SentKeeps

-----------------------------------------------------------------------------
(* The invariant holds.                                                    *)

LEMMA EthInitially ==
  ASSUME EthInit
  PROVE  EthInv
  <1>1. /\ MAX_TCP_CONNECTIONS \in Nat /\ MAX_TCP_CONNECTIONS >= 1 /\ at = 0 /\ Entries \subseteq Nat
        /\ \A c \in Clients : c # NoClient
    BY EthAssumption DEF EthInit, Processing, Entries
  <1>2. 0 \in Numbers /\ 0 \in 0..MaxSessions /\ Nothing \in Payload
    BY EthAssumption DEF Numbers, Payload
  <1>3. DOMAIN connections = Entries /\ \A j \in Entries : connections[j] = Unused
    BY DEF EthInit, Unused
  <1>4. /\ Unused.client = NoClient /\ Unused.state = "Closed" /\ ~Unused.Ready /\ ~Unused.InUse
        /\ Unused \in ConnectionState
    BY <1>2 DEF Unused, ConnectionState
  <1> DEFINE k == [state |-> "closed", request |-> Nothing, got |-> <<>>, sent |-> 0, next |-> 0,
                   ackDue |-> FALSE]
  <1>5. k.state = "closed" /\ ~k.ackDue /\ k.got = <<>> /\ k \in Client
    BY <1>2 DEF Client
  <1>15. clients = [c \in Clients |-> k]
    BY DEF EthInit
  <1> HIDE DEF k
  <1>6. \A c \in Clients : clients[c] = k
    BY <1>15
  <1>7. EthTypeOK
    <2>1. connections \in [Entries -> ConnectionState]
      <3>1. connections = [j \in Entries |-> Unused]
        BY DEF EthInit, Unused
      <3> QED BY <1>4, <3>1
    <2>2. clients \in [Clients -> Client]
      BY <1>5, <1>15
    <2>3. at \in Processing..Writing
      BY <1>1 DEF Processing, Writing
    <2>4. /\ MAX_TCP_CONNECTIONS \in TableSizes /\ message = FALSE /\ PageBlock = 0
          /\ FrameIN = NoFrame /\ FrameOUT = NoFrame /\ outBank = NoFrame /\ inBank = NoFrame
          /\ sessions = 0
      BY DEF EthInit
    <2>5. message \in BOOLEAN
      BY <2>4
    <2>6. PageBlock \in 0..255 /\ sessions \in 0..MaxSessions
      BY <1>2, <2>4
    <2> QED BY <2>1, <2>2, <2>3, <2>4, <2>5, <2>6 DEF EthTypeOK
  <1>8. ~Waits(k)
    BY <1>5 DEF Waits
  <1>9. ClientsAgree
    <2>1. ASSUME NEW c \in Clients PROVE ViewOK(c)
      <3>1. Owned(connections, c) = {}
        BY <1>1, <1>3, <1>4 DEF Owned
      <3>2. Mine(connections, c).state = "Closed"
        BY <3>1, <1>4 DEF Mine
      <3>3. /\ From(FrameIN, c) = "none" /\ From(outBank, c) = "none"
            /\ Back(FrameOUT, inBank, c).flags = "none"
        BY FramesApart DEF EthInit
      <3>4. ClosedOK(k, Mine(connections, c), From(FrameIN, c), From(outBank, c), Back(FrameOUT, inBank, c))
        BY <1>5, <3>2, <3>3 DEF ClosedOK, None
      <3> QED BY <1>5, <1>6, <1>8, <3>4 DEF ViewOK, ClientOK, RestOK
    <2> QED BY <2>1 DEF ClientsAgree
  <1>10. TableOK
    BY <1>1, <1>3, <1>4 DEF TableOK, OneEach, Spare
  <1>11. BusInTurn /\ FrameInTurn
    BY DEF EthInit, BusInTurn, FrameInTurn
  <1>12. FramesTrue
    BY FramesApart DEF EthInit, FramesTrue
  <1>13. OneWaits /\ OthersAside
    BY <1>6, <1>8 DEF OneWaits, OthersAside
  <1>14. BuffersOK
    BY <1>3, <1>4 DEF BuffersOK, BufferOK
  <1> QED BY <1>7, <1>9, <1>10, <1>11, <1>12, <1>13, <1>14 DEF EthInv

LEMMA EthIdle ==
  ASSUME EthInv, UNCHANGED ethVars
  PROVE  EthInv'
  <1>1. /\ MAX_TCP_CONNECTIONS' = MAX_TCP_CONNECTIONS /\ at' = at /\ FrameIN' = FrameIN
        /\ FrameOUT' = FrameOUT /\ message' = message /\ connections' = connections
        /\ PageBlock' = PageBlock /\ outBank' = outBank /\ inBank' = inBank /\ clients' = clients
        /\ sessions' = sessions
    BY DEF ethVars, deviceVars
  <1>2. Entries' = Entries /\ Sending' = Sending /\ Writing' = Writing
    BY <1>1 DEF Entries, Sending, Writing
  <1>3. EthTypeOK' /\ ClientsAgree' /\ TableOK' /\ BusInTurn' /\ FrameInTurn' /\ FramesTrue' /\ OneWaits'
    BY <1>1, <1>2 DEF EthInv, EthTypeOK, ClientsAgree, ViewOK, TableOK, BusInTurn, FrameInTurn, FramesTrue,
                      OneWaits, Processing
  <1>4. OthersAside'
    BY <1>1, <1>2 DEF EthInv, OthersAside, Unhindered, Asks, Processing
  <1>5. BuffersOK'
    <2>1. ASSUME NEW j \in Entries PROVE BufferOK(connections[j], j)'
      <3>1. BufferOK(connections[j], j)
        BY DEF EthInv, BuffersOK
      <3> QED BY <1>1, <1>2, <3>1 DEF BufferOK, Taking, Giving
    <2> QED BY <1>2, <2>1 DEF BuffersOK
  <1> QED BY <1>3, <1>4, <1>5 DEF EthInv

LEMMA EthStep ==
  ASSUME EthInv, Traffic = "plain", [EthNext]_ethVars
  PROVE  EthInv'
  <1>1. CASE UNCHANGED ethVars
    BY <1>1, EthIdle
  <1>2. CASE DeviceNext /\ MAX_TCP_CONNECTIONS' = MAX_TCP_CONNECTIONS
    BY <1>2, ProcessSYNKeeps, ProcessRSTKeeps, ChangeStateKeeps, ProcessDataKeeps, ProcessOtherKeeps,
       ProcessPingKeeps, NoPacketKeeps, ServeRequestKeeps, ServeBlockKeeps, IdleKeeps, SendBufferKeeps,
       ReadFrameKeeps, WriteFrameKeeps, ControlKeeps
       DEF DeviceNext
  <1>3. CASE ClientNext /\ MAX_TCP_CONNECTIONS' = MAX_TCP_CONNECTIONS
    BY <1>3, TakeFrameKeeps, SendPingKeeps, OpenConnectionKeeps, AcknowledgeKeeps, RequestKeeps,
       CloseFirstKeeps, CloseLastKeeps, GiveUpKeeps
       DEF ClientNext
  <1> QED BY <1>1, <1>2, <1>3 DEF EthNext

LEMMA EthInvariant ==
  ASSUME Traffic = "plain"
  PROVE  EthSpec => []EthInv
  <1>1. EthInit => EthInv
    BY EthInitially
  <1>2. EthInv /\ [EthNext]_ethVars => EthInv'
    BY EthStep
  <1> QED BY <1>1, <1>2, PTL DEF EthSpec

\* The types of the web server and its clients: no number leaves the range of
\* those of one answer, a segment never carries what it cannot, and the block
\* counter stays a byte, for every size of the table and of the page.
THEOREM WebServerTypeCorrect ==
  ASSUME Traffic = "plain"
  PROVE  EthSpec => []EthTypeOK
  <1>1. EthInv => EthTypeOK
    BY DEF EthInv
  <1> QED BY <1>1, EthInvariant, PTL

-----------------------------------------------------------------------------
(* What it means to the clients.                                           *)

LEMMA PrefixOf ==
  ASSUME NEW s \in Seq(Payload), NEW t \in Seq(Payload), Len(s) <= Len(t),
         \A n \in 1..Len(s) : s[n] = t[n]
  PROVE  Seqs!IsPrefix(s, t)
  <1>1. Len(s) \in Nat /\ Len(t) \in Nat
    OBVIOUS
  <1>2. SubSeq(s, 1, Len(s)) = SubSeq(t, 1, Len(s))
    OBVIOUS
  <1> QED BY <1>2 DEF Seqs!IsPrefix

\* The pieces a client that waits has are not more than the answer has.
LEMMA NotTooMuch ==
  ASSUME NEW k \in Client, NEW e \in ConnectionState \cup {Unused}, NEW i, NEW o, NEW b, NEW p \in 0..255,
         WaitOK(k, e, i, o, b, p), k.request \in Gets
  PROVE  Len(k.got) <= Total(k.request)
  <1>1. Len(k.got) \in Nat /\ k.next = Len(k.got) + 1
    BY DEF WaitOK, Client
  <1>2. LAST_BLOCK \in 0..255 /\ Total(k.request) \in {1, LAST_BLOCK + 2}
    BY EthAssumption DEF Total
  <1>3. CASE Asked(k, e, i, o, b)
    BY <1>1, <1>2, <1>3 DEF Asked
  <1>4. CASE Served(k, e, i, o, b, p)
    <2>1. e.SequenceNumberOut = k.next \/ e.SequenceNumberOut = k.next + 1
      BY <1>4 DEF Served, OnItsWay
    <2>2. \/ e.SequenceNumberOut = 1 \/ e.SequenceNumberOut <= Total(k.request) + 1
          \/ k.next = Total(k.request) + 1
      <3>1. ToSend(k, e, p)
        BY <1>4 DEF Served
      <3>2. k.request = ForPage /\ p <= LAST_BLOCK =>
              p + 2 <= Total(k.request) + 1 /\ p + 1 <= Total(k.request) + 1
        BY <1>2, PiecesOf
      <3> QED BY <1>2, <3>1, <3>2 DEF ToSend
    <2> QED BY <1>1, <1>2, <2>1, <2>2
  <1> QED BY <1>3, <1>4 DEF WaitOK

LEMMA Intact ==
  ASSUME NEW k \in Client, NEW e \in ConnectionState \cup {Unused}, NEW i, NEW o, NEW b, NEW p \in 0..255,
         ClientOK(k, e, i, o, b, p)
  PROVE  /\ Seqs!IsPrefix(k.got, Answer(k.request))
         /\ k.state \in {"finSeen", "lastAck"} => k.got = Answer(k.request)
  <1>1. k.got \in Seq(Payload) /\ Answer(k.request) \in Seq(Payload)
    BY NoAnswer DEF Client
  <1>2. Seqs!IsPrefix(<<>>, Answer(k.request)) /\ Seqs!IsPrefix(Answer(k.request), Answer(k.request))
    <2>1. <<>> \in Seq(Payload) /\ Len(<<>>) = 0 /\ Len(Answer(k.request)) \in Nat
      BY <1>1
    <2>2. Seqs!IsPrefix(<<>>, Answer(k.request))
      <3> DEFINE s == <<>>
      <3>1. s \in Seq(Payload) /\ Len(s) = 0 /\ Len(s) <= Len(Answer(k.request))
        BY <2>1
      <3> HIDE DEF s
      <3>2. \A n \in 1..Len(s) : s[n] = Answer(k.request)[n]
        BY <3>1
      <3>3. Seqs!IsPrefix(s, Answer(k.request))
        BY <1>1, <3>1, <3>2, PrefixOf
      <3> QED BY <3>3 DEF s
    <2>3. Seqs!IsPrefix(Answer(k.request), Answer(k.request))
      BY <1>1, <2>1, PrefixOf
    <2> QED BY <2>2, <2>3
  <1>3. CASE Waits(k)
    <2>1. WaitOK(k, e, i, o, b, p) /\ k.request \in Gets /\ k.state = "open"
      BY <1>3 DEF ClientOK, Waits
    <2>2. Len(k.got) <= Len(Answer(k.request))
      BY <2>1, NotTooMuch, AnswerOf
    <2>3. \A n \in 1..Len(k.got) : k.got[n] = Answer(k.request)[n]
      <3>1. Len(k.got) \in Nat /\ Len(k.got) <= Total(k.request) /\ Total(k.request) \in Nat
        <4>1. Len(k.got) <= Total(k.request)
          BY <2>1, NotTooMuch
        <4> QED BY <1>1, <4>1, EthAssumption DEF Total
      <3>2. 1..Len(k.got) \subseteq 1..Total(k.request)
        BY <3>1
      <3> QED BY <2>1, <3>2, AnswerOf DEF WaitOK
    <2> QED BY <1>1, <2>1, <2>2, <2>3, PrefixOf
  <1>4. CASE ~Waits(k)
    <2>1. RestOK(k, e, i, o, b)
      BY <1>4 DEF ClientOK
    <2>2. k.got = <<>> \/ k.got = Answer(k.request)
      BY <2>1, StatesOf DEF RestOK, ClosedOK, SynSentOK, OpenOK, FinSeenOK, LastAckOK, FinWaitOK, HalfOK
    <2>3. k.state \in {"finSeen", "lastAck"} => k.got = Answer(k.request)
      BY <2>1 DEF RestOK, FinSeenOK, LastAckOK
    <2> QED BY <1>2, <2>2, <2>3
  <1> QED BY <1>3, <1>4

\* The invariant, for one client.
LEMMA ViewOf ==
  ASSUME EthInv, NEW c \in Clients
  PROVE  /\ clients[c] \in Client /\ Mine(connections, c) \in ConnectionState \cup {Unused}
         /\ PageBlock \in 0..255
         /\ ClientOK(clients[c], Mine(connections, c), From(FrameIN, c), From(outBank, c),
                     Back(FrameOUT, inBank, c), PageBlock)
  <1>1. EthTypeOK /\ DOMAIN connections = Entries /\ clients[c] \in Client /\ PageBlock \in 0..255
    BY Typed DEF EthInv, EthTypeOK
  <1>2. Mine(connections, c) \in ConnectionState \cup {Unused}
    BY <1>1, Typed, FirstIn DEF Mine, Owned
  <1> QED BY <1>1, <1>2 DEF EthInv, ClientsAgree, ViewOK

\* What a client has read is a beginning of its answer, and all of it when the
\* device has closed, for any number of clients, sizes of the table and of the
\* page, though TCP_ProcessTCPPacket and Webserver_ApplicationCallback share
\* one frame buffer and one block counter among all connections.
THEOREM AnswersStayIntact ==
  ASSUME Traffic = "plain"
  PROVE  EthSpec => []AnswersIntact
  <1>1. EthInv => AnswersIntact
    BY ViewOf, Intact DEF AnswersIntact
  <1> QED BY <1>1, EthInvariant, PTL

\* A client when nothing is on its way.
LEMMA Quiet ==
  ASSUME NEW k \in Client, NEW e \in ConnectionState \cup {Unused}, NEW p,
         ClientOK(k, e, "none", "none", NoFrame, p), ~k.ackDue, ~e.Ready, ~Captured(e)
  PROVE  /\ \/ k.state \in {"closed", "synSent", "half"} /\ e.state = "Closed"
            \/ k.state = "open" /\ e.state = "Established" /\ ~Waits(k)
            \/ k.state = "finSeen" /\ e.state = "FINWait2"
         /\ k.state = "open" => e.SequenceNumberIn = k.sent /\ e.SequenceNumberOut = k.next
  <1>1. NoFrame.flags = "none" /\ ~Receipt(NoFrame)
    BY DEF NoFrame, Bare, Receipt
  <1>2. ASSUME Waits(k) PROVE FALSE
    <2>1. WaitOK(k, e, "none", "none", NoFrame, p)
      BY <1>2 DEF ClientOK
    <2>2. Served(k, e, "none", "none", NoFrame, p)
      BY <2>1 DEF WaitOK, Asked, Both, Only
    <2>3. e.state # "FINWait1" /\ OnItsWay(k, e, NoFrame) /\ ToSend(k, e, p) /\ ~(k.next > 1)
      BY <1>1, <2>2 DEF Served
    <2>4. e.SequenceNumberOut = k.next
      BY <1>1, <2>3 DEF OnItsWay
    <2>5. e.state = "Closing" /\ e.SequenceNumberOut = Total(k.request) + 1
      BY <2>3 DEF ToSend, Captured
    <2>6. Total(k.request) \in Nat /\ Total(k.request) >= 1
      BY EthAssumption DEF Total
    <2> QED BY <2>3, <2>4, <2>5, <2>6
  <1>3. RestOK(k, e, "none", "none", NoFrame)
    BY <1>2 DEF ClientOK
  <1>4. CASE k.state \in {"closed", "synSent", "half"}
    BY <1>1, <1>3, <1>4 DEF RestOK, ClosedOK, SynSentOK, HalfOK, None, Only, Both
  <1>5. CASE k.state = "open"
    BY <1>1, <1>2, <1>3, <1>5 DEF RestOK, OpenOK, None, Only, Both, Numbered
  <1>6. CASE k.state = "finSeen"
    BY <1>1, <1>3, <1>6 DEF RestOK, FinSeenOK, Closing
  <1>7. CASE k.state \in {"lastAck", "finWait"}
    BY <1>1, <1>3, <1>7 DEF RestOK, LastAckOK, FinWaitOK, None, Only, Both
  <1> QED BY <1>4, <1>5, <1>6, <1>7, StatesOf

\* When nothing is on its way nobody waits, and the states and the numbers in
\* ConnectionStateTable are those of the clients, whatever connections were
\* made, refused, closed and given up before.
THEOREM BothSidesAgree ==
  ASSUME Traffic = "plain"
  PROVE  EthSpec => []BothAgree
  <1>1. ASSUME EthInv, AllQuiet, NEW c \in Clients
        PROVE  /\ \/ clients[c].state \in {"closed", "synSent", "half"} /\ State(c) = "Closed"
                  \/ clients[c].state = "open" /\ State(c) = "Established" /\ ~Waiting(c)
                  \/ clients[c].state = "finSeen" /\ State(c) = "FINWait2"
               /\ clients[c].state = "open" =>
                    LET e == connections[First(EntriesOf(c))]
                    IN  e.SequenceNumberIn = clients[c].sent /\ e.SequenceNumberOut = clients[c].next
    <2> DEFINE k == clients[c]
               e == Mine(connections, c)
    <2>1. /\ FrameIN = NoFrame /\ FrameOUT = NoFrame /\ outBank = NoFrame /\ inBank = NoFrame
          /\ ~k.ackDue
      BY <1>1 DEF AllQuiet
    <2>2. /\ From(FrameIN, c) = "none" /\ From(outBank, c) = "none"
          /\ Back(FrameOUT, inBank, c) = NoFrame
      BY <2>1, FramesApart
    <2>3. /\ k \in Client /\ e \in ConnectionState \cup {Unused}
          /\ ClientOK(k, e, "none", "none", NoFrame, PageBlock)
      BY <1>1, <2>2, ViewOf
    <2>4. State(c) = e.state /\ (Waiting(c) <=> Waits(k))
      BY <1>1, Typed, WaitsAlike DEF EthInv
    <2>5. EntriesOf(c) # {} => First(EntriesOf(c)) \in Entries /\ e = connections[First(EntriesOf(c))]
      BY <1>1, SenderHeld
    <2>6. EntriesOf(c) = {} => e = Unused
      BY <1>1, Typed, MineNone DEF EthInv
    <2>7. ~e.Ready /\ ~Captured(e)
      BY <1>1, <2>5, <2>6 DEF AllQuiet, Unused, Captured
    <2>8. Unused.state = "Closed"
      BY DEF Unused
    <2> HIDE DEF e, k
    <2>9. /\ \/ k.state \in {"closed", "synSent", "half"} /\ e.state = "Closed"
             \/ k.state = "open" /\ e.state = "Established" /\ ~Waits(k)
             \/ k.state = "finSeen" /\ e.state = "FINWait2"
          /\ k.state = "open" => e.SequenceNumberIn = k.sent /\ e.SequenceNumberOut = k.next
      BY <2>1, <2>3, <2>7, Quiet
    <2>10. k.state = "open" => e = connections[First(EntriesOf(c))]
      BY <2>5, <2>6, <2>8, <2>9
    <2> QED BY <2>4, <2>9, <2>10 DEF k
  <1>2. EthInv => BothAgree
    BY <1>1 DEF BothAgree
  <1> QED BY <1>2, EthInvariant, PTL
===============================================================================
