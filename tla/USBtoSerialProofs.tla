------------------------- MODULE USBtoSerialProofs -------------------------
(***************************************************************************)
(* Type correctness of the bridge, and that both of its directions keep    *)
(* the order of the bytes and lose none unnoticed, for every size of the   *)
(* buffers and of the packets and however many bytes and disruptions.      *)
(***************************************************************************)
EXTENDS USBtoSerial, TLAPS, SequenceTheorems

Sending == {"sendTest", "sendSelect", "sendWait", "write"}

\* TypeOK with the sequences written in another way, and the types of the
\* streams, which have no bound.
BridgeTypes ==
  /\ pc \in Labels /\ DataBytesRem \in 0..CDC_TXRX_EPSIZE /\ held \in 0..MaxIn
  /\ USB_DeviceState \in {"Default", "Configured", "Suspended", "Unattached"}
  /\ BaudRateBPS \in BOOLEAN /\ RXCIE1 \in BOOLEAN /\ banks \in BOOLEAN
  /\ configured \in BOOLEAN /\ OUTReceived \in BOOLEAN
  /\ outGap \in BOOLEAN /\ inGap \in BOOLEAN /\ late \in BOOLEAN
  /\ inOwner \in {"cpu", "host"}
  /\ sent \in 0..MaxOut /\ arrived \in 0..MaxIn
  /\ lastIN \in 0..CDC_TXRX_EPSIZE
  /\ disruptions \in 0..MaxDisruptions
RingTypes ==
  /\ USBtoUSART \in Seq(0..MaxOut) /\ Len(USBtoUSART) <= BUFF_STATICSIZE
  /\ USARTtoUSB \in Seq(1..MaxIn)  /\ Len(USARTtoUSB) <= BUFF_STATICSIZE
BankTypes ==
  /\ outBank \in Seq(1..MaxOut) /\ Len(outBank) <= CDC_TXRX_EPSIZE
  /\ inBank \in Seq(1..MaxIn)   /\ Len(inBank) <= CDC_TXRX_EPSIZE
StreamTypes == line \in Seq(0..MaxOut) /\ got \in Seq(1..MaxIn)

\* What the places in the main program imply: how many bytes are still to be
\* read from the bank, that there is room for the byte being read, that a byte
\* is held exactly while it is being sent, and that there is room in the bank
\* when it is written.
Places ==
  /\ held = NoByte <=> pc \notin Sending
  /\ pc = "readByte" => DataBytesRem > 0 /\ Len(USBtoUSART) < BUFF_STATICSIZE
  /\ pc \in {"loop", "readByte"} /\ banks => DataBytesRem <= Len(outBank)
  /\ pc = "sendWait" /\ banks /\ inOwner = "cpu" => inBank = <<>>
  /\ pc = "write" /\ banks => RWAL

\* What the flags and the configuration say of the banks.
BanksAgree ==
  /\ ~OUTReceived => outBank = <<>>
  /\ configured => banks
  /\ ~banks => outBank = <<>> /\ inBank = <<>>

BridgeInv == BridgeTypes /\ RingTypes /\ BankTypes /\ StreamTypes /\ Places /\ BanksAgree

(***************************************************************************)
(* Lemmas on sequences of bytes.                                           *)
(***************************************************************************)
Below(S, T) == \A b \in S, c \in T : b < c

\* Two streams one after the other.
LEMMA Join ==
  ASSUME NEW s \in Seq(Nat), NEW t \in Seq(Nat)
  PROVE  /\ s \o t \in Seq(Nat)
         /\ Bytes(s \o t) = Bytes(s) \cup Bytes(t)
         /\ InOrder(s \o t) <=> InOrder(s) /\ InOrder(t) /\ Below(Bytes(s), Bytes(t))
<1> DEFINE m == Len(s)
          n == Len(t)
          r == s \o t
<1>1. /\ m \in Nat /\ DOMAIN s = 1..m /\ n \in Nat /\ DOMAIN t = 1..n
  BY LenProperties
<1>2. /\ r \in Seq(Nat) /\ DOMAIN r = 1..(m + n)
      /\ \A i \in 1..(m + n) : r[i] = IF i <= m THEN s[i] ELSE t[i - m]
  BY ConcatProperties, LenProperties
<1>3. /\ \A i \in 1..m : i \in 1..(m + n) /\ r[i] = s[i]
      /\ \A i \in 1..n : m + i \in 1..(m + n) /\ r[m + i] = t[i]
  <2>1. ASSUME NEW i \in 1..n PROVE ~(m + i <= m) /\ (m + i) - m = i /\ m + i \in 1..(m + n)
    BY <1>1
  <2> QED  BY <1>1, <1>2, <2>1
<1>4. \A i \in 1..(m + n) : i \in 1..m \/ (i - m \in 1..n /\ i = m + (i - m))
  BY <1>1
<1>5. \A i \in DOMAIN s : s[i] \in Nat
  BY ElementOfSeq, <1>1
<1>6. \A i \in DOMAIN t : t[i] \in Nat
  BY ElementOfSeq, <1>1
<1> HIDE DEF m, n, r
<1>7. Bytes(r) = Bytes(s) \cup Bytes(t)
  <2>1. ASSUME NEW b \in Bytes(r) PROVE b \in Bytes(s) \cup Bytes(t)
    <3>1. PICK i \in 1..(m + n) : b = r[i] /\ b # NoByte  BY <1>2, <2>1 DEF Bytes
    <3> QED  BY <1>1, <1>3, <1>4, <3>1 DEF Bytes
  <2>2. ASSUME NEW b \in Bytes(s) PROVE b \in Bytes(r)
    <3>1. PICK i \in 1..m : b = s[i] /\ b # NoByte  BY <1>1, <2>2 DEF Bytes
    <3> QED  BY <1>2, <1>3, <3>1 DEF Bytes
  <2>3. ASSUME NEW b \in Bytes(t) PROVE b \in Bytes(r)
    <3>1. PICK i \in 1..n : b = t[i] /\ b # NoByte  BY <1>1, <2>3 DEF Bytes
    <3>2. m + i \in 1..(m + n) /\ r[m + i] = b  BY <1>3, <3>1
    <3> QED  BY <1>2, <3>1, <3>2 DEF Bytes
  <2> QED  BY <2>1, <2>2, <2>3
<1>8. ASSUME InOrder(r) PROVE InOrder(s) /\ InOrder(t) /\ Below(Bytes(s), Bytes(t))
  <2>1. InOrder(s)
    BY <1>1, <1>2, <1>3, <1>8 DEF InOrder
  <2>2. InOrder(t)
    <3> SUFFICES ASSUME NEW i \in 1..n, NEW j \in 1..n, i < j, NoByte \notin {t[i], t[j]}
                 PROVE  t[i] < t[j]
      BY <1>1 DEF InOrder
    <3>1. m + i < m + j  BY <1>1
    <3>2. m + i \in DOMAIN r /\ m + j \in DOMAIN r /\ r[m + i] = t[i] /\ r[m + j] = t[j]
      BY <1>2, <1>3
    <3> QED  BY <1>8, <3>1, <3>2 DEF InOrder
  <2>3. Below(Bytes(s), Bytes(t))
    <3> SUFFICES ASSUME NEW b \in Bytes(s), NEW c \in Bytes(t) PROVE b < c
      BY DEF Below
    <3>1. PICK i \in 1..m : b = s[i] /\ b # NoByte  BY <1>1 DEF Bytes
    <3>2. PICK j \in 1..n : c = t[j] /\ c # NoByte  BY <1>1 DEF Bytes
    <3>3. i < m + j  BY <1>1
    <3>4. /\ i \in DOMAIN r /\ r[i] = b /\ r[i] # NoByte
          /\ m + j \in DOMAIN r /\ r[m + j] = c /\ r[m + j] # NoByte
      BY <1>2, <1>3, <3>1, <3>2
    <3> QED  BY <1>8, <3>3, <3>4 DEF InOrder
  <2> QED  BY <2>1, <2>2, <2>3
<1>9. ASSUME InOrder(s), InOrder(t), Below(Bytes(s), Bytes(t)) PROVE InOrder(r)
  <2> SUFFICES ASSUME NEW i \in 1..(m + n), NEW j \in 1..(m + n), i < j,
                      r[i] # NoByte, r[j] # NoByte
               PROVE  r[i] < r[j]
    BY <1>2 DEF InOrder
  <2>1. CASE j \in 1..m
    <3>1. i \in 1..m  BY <1>1, <2>1
    <3> QED  BY <1>1, <1>3, <1>9, <2>1, <3>1 DEF InOrder
  <2>2. CASE i \in 1..m /\ j \notin 1..m
    <3>1. j - m \in 1..n /\ r[j] = t[j - m] /\ r[i] = s[i]  BY <1>3, <1>4, <2>2
    <3>2. s[i] \in Bytes(s) /\ t[j - m] \in Bytes(t)
      BY <1>1, <2>2, <3>1 DEF Bytes
    <3> QED  BY <1>9, <3>1, <3>2 DEF Below
  <2>3. CASE i \notin 1..m /\ j \notin 1..m
    <3>1. i - m \in 1..n /\ j - m \in 1..n /\ r[i] = t[i - m] /\ r[j] = t[j - m]
      BY <1>3, <1>4, <2>3
    <3>2. i - m < j - m  BY <1>1
    <3> QED  BY <1>1, <1>9, <3>1, <3>2 DEF InOrder
  <2> QED  BY <2>1, <2>2, <2>3
<1> QED  BY <1>2, <1>7, <1>8, <1>9 DEF r

\* The shortest streams.
LEMMA Short ==
  /\ Bytes(<<>>) = {} /\ InOrder(<<>>)
  /\ \A e \in Nat : <<e>> \in Seq(Nat) /\ Bytes(<<e>>) = {e} \ {NoByte} /\ InOrder(<<e>>)
<1>1. Bytes(<<>>) = {} /\ InOrder(<<>>)
  BY DEF Bytes, InOrder
<1>2. ASSUME NEW e \in Nat
      PROVE  <<e>> \in Seq(Nat) /\ Bytes(<<e>>) = {e} \ {NoByte} /\ InOrder(<<e>>)
  <2>1. DOMAIN <<e>> = {1} /\ <<e>>[1] = e  OBVIOUS
  <2> QED  BY <2>1 DEF Bytes, InOrder
<1> QED  BY <1>1, <1>2

\* Byte sequences are put together from either end.
LEMMA Regroup == \A u, v, w \in Seq(Nat) : (u \o v) \o w = u \o (v \o w)
<1> DEFINE S == Nat
<1>1. ASSUME NEW u \in Seq(S), NEW v \in Seq(S), NEW w \in Seq(S)
      PROVE  (u \o v) \o w = u \o (v \o w)
  <2> HIDE DEF S
  <2> QED  BY ConcatAssociative
<1> QED  BY <1>1, Zenon

\* The first element of the second moves to the end of the first.
LEMMA Moved ==
  ASSUME NEW s \in Seq(Nat), NEW t \in Seq(Nat), t # <<>>
  PROVE  /\ Append(s, Head(t)) \o Tail(t) = s \o t
         /\ s \o (<<Head(t)>> \o Tail(t)) = s \o t
<1>1. Head(t) \in Nat /\ Tail(t) \in Seq(Nat)
  BY HeadTailProperties
<1>2. <<Head(t)>> \o Tail(t) = t
  BY <1>1, HeadTailProperties, ConcatProperties, SeqEqual, LenProperties
<1>3. Append(s, Head(t)) = s \o <<Head(t)>>
  BY <1>1, AppendIsConcat
<1>4. <<Head(t)>> \in Seq(Nat)
  BY <1>1, Short
<1>5. (s \o <<Head(t)>>) \o Tail(t) = s \o (<<Head(t)>> \o Tail(t))
  BY <1>1, <1>4, Regroup
<1> QED  BY ONLY <1>2, <1>3, <1>5

\* Subsequences keep their type.
LEMMA BytesAreNat == ASSUME NEW n \in Nat PROVE Seq(1..n) \subseteq Seq(Nat) /\ Seq(0..n) \subseteq Seq(Nat)
BY SeqMonotonic

(***************************************************************************)
(* The invariant.                                                          *)
(***************************************************************************)
\* A store keeps the type of a buffer, and with room it is an append.
LEMMA StoreTypes ==
  ASSUME NEW S, NEW q \in Seq(S), Len(q) <= BUFF_STATICSIZE, NEW e \in S
  PROVE  /\ Buffer_StoreElement(q, e) \in Seq(S)
         /\ Len(Buffer_StoreElement(q, e)) <= BUFF_STATICSIZE
         /\ Len(q) < BUFF_STATICSIZE => Buffer_StoreElement(q, e) = Append(q, e)
         /\ Len(q) = BUFF_STATICSIZE => q # <<>> /\ Buffer_StoreElement(q, e) = Append(Tail(q), e)
<1>1. BUFF_STATICSIZE \in Nat /\ BUFF_STATICSIZE > 0 /\ Len(q) \in Nat
  BY SizeAssumption, LenProperties
<1>2. CASE Len(q) = BUFF_STATICSIZE
  <2>1. q # <<>>  BY <1>1, <1>2, EmptySeq
  <2>2. Tail(q) \in Seq(S) /\ Len(Tail(q)) = Len(q) - 1  BY <2>1, HeadTailProperties
  <2>3. Append(Tail(q), e) \in Seq(S) /\ Len(Append(Tail(q), e)) = Len(q)
    BY <1>1, <2>2, AppendProperties
  <2> QED  BY <1>1, <1>2, <2>1, <2>3 DEF Buffer_StoreElement, Ring!PutInto
<1>3. CASE Len(q) < BUFF_STATICSIZE
  BY <1>1, <1>3, AppendProperties DEF Buffer_StoreElement, Ring!PutInto
<1> QED  BY <1>1, <1>2, <1>3

LEMMA InitInv == Init => BridgeInv
<1> SUFFICES ASSUME Init PROVE BridgeInv
  OBVIOUS
<1>1. /\ CDC_TXRX_EPSIZE \in Nat /\ BUFF_STATICSIZE \in Nat /\ MaxOut \in Nat /\ MaxIn \in Nat
      /\ MaxDisruptions \in Nat
  BY SizeAssumption
<1>2. \A S : <<>> \in Seq(S) /\ Len(<<>>) = 0
  BY EmptySeq
<1>3. BridgeTypes
  <2>1. \A n \in Nat : 0 \in 0..n  OBVIOUS
  <2>2. /\ "received" \in Labels /\ "cpu" \in {"cpu", "host"}
        /\ "Unattached" \in {"Default", "Configured", "Suspended", "Unattached"}
    BY DEF Labels
  <2>3. FALSE \in BOOLEAN  OBVIOUS
  <2> QED  BY <1>1, <2>1, <2>2, <2>3, Zenon DEF Init, BridgeTypes, NoByte
<1>4. RingTypes /\ BankTypes /\ StreamTypes
  BY <1>1, <1>2 DEF Init, RingTypes, BankTypes, StreamTypes
<1>5. Places /\ BanksAgree
  BY DEF Init, Places, BanksAgree, Sending, NoByte
<1> QED  BY <1>3, <1>4, <1>5 DEF BridgeInv

\* The main program's steps from the host to the serial line.
LEMMA ReceiveInv ==
  ASSUME BridgeInv,
         \/ Received \/ Count \/ LoopEnds \/ LoopReceives \/ ReadByte \/ Transmit \/ TransmitEnds
         \/ Task \/ TaskOUT \/ FlushTest \/ NoRequest
  PROVE  BridgeInv'
<1> USE DEF OutFrame, inVars, outVars, usbVars, hostVars, gaps, Goto
<1>1. /\ CDC_TXRX_EPSIZE \in Nat /\ BUFF_STATICSIZE \in Nat /\ MaxOut \in Nat /\ MaxIn \in Nat
  BY SizeAssumption
<1>2. /\ Len(outBank) \in Nat /\ outBank \in Seq(1..MaxOut) /\ Len(outBank) <= CDC_TXRX_EPSIZE
      /\ Len(USBtoUSART) \in Nat
  BY LenProperties DEF BridgeInv, BankTypes, RingTypes
<1>3. ASSUME UNCHANGED <<outVars, USBtoUSART, line, held>>, OutFrame, pc' \in Labels \ Sending,
             pc \notin Sending, DataBytesRem' = DataBytesRem, pc' \notin {"loop", "readByte"}
      PROVE  BridgeInv'
  BY <1>3 DEF BridgeInv, BridgeTypes, RingTypes, BankTypes, StreamTypes, Places, BanksAgree,
              Sending, RWAL
<1>4. CASE Received
  <2>1. CASE Ready
    BY <1>3, <1>4, <2>1 DEF Received, Labels, Sending
  <2>2. CASE ~Ready
    BY <1>1, <1>2, <1>4, <2>2 DEF Received, BridgeInv, BridgeTypes, RingTypes, BankTypes, StreamTypes,
              Places, BanksAgree, Labels, Sending, RWAL
  <2> QED  BY <2>1, <2>2
<1>5. CASE Count
  BY <1>1, <1>2, <1>5 DEF Count, BridgeInv, BridgeTypes, RingTypes, BankTypes, StreamTypes, Places,
              BanksAgree, Labels, Sending, RWAL
<1>6. CASE LoopEnds \/ TransmitEnds \/ Task \/ FlushTest \/ NoRequest
  BY <1>3, <1>6 DEF LoopEnds, TransmitEnds, Task, FlushTest, NoRequest, Labels, Sending
<1>7. CASE LoopReceives
  <2>1. CASE Ready
    BY <1>1, <1>2, <1>7, <2>1 DEF LoopReceives, BridgeInv, BridgeTypes, RingTypes, BankTypes,
       StreamTypes, Places, BanksAgree, Labels, Sending, RWAL
  <2>2. CASE ~Ready
    <3>1. USBtoUSART' \in Seq(0..MaxOut) /\ Len(USBtoUSART') <= BUFF_STATICSIZE
      BY <1>1, <1>7, <2>2, StoreTypes DEF LoopReceives, BridgeInv, RingTypes, NoByte
    <3>2. DataBytesRem' \in 0..CDC_TXRX_EPSIZE /\ DataBytesRem' <= DataBytesRem
      BY <1>1, <1>7, <2>2 DEF LoopReceives, BridgeInv, BridgeTypes
    <3> QED  BY <1>2, <1>7, <2>2, <3>1, <3>2 DEF LoopReceives, BridgeInv, BridgeTypes, RingTypes,
                BankTypes, StreamTypes, Places, BanksAgree, Labels, Sending, RWAL
  <2> QED  BY <2>1, <2>2
<1>8. CASE ReadByte
  <2>1. DataBytesRem' \in 0..CDC_TXRX_EPSIZE /\ DataBytesRem' = DataBytesRem - 1 /\ DataBytesRem > 0
    BY <1>1, <1>8 DEF ReadByte, BridgeInv, BridgeTypes, Places
  <2>2. CASE banks /\ USBtoUSART' = Buffer_StoreElement(USBtoUSART, Head(outBank))
                   /\ outBank' = Tail(outBank) /\ OUTReceived' = (Tail(outBank) # <<>>)
    <3>1. outBank # <<>>
      BY <1>8, <2>1, <2>2, EmptySeq DEF ReadByte, BridgeInv, Places, BridgeTypes
    <3>2. /\ Head(outBank) \in 1..MaxOut /\ outBank' \in Seq(1..MaxOut)
          /\ Len(outBank') = Len(outBank) - 1
      BY <1>2, <2>2, <3>1, HeadTailProperties
    <3>3. USBtoUSART' \in Seq(0..MaxOut) /\ Len(USBtoUSART') <= BUFF_STATICSIZE
      BY <1>1, <2>2, <3>2, StoreTypes DEF BridgeInv, RingTypes
    <3>4. /\ Len(outBank') <= CDC_TXRX_EPSIZE
          /\ DataBytesRem <= Len(outBank) => DataBytesRem' <= Len(outBank')
      BY <1>1, <1>2, <2>1, <3>2 DEF BridgeInv, BridgeTypes
    <3>5. /\ pc = "readByte" /\ pc' = "loop" /\ held' = held /\ line' = line
          /\ OutFrame /\ (~OUTReceived' => outBank' = <<>>)
      BY <1>8, <2>2 DEF ReadByte
    <3>6. BridgeTypes' /\ RingTypes' /\ BankTypes' /\ StreamTypes'
      BY <2>1, <2>2, <3>2, <3>3, <3>4, <3>5 DEF BridgeInv, BridgeTypes, RingTypes, BankTypes, StreamTypes,
         Labels
    <3>7. Places' /\ BanksAgree'
      BY <2>2, <3>4, <3>5 DEF BridgeInv, Places, BanksAgree, Sending
    <3> QED  BY <3>6, <3>7 DEF BridgeInv
  <2>3. CASE ~banks /\ USBtoUSART' = Buffer_StoreElement(USBtoUSART, NoByte) /\ UNCHANGED outVars
    <3>1. USBtoUSART' \in Seq(0..MaxOut) /\ Len(USBtoUSART') <= BUFF_STATICSIZE
      BY <1>1, <2>3, StoreTypes DEF BridgeInv, RingTypes, NoByte
    <3> QED  BY <1>8, <2>1, <2>3, <3>1 DEF ReadByte, BridgeInv, BridgeTypes, RingTypes,
                BankTypes, StreamTypes, Places, BanksAgree, Labels, Sending, RWAL
  <2> QED  BY <1>8, <2>2, <2>3 DEF ReadByte
<1>9. CASE Transmit
  <2>1. /\ Head(USBtoUSART) \in 0..MaxOut /\ USBtoUSART' \in Seq(0..MaxOut)
        /\ Len(USBtoUSART') <= BUFF_STATICSIZE
    BY <1>1, <1>2, <1>9, HeadTailProperties DEF Transmit, BridgeInv, RingTypes
  <2>2. line' \in Seq(0..MaxOut)
    BY <1>9, <2>1, AppendProperties DEF Transmit, BridgeInv, StreamTypes
  <2> QED  BY <1>9, <2>1, <2>2 DEF Transmit, mainVars, BridgeInv, BridgeTypes, RingTypes,
              BankTypes, StreamTypes, Places, BanksAgree, Labels, Sending, RWAL
<1>10. CASE TaskOUT
  BY <1>10 DEF TaskOUT, BridgeInv, BridgeTypes, RingTypes, BankTypes, StreamTypes, Places, BanksAgree,
              Labels, Sending, RWAL
<1> QED  BY <1>4, <1>5, <1>6, <1>7, <1>8, <1>9, <1>10

\* The main program's steps from the serial line to the host.
LEMMA SendInv ==
  ASSUME BridgeInv,
         DrainEnds \/ DrainTakes \/ SendTest \/ SendSelect \/ SendWait \/ Write \/ Flush \/ FlushWait
  PROVE  BridgeInv'
<1> USE DEF InFrame, inVars, outVars, usbVars, hostVars, gaps, Goto, MayFindReady, MayGiveUp
<1>1. CDC_TXRX_EPSIZE \in Nat \ {0} /\ BUFF_STATICSIZE \in Nat /\ MaxIn \in Nat
  BY SizeAssumption
<1>2. /\ inBank \in Seq(1..MaxIn) /\ Len(inBank) \in Nat /\ Len(inBank) <= CDC_TXRX_EPSIZE
      /\ Len(USARTtoUSB) \in Nat
  BY LenProperties DEF BridgeInv, BankTypes, RingTypes
<1>3. CASE DrainEnds
  BY <1>3 DEF DrainEnds, BridgeInv, BridgeTypes, RingTypes, BankTypes,
              StreamTypes, Places, BanksAgree, Labels, Sending, RWAL
<1>4. CASE DrainTakes
  <2>1. /\ held' \in 1..MaxIn /\ USARTtoUSB' \in Seq(1..MaxIn)
        /\ Len(USARTtoUSB') <= BUFF_STATICSIZE
    BY <1>1, <1>2, <1>4, HeadTailProperties DEF DrainTakes, BridgeInv, RingTypes
  <2>2. held' \in 0..MaxIn /\ held' # NoByte
    BY <1>1, <2>1 DEF NoByte
  <2> QED  BY <1>4, <2>1, <2>2 DEF DrainTakes, BridgeInv, BridgeTypes, RingTypes, BankTypes,
              StreamTypes, Places, BanksAgree, Labels, Sending, RWAL
<1>5. CASE SendTest
  <2>1. held' \in 0..MaxIn /\ (held' = NoByte <=> ~Ready)
    BY <1>1, <1>5 DEF SendTest, BridgeInv, BridgeTypes, Places, Sending, NoByte
  <2>2. inGap' \in BOOLEAN /\ (Ready => pc' = "sendSelect") /\ (~Ready => pc' = "drain")
    BY <1>5 DEF SendTest, Ready
  <2> QED  BY <1>5, <2>1, <2>2 DEF SendTest, BridgeInv, BridgeTypes, RingTypes, BankTypes,
              StreamTypes, Places, BanksAgree, Labels, Sending, RWAL
<1>6. CASE SendSelect
  <2>1. CASE banks
    <3>1. RWAL => pc' = "write" /\ inOwner' = "cpu"
      BY <1>6, <2>1 DEF SendSelect
    <3>2. ~RWAL => pc' = "sendWait" /\ inOwner' = "host"
      BY <1>6, <2>1 DEF SendSelect
    <3> QED  BY <1>6, <2>1, <3>1, <3>2 DEF SendSelect, BridgeInv, BridgeTypes, RingTypes, BankTypes,
              StreamTypes, Places, BanksAgree, Labels, Sending, RWAL
  <2>2. CASE ~banks
    BY <1>6, <2>2 DEF SendSelect, BridgeInv, BridgeTypes, RingTypes, BankTypes,
              StreamTypes, Places, BanksAgree, Labels, Sending, RWAL
  <2> QED  BY <2>1, <2>2 DEF BridgeInv, BridgeTypes
<1>7. CASE SendWait
  <2>1. CASE MayFindReady /\ pc' = "write" /\ UNCHANGED <<held, inGap, late>>
    <3>1. banks => inBank = <<>> /\ Len(inBank) = 0 /\ inOwner = "cpu"
      BY <1>7, <2>1, EmptySeq DEF SendWait, BridgeInv, Places
    <3> QED  BY <1>1, <1>7, <2>1, <3>1 DEF SendWait, BridgeInv, BridgeTypes, RingTypes, BankTypes,
              StreamTypes, Places, BanksAgree, Labels, Sending, RWAL
  <2>2. CASE pc' = "drain" /\ held' = NoByte /\ inGap' = TRUE /\ late' = TRUE
    BY <1>1, <1>7, <2>2 DEF SendWait, NoByte, BridgeInv, BridgeTypes, RingTypes, BankTypes,
              StreamTypes, Places, BanksAgree, Labels, Sending, RWAL
  <2> QED  BY <1>7, <2>1, <2>2 DEF SendWait
<1>8. CASE Write
  <2>1. held \in 1..MaxIn
    BY <1>1, <1>8 DEF Write, BridgeInv, BridgeTypes, Places, Sending, NoByte
  <2>2. inBank' \in Seq(1..MaxIn) /\ Len(inBank') <= CDC_TXRX_EPSIZE /\ (~banks => inBank' = inBank)
    <3>1. CASE banks /\ RWAL
      BY <1>1, <1>2, <1>8, <2>1, <3>1, AppendProperties DEF Write, RWAL
    <3>2. CASE ~(banks /\ RWAL)
      BY <1>2, <1>8, <3>2 DEF Write
    <3> QED  BY <3>1, <3>2
  <2>3. held' \in 0..MaxIn /\ held' = NoByte /\ inGap' \in BOOLEAN
    BY <1>1, <1>8 DEF Write, NoByte
  <2> QED  BY <1>8, <2>2, <2>3 DEF Write, BridgeInv, BridgeTypes, RingTypes, BankTypes,
              StreamTypes, Places, BanksAgree, Labels, Sending, RWAL
<1>9. CASE Flush
  <2>1. pc = "flush" /\ pc' \in {"usb", "flushWait"} /\ inOwner' \in {"cpu", "host"}
    BY <1>9 DEF Flush, BridgeInv, BridgeTypes
  <2> QED  BY <1>9, <2>1 DEF Flush, BridgeInv, BridgeTypes, RingTypes, BankTypes,
              StreamTypes, Places, BanksAgree, Labels, Sending, RWAL
<1>10. CASE FlushWait
  <2>1. inOwner' \in {"cpu", "host"} /\ late' \in BOOLEAN
    BY <1>10 DEF FlushWait, BridgeInv, BridgeTypes
  <2> QED  BY <1>10, <2>1 DEF FlushWait, BridgeInv, BridgeTypes, RingTypes, BankTypes,
              StreamTypes, Places, BanksAgree, Labels, Sending, RWAL
<1> QED  BY <1>3, <1>4, <1>5, <1>6, <1>7, <1>8, <1>9, <1>10

\* The requests, which the main program serves.
LEMMA RequestInv == BridgeInv /\ Request => BridgeInv'
<1> SUFFICES ASSUME BridgeInv, Request PROVE BridgeInv'
  OBVIOUS
<1> USE DEF inVars, outVars, hostVars, gaps, Goto, Disrupt
<1>1. CDC_TXRX_EPSIZE \in Nat /\ MaxDisruptions \in Nat
  BY SizeAssumption
<1>2. \A S : <<>> \in Seq(S) /\ Len(<<>>) = 0
  BY EmptySeq
<1>3. CASE SetConfiguration
  <2>1. disruptions' \in 0..MaxDisruptions
    BY <1>1, <1>3 DEF SetConfiguration, BridgeInv, BridgeTypes
  <2>2. /\ outBank' = <<>> /\ inBank' = <<>> /\ inOwner' = "cpu" /\ lastIN' = 0
        /\ OUTReceived' = FALSE /\ inGap' \in BOOLEAN /\ outGap' \in BOOLEAN
    BY <1>3 DEF SetConfiguration, EmptyBanks
  <2>3. BankTypes' /\ lastIN' \in 0..CDC_TXRX_EPSIZE
    BY <1>1, <1>2, <2>2 DEF BankTypes
  <2> QED  BY <1>3, <2>1, <2>2, <2>3 DEF SetConfiguration, BridgeInv, BridgeTypes, RingTypes, BankTypes,
              StreamTypes, Places, BanksAgree, Labels, Sending, RWAL
<1>4. CASE SetLineEncoding
  BY <1>4 DEF SetLineEncoding, BridgeInv, BridgeTypes, RingTypes, BankTypes,
              StreamTypes, Places, BanksAgree, Labels, Sending, RWAL
<1> QED  BY <1>3, <1>4 DEF Request

\* The handlers.
LEMMA HandlerInv == BridgeInv /\ (USARTReceive \/ USBHandler) => BridgeInv'
<1> SUFFICES ASSUME BridgeInv, USARTReceive \/ USBHandler PROVE BridgeInv'
  OBVIOUS
<1> USE DEF inVars, outVars, hostVars, gaps, mainVars, usbVars, HandlerFrame, BanksFrame, Disrupt
<1>1. CDC_TXRX_EPSIZE \in Nat /\ MaxDisruptions \in Nat /\ MaxIn \in Nat
  BY SizeAssumption
<1>2. \A S : <<>> \in Seq(S) /\ Len(<<>>) = 0
  BY EmptySeq
<1>3. CASE USARTReceive
  <2>1. arrived' \in 1..MaxIn /\ arrived' \in 0..MaxIn
    BY <1>1, <1>3 DEF USARTReceive, BridgeInv, BridgeTypes
  <2>2. USARTtoUSB' \in Seq(1..MaxIn) /\ Len(USARTtoUSB') <= BUFF_STATICSIZE
    BY <1>3, <2>1, StoreTypes DEF USARTReceive, BridgeInv, RingTypes
  <2>3. inGap' \in BOOLEAN
    BY <1>3 DEF USARTReceive
  <2> QED  BY <1>3, <2>1, <2>2, <2>3 DEF USARTReceive, BridgeInv, BridgeTypes, RingTypes, BankTypes,
              StreamTypes, Places, BanksAgree, Labels, Sending, RWAL
<1>4. CASE BusReset
  <2>1. disruptions' \in 0..MaxDisruptions
    BY <1>1, <1>4 DEF BusReset, BridgeInv, BridgeTypes
  <2>2. /\ outBank' = <<>> /\ inBank' = <<>> /\ inOwner' = "cpu" /\ lastIN' = 0
        /\ OUTReceived' = FALSE /\ inGap' \in BOOLEAN /\ outGap' \in BOOLEAN
    BY <1>4 DEF BusReset, EmptyBanks
  <2>3. BankTypes' /\ lastIN' \in 0..CDC_TXRX_EPSIZE
    BY <1>1, <1>2, <2>2 DEF BankTypes
  <2> QED  BY <1>4, <2>1, <2>2, <2>3 DEF BusReset, BridgeInv, BridgeTypes, RingTypes, BankTypes,
              StreamTypes, Places, BanksAgree, Labels, Sending, RWAL
<1>5. CASE Attach \/ Suspend \/ WakeUp
  <2>1. disruptions' \in 0..MaxDisruptions
    BY <1>1, <1>5 DEF Attach, Suspend, WakeUp, BridgeInv, BridgeTypes
  <2>2. USB_DeviceState' \in {"Default", "Configured", "Suspended"}
    BY <1>5 DEF Attach, Suspend, WakeUp
  <2>3. UNCHANGED <<lastIN, configured, banks, outVars, inVars, outGap, inGap>> /\ HandlerFrame
    BY <1>5 DEF Attach, Suspend, WakeUp
  <2> QED  BY <2>1, <2>2, <2>3 DEF BridgeInv, BridgeTypes, RingTypes, BankTypes,
              StreamTypes, Places, BanksAgree, Labels, Sending, RWAL
<1>6. CASE Detach
  <2>1. disruptions' \in 0..MaxDisruptions /\ lastIN' \in 0..CDC_TXRX_EPSIZE
    BY <1>1, <1>6 DEF Detach, BridgeInv, BridgeTypes
  <2>2. /\ USB_DeviceState' \in {"Default", "Configured", "Suspended", "Unattached"}
        /\ configured' \in BOOLEAN /\ ~configured'
        /\ UNCHANGED <<banks, outVars, inVars, outGap, inGap>> /\ HandlerFrame
    BY <1>6 DEF Detach
  <2> QED  BY <2>1, <2>2 DEF BridgeInv, BridgeTypes, RingTypes, BankTypes,
              StreamTypes, Places, BanksAgree, Labels, Sending, RWAL
<1> QED  BY <1>3, <1>4, <1>5, <1>6 DEF USBHandler

\* The host's transfers.
LEMMA HostInv ==
  ASSUME BridgeInv, HostTakes \/ \E n \in 0..CDC_TXRX_EPSIZE : HostSends(n)
  PROVE  BridgeInv'
<1> USE DEF inVars, outVars, gaps, mainVars, usbVars, Bus
<1>1. CDC_TXRX_EPSIZE \in Nat /\ MaxOut \in Nat /\ MaxIn \in Nat
  BY SizeAssumption
<1>2. CASE HostTakes
  <2>1. got' \in Seq(1..MaxIn)
    BY <1>2, ConcatProperties DEF HostTakes, BridgeInv, StreamTypes, BankTypes
  <2>2. lastIN' \in 0..CDC_TXRX_EPSIZE
    BY <1>1, <1>2, LenProperties DEF HostTakes, BridgeInv, BankTypes
  <2>3. inBank' \in Seq(1..MaxIn) /\ Len(inBank') <= CDC_TXRX_EPSIZE /\ inBank' = <<>>
    BY <1>1, <1>2, EmptySeq DEF HostTakes
  <2>4. pc = "write" => ~banks
    BY <1>2 DEF HostTakes, BridgeInv, Places, RWAL
  <2> QED  BY <1>2, <2>1, <2>2, <2>3, <2>4 DEF HostTakes, BridgeInv, BridgeTypes, RingTypes, BankTypes,
              StreamTypes, Places, BanksAgree, Labels, Sending, RWAL
<1>3. ASSUME NEW n \in 0..CDC_TXRX_EPSIZE, HostSends(n) PROVE BridgeInv'
  <2>1. n \in Nat /\ sent \in Nat /\ sent' \in 0..MaxOut /\ sent + n <= MaxOut
    BY <1>1, <1>3 DEF HostSends, BridgeInv, BridgeTypes
  <2>2. outBank' \in Seq(1..MaxOut) /\ Len(outBank') <= CDC_TXRX_EPSIZE
    <3>1. \A i \in 1..n : sent + i \in 1..MaxOut
      BY <1>1, <2>1
    <3>2. outBank' = [i \in 1..n |-> sent + i]
      BY <1>3 DEF HostSends
    <3>3. outBank' \in Seq(1..MaxOut) /\ Len(outBank') = n
      BY <2>1, <3>1, <3>2, IsASeq, LenProperties
    <3> QED  BY <1>1, <2>1, <3>3
  <2>3. outBank = <<>> /\ Len(outBank) = 0
    BY <1>3, EmptySeq DEF HostSends, BridgeInv, BanksAgree
  <2>4. pc \in {"loop", "readByte"} /\ banks => DataBytesRem <= Len(outBank')
    BY <1>1, <2>1, <2>2, <2>3, LenProperties DEF BridgeInv, Places, BridgeTypes
  <2> QED  BY <1>3, <2>1, <2>2, <2>4 DEF HostSends, BridgeInv, BridgeTypes, RingTypes, BankTypes,
              StreamTypes, Places, BanksAgree, Labels, Sending, RWAL
<1> QED  BY <1>2, <1>3

LEMMA BridgeNext == BridgeInv /\ [Next]_vars => BridgeInv'
<1> SUFFICES ASSUME BridgeInv, [Next]_vars PROVE BridgeInv'
  OBVIOUS
<1>1. CASE MainStep
  BY <1>1, ReceiveInv, SendInv DEF MainStep
<1>2. CASE Request \/ USARTReceive \/ USBHandler
  BY <1>2, RequestInv, HandlerInv
<1>3. CASE HostTakes \/ \E n \in 0..CDC_TXRX_EPSIZE : HostSends(n)
  BY <1>3, HostInv
<1>4. CASE UNCHANGED vars
  BY <1>4 DEF vars, mainVars, outVars, inVars, usbVars, hostVars, gaps, BridgeInv, BridgeTypes, RingTypes, BankTypes,
              StreamTypes, Places, BanksAgree, Labels, Sending, RWAL
<1> QED  BY <1>1, <1>2, <1>3, <1>4 DEF Next

\* A sequence that is short enough.
LEMMA UpTo ==
  ASSUME NEW S, NEW n \in Nat, NEW s \in Seq(S), Len(s) <= n
  PROVE  s \in SeqUpTo(S, n)
<1>1. Len(s) \in 0..n /\ s \in [1..Len(s) -> S]
  BY LenProperties
<1> QED  BY <1>1 DEF SeqUpTo

LEMMA InvImpliesTypes == BridgeInv => TypeOK
<1> SUFFICES ASSUME BridgeInv PROVE TypeOK
  OBVIOUS
<1>1. CDC_TXRX_EPSIZE \in Nat /\ BUFF_STATICSIZE \in Nat
  BY SizeAssumption
<1>2. /\ USBtoUSART \in SeqUpTo(0..MaxOut, BUFF_STATICSIZE)
      /\ USARTtoUSB \in SeqUpTo(1..MaxIn, BUFF_STATICSIZE)
      /\ outBank \in SeqUpTo(1..MaxOut, CDC_TXRX_EPSIZE)
      /\ inBank \in SeqUpTo(1..MaxIn, CDC_TXRX_EPSIZE)
  BY <1>1, UpTo DEF BridgeInv, RingTypes, BankTypes
<1>3. BridgeTypes
  BY DEF BridgeInv
<1>4. /\ {BaudRateBPS, RXCIE1, banks, configured, OUTReceived} \subseteq BOOLEAN
      /\ {outGap, inGap, late} \subseteq BOOLEAN
  BY <1>3, Zenon DEF BridgeTypes
<1> QED  BY <1>2, <1>3, <1>4 DEF BridgeTypes, TypeOK

LEMMA BridgeInvariant == Spec => []BridgeInv
<1>1. Init => BridgeInv  BY InitInv
<1>2. BridgeInv /\ [Next]_vars => BridgeInv'  BY BridgeNext
<1> QED  BY <1>1, <1>2, PTL DEF Spec

\* The buffers and the banks never hold more than fits, and everything has its
\* type.
THEOREM BridgeTypeCorrect == Spec => []TypeOK
<1>1. BridgeInv => TypeOK  BY InvImpliesTypes
<1> QED  BY <1>1, BridgeInvariant, PTL

(***************************************************************************)
(* From the host to the serial line.                                       *)
(***************************************************************************)
\* A byte is added at the end of a stream.
LEMMA Added ==
  ASSUME NEW s \in Seq(Nat), NEW e \in Nat
  PROVE  /\ Append(s, e) \in Seq(Nat)
         /\ Bytes(Append(s, e)) = Bytes(s) \cup ({e} \ {NoByte})
         /\ InOrder(Append(s, e)) <=> InOrder(s) /\ Below(Bytes(s), {e} \ {NoByte})
<1>1. Append(s, e) = s \o <<e>>
  BY AppendIsConcat
<1>2. <<e>> \in Seq(Nat) /\ Bytes(<<e>>) = {e} \ {NoByte} /\ InOrder(<<e>>)
  BY Short
<1>3. /\ s \o <<e>> \in Seq(Nat)
      /\ Bytes(s \o <<e>>) = Bytes(s) \cup Bytes(<<e>>)
      /\ InOrder(s \o <<e>>) <=> InOrder(s) /\ InOrder(<<e>>) /\ Below(Bytes(s), Bytes(<<e>>))
  BY <1>2, Join
<1> QED  BY <1>1, <1>2, <1>3

LEMMA OutParts ==
  ASSUME NEW a \in Seq(Nat), NEW b \in Seq(Nat), NEW c \in Seq(Nat)
  PROVE  /\ Bytes(a \o b \o c) = Bytes(a) \cup Bytes(b) \cup Bytes(c)
         /\ InOrder(a \o b \o c) <=>
              /\ InOrder(a) /\ InOrder(b) /\ InOrder(c)
              /\ Below(Bytes(a), Bytes(b)) /\ Below(Bytes(a) \cup Bytes(b), Bytes(c))
<1>1. /\ a \o b \in Seq(Nat)
      /\ Bytes(a \o b) = Bytes(a) \cup Bytes(b)
      /\ InOrder(a \o b) <=> InOrder(a) /\ InOrder(b) /\ Below(Bytes(a), Bytes(b))
  BY Join
<1> DEFINE d == a \o b
<1>2. d \in Seq(Nat)  BY <1>1
<1> HIDE DEF d
<1>3. /\ Bytes(d \o c) = Bytes(d) \cup Bytes(c)
      /\ InOrder(d \o c) <=> InOrder(d) /\ InOrder(c) /\ Below(Bytes(d), Bytes(c))
  BY <1>2, Join
<1> QED  BY <1>1, <1>3 DEF d

LEMMA OutSeqs ==
  ASSUME BridgeInv
  PROVE  line \in Seq(Nat) /\ USBtoUSART \in Seq(Nat) /\ outBank \in Seq(Nat)
<1>1. MaxOut \in Nat  BY SizeAssumption
<1> QED  BY <1>1, BytesAreNat DEF BridgeInv, StreamTypes, RingTypes, BankTypes

LEMMA OutKept ==
  ASSUME HostBytesInOrder, OutStream' = OutStream, sent' = sent, outGap' = outGap
  PROVE  HostBytesInOrder'
BY DEF HostBytesInOrder

\* A place in the stream is filled with a byte that the host did not send.
LEMMA OutFilled ==
  ASSUME BridgeInv, HostBytesInOrder, USBtoUSART' = Append(USBtoUSART, NoByte),
         UNCHANGED <<line, outBank, sent, outGap>>
  PROVE  HostBytesInOrder'
<1> DEFINE q == Append(USBtoUSART, NoByte)
<1>1. NoByte \in Nat /\ line \in Seq(Nat) /\ USBtoUSART \in Seq(Nat) /\ outBank \in Seq(Nat)
  BY OutSeqs DEF NoByte
<1>2. /\ q \in Seq(Nat) /\ Bytes(q) = Bytes(USBtoUSART) \cup ({NoByte} \ {NoByte})
      /\ InOrder(q) <=> InOrder(USBtoUSART) /\ Below(Bytes(USBtoUSART), {NoByte} \ {NoByte})
  BY <1>1, Added
<1>3. Below(Bytes(USBtoUSART), {NoByte} \ {NoByte})
  BY DEF Below
<1>4. OutStream' = line \o q \o outBank
  BY DEF OutStream
<1> HIDE DEF q
<1>5. q \in Seq(Nat) /\ Bytes(q) = Bytes(USBtoUSART) /\ (InOrder(q) <=> InOrder(USBtoUSART))
  BY <1>2, <1>3
<1>6. /\ Bytes(line \o q \o outBank) = Bytes(OutStream)
      /\ InOrder(line \o q \o outBank) <=> InOrder(OutStream)
  <2>1. /\ Bytes(OutStream) = Bytes(line) \cup Bytes(USBtoUSART) \cup Bytes(outBank)
        /\ InOrder(OutStream) <=>
             /\ InOrder(line) /\ InOrder(USBtoUSART) /\ InOrder(outBank)
             /\ Below(Bytes(line), Bytes(USBtoUSART))
             /\ Below(Bytes(line) \cup Bytes(USBtoUSART), Bytes(outBank))
    BY <1>1, OutParts DEF OutStream
  <2>2. q \in Seq(Nat)
    BY <1>5
  <2>3. /\ Bytes(line \o q \o outBank) = Bytes(line) \cup Bytes(q) \cup Bytes(outBank)
        /\ InOrder(line \o q \o outBank) <=>
             /\ InOrder(line) /\ InOrder(q) /\ InOrder(outBank)
             /\ Below(Bytes(line), Bytes(q))
             /\ Below(Bytes(line) \cup Bytes(q), Bytes(outBank))
    BY <1>1, <2>2, OutParts
  <2> QED  BY <1>5, <2>1, <2>3
<1>7. Bytes(OutStream') = Bytes(OutStream) /\ (InOrder(OutStream') <=> InOrder(OutStream))
  BY <1>4, <1>6, Zenon
<1>8. Bytes(OutStream)' = Bytes(OutStream') /\ InOrder(OutStream)' = InOrder(OutStream')
  BY DEF Bytes, InOrder
<1> QED  BY <1>7, <1>8 DEF HostBytesInOrder

\* The bank is cleared.
LEMMA OutCleared ==
  ASSUME BridgeInv, HostBytesInOrder, EmptyBanks, UNCHANGED <<line, USBtoUSART, sent>>
  PROVE  HostBytesInOrder'
<1>1. outBank' = <<>> /\ (outGap' <=> outGap \/ outBank # <<>>)
  BY DEF EmptyBanks
<1>2. outBank' \in Seq(Nat) /\ Bytes(outBank') = {} /\ InOrder(outBank')
  BY <1>1, Short, EmptySeq
<1>3. /\ Bytes(OutStream') = Bytes(line) \cup Bytes(USBtoUSART)
      /\ InOrder(OutStream) => InOrder(OutStream')
      /\ Bytes(OutStream) = Bytes(line) \cup Bytes(USBtoUSART) \cup Bytes(outBank)
  BY <1>2, OutSeqs, OutParts DEF OutStream, Below
<1>4. outBank = <<>> => Bytes(outBank) = {}
  BY Short
<1>5. InOrder(OutStream') /\ Bytes(OutStream') \subseteq 1..sent'
  BY <1>3 DEF HostBytesInOrder
<1>6. ~outGap' => 1..sent' \subseteq Bytes(OutStream')
  BY <1>1, <1>3, <1>4 DEF HostBytesInOrder
<1> QED  BY <1>5, <1>6 DEF HostBytesInOrder, Bytes, InOrder

\* The host sends a packet.
LEMMA OutSent ==
  ASSUME BridgeInv, HostBytesInOrder, NEW n \in 0..CDC_TXRX_EPSIZE, HostSends(n)
  PROVE  HostBytesInOrder'
<1>1. n \in Nat /\ sent \in Nat /\ sent' = sent + n
  BY SizeAssumption DEF HostSends, BridgeInv, BridgeTypes
<1>2. outBank' = [i \in 1..n |-> sent + i] /\ UNCHANGED <<line, USBtoUSART, outGap>>
  BY DEF HostSends, gaps
<1>3. outBank = <<>> /\ Bytes(outBank) = {}
  BY Short DEF HostSends, BridgeInv, BanksAgree
<1>4. outBank' \in Seq(Nat) /\ DOMAIN outBank' = 1..n
  BY <1>1, <1>2, IsASeq
<1>5. Bytes(outBank') = (sent + 1)..(sent + n)
  <2>1. ASSUME NEW b \in Bytes(outBank') PROVE b \in (sent + 1)..(sent + n)
    <3>1. PICK i \in 1..n : b = sent + i  BY <1>2, <1>4 DEF Bytes
    <3> QED  BY <1>1, <3>1
  <2>2. ASSUME NEW b \in (sent + 1)..(sent + n) PROVE b \in Bytes(outBank')
    <3>1. b - sent \in 1..n /\ b = sent + (b - sent) /\ b # 0  BY <1>1
    <3> QED  BY <1>2, <1>4, <3>1 DEF Bytes, NoByte
  <2> QED  BY <2>1, <2>2
<1>6. InOrder(outBank')
  <2>1. \A i, j \in 1..n : i < j => sent + i < sent + j  BY <1>1
  <2> QED  BY <1>2, <1>4, <2>1 DEF InOrder
<1>7. /\ Bytes(OutStream') = Bytes(OutStream) \cup Bytes(outBank')
      /\ Below(Bytes(OutStream), Bytes(outBank')) /\ InOrder(OutStream) => InOrder(OutStream')
  <2>2. line \in Seq(Nat) /\ USBtoUSART \in Seq(Nat) /\ outBank \in Seq(Nat)
    BY OutSeqs
  <2>3. /\ Bytes(OutStream) = Bytes(line) \cup Bytes(USBtoUSART) \cup Bytes(outBank)
        /\ InOrder(OutStream) <=>
             /\ InOrder(line) /\ InOrder(USBtoUSART) /\ InOrder(outBank)
             /\ Below(Bytes(line), Bytes(USBtoUSART))
             /\ Below(Bytes(line) \cup Bytes(USBtoUSART), Bytes(outBank))
    BY <2>2, OutParts DEF OutStream
  <2>4. /\ Bytes(OutStream') = Bytes(line) \cup Bytes(USBtoUSART) \cup Bytes(outBank')
        /\ InOrder(OutStream') <=>
             /\ InOrder(line) /\ InOrder(USBtoUSART) /\ InOrder(outBank')
             /\ Below(Bytes(line), Bytes(USBtoUSART))
             /\ Below(Bytes(line) \cup Bytes(USBtoUSART), Bytes(outBank'))
    <3>1. OutStream' = line \o USBtoUSART \o outBank'
      BY <1>2 DEF OutStream
    <3>2. /\ Bytes(line \o USBtoUSART \o outBank') = Bytes(line) \cup Bytes(USBtoUSART) \cup Bytes(outBank')
          /\ InOrder(line \o USBtoUSART \o outBank') <=>
               /\ InOrder(line) /\ InOrder(USBtoUSART) /\ InOrder(outBank')
               /\ Below(Bytes(line), Bytes(USBtoUSART))
               /\ Below(Bytes(line) \cup Bytes(USBtoUSART), Bytes(outBank'))
      BY <1>4, <2>2, OutParts
    <3> QED  BY <3>1, <3>2, Zenon
  <2> QED  BY <1>3, <1>6, <2>3, <2>4
<1>8. Below(Bytes(OutStream), Bytes(outBank'))
  BY <1>1, <1>5 DEF HostBytesInOrder, Below
<1>9. InOrder(OutStream') /\ Bytes(OutStream') \subseteq 1..sent'
  BY <1>1, <1>5, <1>7, <1>8 DEF HostBytesInOrder
<1>10. ~outGap' => 1..sent' \subseteq Bytes(OutStream')
  BY <1>1, <1>2, <1>5, <1>7 DEF HostBytesInOrder
<1> QED  BY <1>9, <1>10 DEF HostBytesInOrder, Bytes, InOrder

LEMMA OutNext ==
  ASSUME BridgeInv, HostBytesInOrder, [Next]_vars
  PROVE  HostBytesInOrder'
<1> USE DEF OutFrame, InFrame, inVars, outVars, usbVars, hostVars, gaps, mainVars, Goto
<1>1. ASSUME UNCHANGED <<line, USBtoUSART, outBank, sent, outGap>> PROVE HostBytesInOrder'
  BY <1>1, OutKept DEF OutStream
<1>2. CASE Received \/ Count \/ LoopEnds \/ TransmitEnds \/ Task \/ TaskOUT \/ FlushTest \/ NoRequest
  BY <1>1, <1>2 DEF Received, Count, LoopEnds, TransmitEnds, Task, TaskOUT, FlushTest, NoRequest
<1>3. CASE DrainEnds \/ DrainTakes \/ SendTest \/ SendSelect \/ SendWait \/ Write \/ Flush \/ FlushWait
  BY <1>1, <1>3 DEF DrainEnds, DrainTakes, SendTest, SendSelect, SendWait, Write, Flush, FlushWait
<1>4. CASE LoopReceives
  <2>1. CASE Ready
    BY <1>1, <1>4, <2>1 DEF LoopReceives
  <2>2. CASE ~Ready
    <3>1. USBtoUSART' = Append(USBtoUSART, NoByte)
      <4>1. Len(USBtoUSART) < BUFF_STATICSIZE /\ Len(USBtoUSART) \in Nat
        BY <1>4, LenProperties DEF LoopReceives, BridgeInv, RingTypes
      <4> QED  BY <1>4, <2>2, <4>1, SizeAssumption DEF LoopReceives, Buffer_StoreElement, Ring!PutInto
    <3> QED  BY <1>4, <2>2, <3>1, OutFilled DEF LoopReceives
  <2> QED  BY <2>1, <2>2
<1>5. CASE ReadByte
  <2>1. /\ Len(USBtoUSART) < BUFF_STATICSIZE
        /\ banks => outBank # <<>>
    BY <1>5, EmptySeq DEF ReadByte, BridgeInv, Places, BridgeTypes
  <2>2. CASE banks /\ USBtoUSART' = Buffer_StoreElement(USBtoUSART, Head(outBank))
                   /\ outBank' = Tail(outBank)
    <3>1. Head(outBank) \in 0..MaxOut
      BY <2>1, <2>2, HeadTailProperties, SizeAssumption DEF BridgeInv, BankTypes
    <3>2. USBtoUSART' = Append(USBtoUSART, Head(outBank))
      BY <2>1, <2>2, <3>1, StoreTypes DEF BridgeInv, RingTypes
    <3>3. /\ Head(outBank) \in Nat /\ Tail(outBank) \in Seq(Nat)
          /\ Append(USBtoUSART, Head(outBank)) \in Seq(Nat)
      BY <2>1, <2>2, OutSeqs, HeadTailProperties, AppendProperties
    <3>4. USBtoUSART' \o outBank' = USBtoUSART \o outBank
      BY <2>1, <2>2, <3>2, OutSeqs, Moved
    <3>5. line' = line /\ sent' = sent /\ outGap' = outGap
      BY <1>5 DEF ReadByte
    <3>6. OutStream' = line \o (USBtoUSART' \o outBank')
      <4>1. line \in Seq(Nat) /\ USBtoUSART' \in Seq(Nat) /\ outBank' \in Seq(Nat)
        BY <2>2, <3>2, <3>3, OutSeqs
      <4>2. (line \o USBtoUSART') \o outBank' = line \o (USBtoUSART' \o outBank')
        BY <4>1, Regroup
      <4> QED  BY <3>5, <4>2 DEF OutStream
    <3>7. OutStream = line \o (USBtoUSART \o outBank)
      BY OutSeqs, Regroup DEF OutStream
    <3> QED  BY <3>4, <3>5, <3>6, <3>7, OutKept
  <2>3. CASE ~banks /\ USBtoUSART' = Buffer_StoreElement(USBtoUSART, NoByte) /\ UNCHANGED outVars
    <3>1. USBtoUSART' = Append(USBtoUSART, NoByte)
      <4>1. Len(USBtoUSART) \in Nat
        BY LenProperties DEF BridgeInv, RingTypes
      <4> QED  BY <2>1, <2>3, <4>1, SizeAssumption DEF Buffer_StoreElement, Ring!PutInto
    <3> QED  BY <1>5, <2>3, <3>1, OutFilled DEF ReadByte
  <2> QED  BY <1>5, <2>2, <2>3 DEF ReadByte
<1>6. CASE Transmit
  <2>1. line' \o USBtoUSART' = line \o USBtoUSART
    BY <1>6, OutSeqs, Moved DEF Transmit
  <2>2. UNCHANGED <<outBank, sent, outGap>>
    BY <1>6 DEF Transmit
  <2> QED  BY <2>1, <2>2, OutKept DEF OutStream
<1>7. CASE SetConfiguration
  BY <1>7, OutCleared DEF SetConfiguration
<1>8. CASE SetLineEncoding
  BY <1>1, <1>8 DEF SetLineEncoding
<1>9. CASE USARTReceive
  BY <1>1, <1>9 DEF USARTReceive
<1>10. CASE BusReset
  BY <1>10, OutCleared DEF BusReset, HandlerFrame
<1>11. CASE Attach \/ Detach \/ Suspend \/ WakeUp
  BY <1>1, <1>11 DEF Attach, Detach, Suspend, WakeUp, HandlerFrame, BanksFrame
<1>12. CASE HostTakes
  BY <1>1, <1>12 DEF HostTakes
<1>13. CASE \E n \in 0..CDC_TXRX_EPSIZE : HostSends(n)
  BY <1>13, OutSent
<1>14. CASE UNCHANGED vars
  BY <1>1, <1>14 DEF vars
<1> QED  BY <1>2, <1>3, <1>4, <1>5, <1>6, <1>7, <1>8, <1>9, <1>10, <1>11, <1>12, <1>13, <1>14
         DEF Next, MainStep, Request, USBHandler

\* The order of the bytes from the host to the serial line is kept, and only
\* the clearing of a bank loses any.
THEOREM HostOrder == Spec => []HostBytesInOrder
<1>1. Init => HostBytesInOrder
  <2> SUFFICES ASSUME Init PROVE HostBytesInOrder
    OBVIOUS
  <2>1. OutStream = <<>>
    BY ConcatEmptySeq, EmptySeq DEF Init, OutStream
  <2>2. 1..sent = {}
    BY DEF Init
  <2> QED  BY <2>1, <2>2, Short DEF HostBytesInOrder
<1>2. BridgeInv /\ HostBytesInOrder /\ [Next]_vars => HostBytesInOrder'
  BY OutNext
<1> QED  BY <1>1, <1>2, BridgeInvariant, PTL DEF Spec

(***************************************************************************)
(* From the serial line to the host.  InStream is what the host got, the   *)
(* bank, the byte being sent and the buffer, one after the other.          *)
(***************************************************************************)
Byte(h) == {h} \ {NoByte}
Pieces(a, b, h, d) ==
  /\ InOrder(a) /\ InOrder(b) /\ InOrder(d)
  /\ Below(Bytes(a), Bytes(b)) /\ Below(Bytes(a) \cup Bytes(b), Byte(h))
  /\ Below(Bytes(a) \cup Bytes(b) \cup Byte(h), Bytes(d))
Everything(a, b, h, d) == Bytes(a) \cup Bytes(b) \cup Byte(h) \cup Bytes(d)

SerialPieces ==
  /\ Pieces(got, inBank, held, USARTtoUSB)
  /\ Everything(got, inBank, held, USARTtoUSB) \subseteq 1..arrived
  /\ ~inGap => 1..arrived \subseteq Everything(got, inBank, held, USARTtoUSB)

LEMMA InParts ==
  ASSUME NEW a \in Seq(Nat), NEW b \in Seq(Nat), NEW h \in Nat, NEW d \in Seq(Nat)
  PROVE  /\ Bytes(a \o b \o <<h>> \o d) = Everything(a, b, h, d)
         /\ InOrder(a \o b \o <<h>> \o d) <=> Pieces(a, b, h, d)
<1> DEFINE one == <<h>>
          r == a \o b
          t == r \o one
<1>1. one \in Seq(Nat) /\ Bytes(one) = Byte(h) /\ InOrder(one)
  BY Short DEF Byte
<1>2. /\ r \in Seq(Nat) /\ Bytes(r) = Bytes(a) \cup Bytes(b)
      /\ InOrder(r) <=> InOrder(a) /\ InOrder(b) /\ Below(Bytes(a), Bytes(b))
  BY Join
<1> HIDE DEF r, one
<1>3. /\ t \in Seq(Nat) /\ Bytes(t) = Bytes(r) \cup Bytes(one)
      /\ InOrder(t) <=> InOrder(r) /\ InOrder(one) /\ Below(Bytes(r), Bytes(one))
  BY <1>1, <1>2, Join
<1> HIDE DEF t
<1>4. /\ Bytes(t \o d) = Bytes(t) \cup Bytes(d)
      /\ InOrder(t \o d) <=> InOrder(t) /\ InOrder(d) /\ Below(Bytes(t), Bytes(d))
  BY <1>3, Join
<1>5. /\ Bytes(t \o d) = Everything(a, b, h, d)
      /\ InOrder(t \o d) <=> Pieces(a, b, h, d)
  BY <1>1, <1>2, <1>3, <1>4 DEF Pieces, Everything
<1> QED  BY <1>5 DEF t, r, one

\* The byte being sent is lost.
LEMMA Loses ==
  ASSUME NEW a, NEW b, NEW h, NEW d, Pieces(a, b, h, d)
  PROVE  /\ Pieces(a, b, NoByte, d)
         /\ Everything(a, b, NoByte, d) \subseteq Everything(a, b, h, d)
BY DEF Pieces, Everything, Byte, Below

\* The first byte of a stream and the others.
LEMMA Parted ==
  ASSUME NEW d \in Seq(Nat), d # <<>>
  PROVE  /\ Head(d) \in Nat /\ Tail(d) \in Seq(Nat)
         /\ Bytes(d) = Byte(Head(d)) \cup Bytes(Tail(d))
         /\ InOrder(d) <=> InOrder(Tail(d)) /\ Below(Byte(Head(d)), Bytes(Tail(d)))
<1>1. Head(d) \in Nat /\ Tail(d) \in Seq(Nat)
  BY HeadTailProperties
<1> DEFINE h == Head(d)
          t == Tail(d)
          one == <<h>>
<1>2. d = one \o t
  BY HeadTailProperties, <1>1
<1>3. one \in Seq(Nat) /\ Bytes(one) = Byte(h) /\ InOrder(one)
  BY <1>1, Short DEF Byte
<1> HIDE DEF h, t, one
<1>4. t \in Seq(Nat)
  BY <1>1 DEF t
<1>5. /\ Bytes(one \o t) = Bytes(one) \cup Bytes(t)
      /\ InOrder(one \o t) <=> InOrder(one) /\ InOrder(t) /\ Below(Bytes(one), Bytes(t))
  BY <1>3, <1>4, Join
<1>6. Bytes(d) = Byte(h) \cup Bytes(t) /\ (InOrder(d) <=> InOrder(t) /\ Below(Byte(h), Bytes(t)))
  BY <1>2, <1>3, <1>5
<1> QED  BY <1>1, <1>6 DEF h, t

\* The next byte is taken out of the buffer.
LEMMA Takes ==
  ASSUME NEW a, NEW b, NEW d \in Seq(Nat), d # <<>>, Pieces(a, b, NoByte, d)
  PROVE  /\ Pieces(a, b, Head(d), Tail(d))
         /\ Everything(a, b, Head(d), Tail(d)) = Everything(a, b, NoByte, d)
<1>1. /\ Bytes(d) = Byte(Head(d)) \cup Bytes(Tail(d))
      /\ InOrder(d) <=> InOrder(Tail(d)) /\ Below(Byte(Head(d)), Bytes(Tail(d)))
  BY Parted
<1>2. Byte(NoByte) = {}
  BY DEF Byte
<1>3. Everything(a, b, Head(d), Tail(d)) = Everything(a, b, NoByte, d)
  BY <1>1, <1>2 DEF Everything
<1>4. Pieces(a, b, Head(d), Tail(d))
  BY <1>1, <1>2 DEF Pieces, Below
<1> QED  BY <1>3, <1>4

\* The buffer's first byte is dropped.
LEMMA Drops ==
  ASSUME NEW a, NEW b, NEW h, NEW d \in Seq(Nat), d # <<>>, Pieces(a, b, h, d)
  PROVE  /\ Pieces(a, b, h, Tail(d))
         /\ Everything(a, b, h, Tail(d)) \subseteq Everything(a, b, h, d)
<1>1. /\ Bytes(d) = Byte(Head(d)) \cup Bytes(Tail(d))
      /\ InOrder(d) <=> InOrder(Tail(d)) /\ Below(Byte(Head(d)), Bytes(Tail(d)))
  BY Parted
<1> QED  BY <1>1 DEF Pieces, Everything, Below

\* The byte is written into the bank.
LEMMA Writes ==
  ASSUME NEW a, NEW b \in Seq(Nat), NEW h \in Nat, NEW d, Pieces(a, b, h, d)
  PROVE  /\ Pieces(a, Append(b, h), NoByte, d)
         /\ Everything(a, Append(b, h), NoByte, d) = Everything(a, b, h, d)
<1>1. /\ Bytes(Append(b, h)) = Bytes(b) \cup Byte(h)
      /\ InOrder(Append(b, h)) <=> InOrder(b) /\ Below(Bytes(b), Byte(h))
  BY Added DEF Byte
<1>2. Byte(NoByte) = {}
  BY DEF Byte
<1>3. /\ InOrder(a) /\ InOrder(b) /\ InOrder(d)
      /\ Below(Bytes(a), Bytes(b)) /\ Below(Bytes(a) \cup Bytes(b), Byte(h))
      /\ Below(Bytes(a) \cup Bytes(b) \cup Byte(h), Bytes(d))
  BY DEF Pieces
<1>4. Below(Bytes(b), Byte(h)) /\ Below(Bytes(a), Bytes(b) \cup Byte(h))
  BY <1>3 DEF Below
<1>5. Below(Bytes(a) \cup (Bytes(b) \cup Byte(h)), {})
      /\ Below((Bytes(a) \cup (Bytes(b) \cup Byte(h))) \cup {}, Bytes(d))
  BY <1>3 DEF Below
<1>6. Pieces(a, Append(b, h), NoByte, d)
  BY <1>1, <1>2, <1>3, <1>4, <1>5 DEF Pieces
<1>7. Everything(a, Append(b, h), NoByte, d) = Everything(a, b, h, d)
  BY <1>1, <1>2 DEF Everything
<1> QED  BY <1>6, <1>7

\* A byte comes in that is later than all the others.
LEMMA Stores ==
  ASSUME NEW a, NEW b, NEW h, NEW d \in Seq(Nat), NEW e \in Nat, e # NoByte,
         Pieces(a, b, h, d), \A x \in Everything(a, b, h, d) : x < e
  PROVE  /\ Pieces(a, b, h, Append(d, e))
         /\ Everything(a, b, h, Append(d, e)) = Everything(a, b, h, d) \cup {e}
<1>1. /\ Bytes(Append(d, e)) = Bytes(d) \cup {e}
      /\ InOrder(Append(d, e)) <=> InOrder(d) /\ Below(Bytes(d), {e})
  <2>1. {e} \ {NoByte} = {e}
    OBVIOUS
  <2>2. /\ Bytes(Append(d, e)) = Bytes(d) \cup ({e} \ {NoByte})
        /\ InOrder(Append(d, e)) <=> InOrder(d) /\ Below(Bytes(d), {e} \ {NoByte})
    BY ONLY d \in Seq(Nat), e \in Nat, Added
  <2> QED  BY ONLY <2>1, <2>2
<1>2. Below(Bytes(d), {e}) /\ Below(Bytes(a) \cup Bytes(b) \cup Byte(h), {e})
  BY DEF Everything, Below
<1> QED  BY <1>1, <1>2 DEF Pieces, Everything, Below

\* The bank is cleared, or all of it goes to the host.
LEMMA Clears ==
  ASSUME NEW a, NEW b, NEW h, NEW d, Pieces(a, b, h, d)
  PROVE  /\ Pieces(a, <<>>, h, d)
         /\ Everything(a, <<>>, h, d) \subseteq Everything(a, b, h, d)
BY Short DEF Pieces, Everything, Below

LEMMA Gets ==
  ASSUME NEW a \in Seq(Nat), NEW b \in Seq(Nat), NEW h, NEW d, Pieces(a, b, h, d)
  PROVE  /\ Pieces(a \o b, <<>>, h, d)
         /\ Everything(a \o b, <<>>, h, d) = Everything(a, b, h, d)
<1>1. /\ Bytes(a \o b) = Bytes(a) \cup Bytes(b)
      /\ InOrder(a \o b) <=> InOrder(a) /\ InOrder(b) /\ Below(Bytes(a), Bytes(b))
  BY Join
<1> QED  BY <1>1, Short DEF Pieces, Everything, Below

LEMMA InSeqs ==
  ASSUME BridgeInv
  PROVE  /\ got \in Seq(Nat) /\ inBank \in Seq(Nat) /\ USARTtoUSB \in Seq(Nat)
         /\ held \in Nat /\ arrived \in Nat
<1>1. MaxIn \in Nat  BY SizeAssumption
<1> QED  BY <1>1, BytesAreNat DEF BridgeInv, BridgeTypes, StreamTypes, RingTypes, BankTypes

\* EmptyBanks: the bank is cleared, and inGap tells whether it held a byte.
LEMMA InCleared ==
  ASSUME SerialPieces, EmptyBanks, UNCHANGED <<got, held, USARTtoUSB, arrived>>
  PROVE  SerialPieces'
<1>1. inBank' = <<>> /\ (inGap' <=> inGap \/ inBank # <<>>)
  BY DEF EmptyBanks
<1>2. /\ Pieces(got, <<>>, held, USARTtoUSB)
      /\ Everything(got, <<>>, held, USARTtoUSB) \subseteq Everything(got, inBank, held, USARTtoUSB)
  BY Clears DEF SerialPieces
<1> QED  BY <1>1, <1>2 DEF SerialPieces

\* USARTReceive: the byte is later than all the others, and the one it drives
\* out of a full buffer is the first.
LEMMA InReceived ==
  ASSUME BridgeInv, SerialPieces, USARTReceive
  PROVE  SerialPieces'
<1>1. arrived \in Nat /\ arrived' = arrived + 1 /\ arrived' \in Nat /\ arrived' # NoByte
  BY InSeqs DEF USARTReceive, NoByte
<1>2. UNCHANGED <<got, inBank, held>>
  BY DEF USARTReceive, inVars, hostVars, mainVars
<1>3. /\ 1..arrived' = 1..arrived \cup {arrived'}
      /\ \A x \in 1..arrived : x < arrived'
  BY <1>1
<1>4. CASE USB_DeviceState # "Configured"
  <2>1. inGap' = TRUE /\ UNCHANGED USARTtoUSB
    BY <1>4 DEF USARTReceive
  <2> QED  BY <1>2, <1>3, <2>1 DEF SerialPieces
<1>5. CASE USB_DeviceState = "Configured"
  <2> DEFINE q == USARTtoUSB
  <2>1. /\ USARTtoUSB' = Buffer_StoreElement(q, arrived')
        /\ inGap' <=> inGap \/ Len(q) = BUFF_STATICSIZE
    BY <1>5 DEF USARTReceive
  <2>2. q \in Seq(Nat) /\ Len(q) \in Nat /\ BUFF_STATICSIZE \in Nat /\ BUFF_STATICSIZE > 0
    BY InSeqs, LenProperties, SizeAssumption
  <2>3. CASE Len(q) = BUFF_STATICSIZE
    <3>1. q # <<>> /\ Tail(q) \in Seq(Nat)
      BY <2>2, <2>3, EmptySeq, HeadTailProperties
    <3> DEFINE t == Tail(q)
    <3>2. USARTtoUSB' = Append(t, arrived')
      BY <2>1, <2>3 DEF Buffer_StoreElement, Ring!PutInto
    <3>3. /\ Pieces(got, inBank, held, t)
          /\ Everything(got, inBank, held, t) \subseteq Everything(got, inBank, held, q)
      BY <2>2, <3>1, Drops DEF SerialPieces
    <3> HIDE DEF t
    <3>4. \A x \in Everything(got, inBank, held, t) : x < arrived'
      BY <1>3, <3>3 DEF SerialPieces
    <3>5. /\ Pieces(got, inBank, held, Append(t, arrived'))
          /\ Everything(got, inBank, held, Append(t, arrived'))
               = Everything(got, inBank, held, t) \cup {arrived'}
      <4>1. t \in Seq(Nat)
        BY <3>1 DEF t
      <4> QED  BY <1>1, <4>1, <3>3, <3>4, Stores
    <3> QED  BY <1>2, <1>3, <2>1, <2>3, <3>2, <3>3, <3>5 DEF SerialPieces
  <2>4. CASE Len(q) # BUFF_STATICSIZE
    <3>1. USARTtoUSB' = Append(q, arrived')
      BY <2>1, <2>4 DEF Buffer_StoreElement, Ring!PutInto
    <3>2. \A x \in Everything(got, inBank, held, q) : x < arrived'
      BY <1>3 DEF SerialPieces
    <3>3. /\ Pieces(got, inBank, held, Append(q, arrived'))
          /\ Everything(got, inBank, held, Append(q, arrived'))
               = Everything(got, inBank, held, q) \cup {arrived'}
      BY <1>1, <2>2, <3>2, Stores DEF SerialPieces
    <3> QED  BY <1>2, <1>3, <2>1, <3>1, <3>3 DEF SerialPieces
  <2> QED  BY <2>3, <2>4
<1> QED  BY <1>4, <1>5

\* What loses the byte being sent says so.
LEMMA InLost ==
  ASSUME SerialPieces, held' = NoByte, inGap' = TRUE,
         UNCHANGED <<got, inBank, USARTtoUSB, arrived>>
  PROVE  SerialPieces'
<1>1. /\ Pieces(got, inBank, NoByte, USARTtoUSB)
      /\ Everything(got, inBank, NoByte, USARTtoUSB) \subseteq Everything(got, inBank, held, USARTtoUSB)
  BY Loses DEF SerialPieces
<1> QED  BY <1>1 DEF SerialPieces

LEMMA InNext ==
  ASSUME BridgeInv, SerialPieces, [Next]_vars
  PROVE  SerialPieces'
<1> USE DEF OutFrame, InFrame, inVars, outVars, usbVars, hostVars, gaps, mainVars, Goto
<1>1. ASSUME UNCHANGED <<got, inBank, held, USARTtoUSB, arrived, inGap>> PROVE SerialPieces'
  BY <1>1 DEF SerialPieces
<1>2. CASE Received \/ Count \/ LoopEnds \/ LoopReceives \/ ReadByte \/ NoRequest
  BY <1>1, <1>2 DEF Received, Count, LoopEnds, LoopReceives, ReadByte, NoRequest
<1>3. CASE DrainEnds \/ SendSelect \/ Flush \/ FlushWait
  BY <1>1, <1>3 DEF DrainEnds, SendSelect, Flush, FlushWait
<1>4. CASE Transmit \/ TransmitEnds \/ Task \/ TaskOUT \/ FlushTest
  BY <1>1, <1>4 DEF Transmit, TransmitEnds, Task, TaskOUT, FlushTest
<1>5. CASE DrainTakes
  <2>1. held = NoByte /\ USARTtoUSB # <<>>
    BY <1>5 DEF DrainTakes, BridgeInv, Places, Sending
  <2>2. /\ Pieces(got, inBank, Head(USARTtoUSB), Tail(USARTtoUSB))
        /\ Everything(got, inBank, Head(USARTtoUSB), Tail(USARTtoUSB))
             = Everything(got, inBank, held, USARTtoUSB)
    BY <2>1, InSeqs, Takes DEF SerialPieces
  <2> QED  BY <1>5, <2>2 DEF DrainTakes, SerialPieces
<1>6. CASE SendTest
  <2>1. CASE Ready
    <3>1. held' = held /\ UNCHANGED <<got, inBank, USARTtoUSB, arrived>>
      BY <1>6, <2>1 DEF SendTest
    <3>2. inGap' = (inGap \/ ~Ready) /\ inGap \in BOOLEAN
      BY <1>6 DEF SendTest, BridgeInv, BridgeTypes
    <3> QED  BY <1>1, <2>1, <3>1, <3>2
  <2>2. CASE ~Ready
    BY <1>6, <2>2, InLost DEF SendTest
  <2> QED  BY <2>1, <2>2
<1>7. CASE SendWait
  <2>1. CASE UNCHANGED <<held, inGap, late>>
    BY <1>1, <1>7, <2>1 DEF SendWait
  <2>2. CASE held' = NoByte /\ inGap' = TRUE
    BY <1>7, <2>2, InLost DEF SendWait
  <2> QED  BY <1>7, <2>1, <2>2 DEF SendWait
<1>8. CASE Write
  <2>1. CASE banks
    <3>1. inBank' = Append(inBank, held) /\ inGap' = inGap
      BY <1>8, <2>1 DEF Write, BridgeInv, BridgeTypes, Places
    <3>2. /\ Pieces(got, Append(inBank, held), NoByte, USARTtoUSB)
          /\ Everything(got, Append(inBank, held), NoByte, USARTtoUSB)
               = Everything(got, inBank, held, USARTtoUSB)
      BY InSeqs, Writes DEF SerialPieces
    <3> QED  BY <1>8, <3>1, <3>2 DEF Write, SerialPieces
  <2>2. CASE ~banks
    BY <1>8, <2>2, InLost DEF Write
  <2> QED  BY <2>1, <2>2
<1>9. CASE SetConfiguration
  BY <1>9, InCleared DEF SetConfiguration
<1>10. CASE SetLineEncoding
  BY <1>1, <1>10 DEF SetLineEncoding
<1>11. CASE USARTReceive
  BY <1>11, InReceived
<1>12. CASE BusReset
  BY <1>12, InCleared DEF BusReset, HandlerFrame
<1>13. CASE Attach \/ Detach \/ Suspend \/ WakeUp
  BY <1>1, <1>13 DEF Attach, Detach, Suspend, WakeUp, HandlerFrame, BanksFrame
<1>14. CASE \E n \in 0..CDC_TXRX_EPSIZE : HostSends(n)
  BY <1>1, <1>14 DEF HostSends
<1>15. CASE HostTakes
  <2>1. /\ Pieces(got \o inBank, <<>>, held, USARTtoUSB)
        /\ Everything(got \o inBank, <<>>, held, USARTtoUSB)
             = Everything(got, inBank, held, USARTtoUSB)
    BY InSeqs, Gets DEF SerialPieces
  <2> QED  BY <1>15, <2>1 DEF HostTakes, SerialPieces
<1>16. CASE UNCHANGED vars
  BY <1>1, <1>16 DEF vars
<1> QED  BY <1>2, <1>3, <1>4, <1>5, <1>6, <1>7, <1>8, <1>9, <1>10, <1>11, <1>12, <1>13, <1>14,
            <1>15, <1>16
         DEF Next, MainStep, Request, USBHandler

LEMMA PiecesInOrder == BridgeInv /\ SerialPieces => SerialBytesInOrder
<1> SUFFICES ASSUME BridgeInv, SerialPieces PROVE SerialBytesInOrder
  OBVIOUS
<1>1. /\ Bytes(InStream) = Everything(got, inBank, held, USARTtoUSB)
      /\ InOrder(InStream) <=> Pieces(got, inBank, held, USARTtoUSB)
  BY InSeqs, InParts DEF InStream
<1> QED  BY <1>1 DEF SerialPieces, SerialBytesInOrder

\* The order of the bytes from the serial line to the host is kept, and
\* none is lost without one of the reasons inGap stands for.
THEOREM SerialOrder == Spec => []SerialBytesInOrder
<1>1. Init => SerialPieces
  <2> SUFFICES ASSUME Init PROVE SerialPieces
    OBVIOUS
  <2>1. Pieces(<<>>, <<>>, NoByte, <<>>) /\ Everything(<<>>, <<>>, NoByte, <<>>) = {}
    BY Short DEF Pieces, Everything, Byte, Below
  <2>2. 1..arrived = {}
    BY DEF Init
  <2> QED  BY <2>1, <2>2 DEF Init, SerialPieces
<1>2. BridgeInv /\ SerialPieces /\ [Next]_vars => SerialPieces'
  BY InNext
<1>3. BridgeInv /\ SerialPieces => SerialBytesInOrder
  BY PiecesInOrder
<1> QED  BY <1>1, <1>2, <1>3, BridgeInvariant, PTL DEF Spec
=============================================================================
