------------------------------ MODULE Magstripe ------------------------------
(***************************************************************************)
(* The magnetic stripe reader (Projects/Magstripe): the bits of a card's   *)
(* tracks go to circular bit buffers and from there, bit by bit, to the    *)
(* host as key presses in the reports of the HID class driver              *)
(* (Class/Device/HID.c).  Every key press is followed by a release, or the *)
(* host would take two equal keys for one that is held.                    *)
(***************************************************************************)
EXTENDS Integers, Sequences

SeqExt == INSTANCE SequencesExt

CONSTANTS
  TOTAL_TRACKS, MAX_BITS,
  BANKS,          \* of the report endpoint
  IDLE_MS,        \* idle period the driver starts with
  IdlePeriods,    \* those that the host sets
  Cards,          \* functions from Tracks to sequences of bits
  MaxCards,       \* bound on the cards that are read
  Use             \* "plain": a card is read when the last one is typed, and the
                  \* host sends GET REPORT only while no key is pressed or
                  \* waits; or "any"

Tracks   == 1..TOTAL_TRACKS
BitSlots == 0..(MAX_BITS - 1)
Keys     == {"KEY_NONE", "KEY_0", "KEY_1", "KEY_ENTER"}

\* MAX_BITS is 8192, or 1024 on the small controllers: a track has fewer bits.
ASSUME MagAssumption ==
  /\ {TOTAL_TRACKS, MAX_BITS, BANKS} \subseteq Nat \ {0}
  /\ {IDLE_MS, MaxCards} \cup IdlePeriods \subseteq Nat /\ Use \in {"plain", "any"}
  /\ Cards \subseteq [Tracks -> Seq(BOOLEAN)]
  /\ \A card \in Cards, t \in Tracks : Len(card[t]) <= MAX_BITS

VARIABLES
  TrackDataBuffers,     \* In and Out are indexes of bits
  CurrentTrackBuffer,   \* TOTAL_TRACKS + 1 when nothing is to be typed
  IsKeyReleaseReport,
  PrevReportIN, IdleCount, IdleMSRemaining,   \* of the class driver
  configured,
  banks,                \* reports that wait for the host
  held,                 \* the key the host has seen last
  \* History.
  typed,                \* the keys that the host has seen pressed
  cards,                \* how many cards were read
  text                  \* the keys that they stand for

driverVars == <<PrevReportIN, IdleCount, IdleMSRemaining>>
magVars == <<TrackDataBuffers, CurrentTrackBuffer, IsKeyReleaseReport, driverVars, configured,
             banks, held, typed, cards, text>>

MagTypeOK ==
  /\ TrackDataBuffers \in [Tracks -> [Data : [BitSlots -> BOOLEAN], Elements : 0..MAX_BITS,
                                      In : BitSlots, Out : BitSlots]]
  /\ CurrentTrackBuffer \in 1..(TOTAL_TRACKS + 1)
  /\ IsKeyReleaseReport \in BOOLEAN /\ PrevReportIN \in Keys
  /\ IdleCount \in IdlePeriods \cup {IDLE_MS}
  /\ IdleMSRemaining \in UNION {0..n : n \in IdlePeriods \cup {IDLE_MS}}
  /\ configured \in BOOLEAN /\ banks \in Seq(Keys) /\ Len(banks) <= BANKS /\ held \in Keys
  /\ typed \in Seq(Keys) /\ cards \in 0..MaxCards /\ text \in Seq(Keys)

MagInit ==
  /\ TrackDataBuffers = [t \in Tracks |-> [Data |-> [s \in BitSlots |-> FALSE], Elements |-> 0,
                                           In |-> 0, Out |-> 0]]
  /\ CurrentTrackBuffer = TOTAL_TRACKS + 1 /\ IsKeyReleaseReport = FALSE
  /\ PrevReportIN = "KEY_NONE" /\ IdleCount = IDLE_MS /\ IdleMSRemaining = 0
  /\ configured = FALSE /\ banks = <<>> /\ held = "KEY_NONE" /\ typed = <<>>
  /\ cards = 0 /\ text = <<>>

-----------------------------------------------------------------------------
(* The bit buffers.                                                        *)

\* BitBuffer_StoreNextBit for each bit of a track.  A bit that is set is or-ed
\* into its slot, one that is not leaves the slot as it is.
BitBuffer_Store(buffer, bits) ==
  [Data     |-> [s \in BitSlots |-> buffer.Data[s] \/
                   \E i \in DOMAIN bits : bits[i] /\ s = (buffer.In + i - 1) % MAX_BITS],
   Elements |-> buffer.Elements + Len(bits),
   In       |-> (buffer.In + Len(bits)) % MAX_BITS,
   Out      |-> buffer.Out]

\* A bug to compare with: the slot is not cleared.
BitBuffer_GetKeepsBit(buffer) ==
  [buffer EXCEPT !.Elements = @ - 1, !.Out = (@ + 1) % MAX_BITS]

BitBuffer_GetNextBit(buffer) ==
  [buffer EXCEPT !.Data = [@ EXCEPT ![buffer.Out] = FALSE],
                 !.Elements = @ - 1, !.Out = (@ + 1) % MAX_BITS]

\* The keys that the bits of a track stand for, and those of a card.
KeyOf(bit)     == IF bit THEN "KEY_1" ELSE "KEY_0"
Line(bits)     == [i \in DOMAIN bits |-> KeyOf(bits[i])] \o <<"KEY_ENTER">>
CardText(card) == SeqExt!FlattenSeq([t \in Tracks |-> Line(card[t])])

\* ReadMagstripeData: the main loop does nothing else while the card passes.
ReadMagstripeData ==
  /\ cards < MaxCards
  /\ Use = "plain" => CurrentTrackBuffer > TOTAL_TRACKS
  /\ \E card \in Cards :
       /\ TrackDataBuffers' = [t \in Tracks |-> BitBuffer_Store(TrackDataBuffers[t], card[t])]
       /\ cards' = cards + 1 /\ text' = text \o CardText(card)
  /\ CurrentTrackBuffer' = 1
  /\ UNCHANGED <<IsKeyReleaseReport, driverVars, configured, banks, held, typed>>

-----------------------------------------------------------------------------
(* The reports.                                                            *)

\* CALLBACK_HID_Device_CreateHIDReport.
CreateHIDReport(key) ==
  /\ IsKeyReleaseReport' = ~IsKeyReleaseReport
  /\ \/ /\ ~IsKeyReleaseReport \/ CurrentTrackBuffer > TOTAL_TRACKS
        /\ key = "KEY_NONE" /\ UNCHANGED <<TrackDataBuffers, CurrentTrackBuffer>>
     \/ /\ IsKeyReleaseReport /\ CurrentTrackBuffer \in Tracks
        /\ LET buffer == TrackDataBuffers[CurrentTrackBuffer]
           IN  \/ /\ buffer.Elements = 0 /\ key = "KEY_ENTER"
                  /\ CurrentTrackBuffer' = CurrentTrackBuffer + 1 /\ UNCHANGED TrackDataBuffers
               \/ /\ buffer.Elements > 0 /\ key = KeyOf(buffer.Data[buffer.Out])
                  /\ TrackDataBuffers' = [TrackDataBuffers EXCEPT
                                            ![CurrentTrackBuffer] = BitBuffer_GetNextBit(@)]
                  /\ UNCHANGED CurrentTrackBuffer

\* HID_Device_USBTask: a report that is not new is sent when the idle period
\* is over.
HID_Device_USBTask ==
  /\ configured /\ Len(banks) < BANKS
  /\ \E key \in Keys :
       /\ CreateHIDReport(key) /\ PrevReportIN' = key
       /\ IF key # PrevReportIN \/ (IdleCount > 0 /\ IdleMSRemaining = 0)
          THEN banks' = Append(banks, key) /\ IdleMSRemaining' = IdleCount
          ELSE UNCHANGED <<banks, IdleMSRemaining>>
  /\ UNCHANGED <<IdleCount, configured, held, typed, cards, text>>

\* HID_Device_ConfigureEndpoints, from EVENT_USB_Device_ConfigurationChanged.
ConfigurationChanged ==
  /\ ~configured /\ configured' = TRUE
  /\ IdleCount' = IDLE_MS /\ IdleMSRemaining' = 0
  /\ UNCHANGED <<TrackDataBuffers, CurrentTrackBuffer, IsKeyReleaseReport, PrevReportIN, banks,
                 held, typed, cards, text>>

\* SET IDLE; the period that runs is not changed.
SetIdle ==
  /\ configured /\ \E n \in IdlePeriods : IdleCount' = n
  /\ UNCHANGED <<TrackDataBuffers, CurrentTrackBuffer, IsKeyReleaseReport, PrevReportIN,
                 IdleMSRemaining, configured, banks, held, typed, cards, text>>

\* GET REPORT takes the next key for its answer.
GetReport ==
  /\ configured
  /\ Use = "plain" => CurrentTrackBuffer > TOTAL_TRACKS /\ PrevReportIN = "KEY_NONE"
  /\ \E key \in Keys : CreateHIDReport(key) /\ PrevReportIN' = key
  /\ UNCHANGED <<IdleCount, IdleMSRemaining, configured, banks, held, typed, cards, text>>

\* HID_Device_MillisecondElapsed.
MillisecondElapsed ==
  /\ configured /\ IdleMSRemaining > 0 /\ IdleMSRemaining' = IdleMSRemaining - 1
  /\ UNCHANGED <<TrackDataBuffers, CurrentTrackBuffer, IsKeyReleaseReport, PrevReportIN, IdleCount,
                 configured, banks, held, typed, cards, text>>

\* The keys that the host sees pressed by a report after another.
Pressed(before, key) == IF key = "KEY_NONE" \/ key = before THEN <<>> ELSE <<key>>

\* The host polls the endpoint.
HostPolls ==
  /\ banks # <<>> /\ banks' = Tail(banks)
  /\ held' = Head(banks) /\ typed' = typed \o Pressed(held, Head(banks))
  /\ UNCHANGED <<TrackDataBuffers, CurrentTrackBuffer, IsKeyReleaseReport, driverVars, configured, cards,
                 text>>

MagNext ==
  \/ ReadMagstripeData \/ HID_Device_USBTask \/ ConfigurationChanged \/ SetIdle \/ GetReport
  \/ MillisecondElapsed \/ HostPolls

MagSpec == MagInit /\ [][MagNext]_magVars

-----------------------------------------------------------------------------
\* The bits of a buffer, first those that are typed first.
Bits(buffer) == [i \in 1..buffer.Elements |-> buffer.Data[(buffer.Out + i - 1) % MAX_BITS]]

\* The keys that the buffers and the waiting reports will be.
InBuffers ==
  SeqExt!FlattenSeq([n \in 1..(TOTAL_TRACKS + 1 - CurrentTrackBuffer) |->
                       Line(Bits(TrackDataBuffers[CurrentTrackBuffer + n - 1]))])
InBanks ==
  SeqExt!FlattenSeq([n \in DOMAIN banks |->
                       Pressed(IF n = 1 THEN held ELSE banks[n - 1], banks[n])])

\* What the host has seen typed, what waits in the endpoint and what the
\* buffers still hold is the text of the cards, each key once: no bit is lost
\* or doubled by the buffers' wrap, by two equal keys in a row, by reports that
\* are suppressed or repeated, or by a card that was read before.
CardsTyped == typed \o InBanks \o InBuffers = text
=============================================================================
