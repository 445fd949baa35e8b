------------------------------ MODULE RingBuff ------------------------------
(***************************************************************************)
(* The ring buffer of Projects/USBtoSerial/Lib (the same file serves       *)
(* Benito and XPLAINBridge), as those projects configure it: BUFF_VOLATILE *)
(* (each operation runs with interrupts off), BUFF_DROPOLD and             *)
(* BUFF_NOEMPTYCHECK (the caller tests Elements first).                    *)
(*                                                                         *)
(* The producer may be an interrupt handler and store at any moment, also  *)
(* between the consumer's test of Elements and its Buffer_GetElement.      *)
(***************************************************************************)
EXTENDS Naturals, Sequences

CONSTANTS
  BUFF_LENGTH,
  ElementsRange,    \* number of values of RingBuff_Elements_t
  RingBuff_Data_t

ASSUME LengthAssumption ==
  /\ BUFF_LENGTH \in Nat \ {0}
  /\ ElementsRange \in Nat /\ ElementsRange > BUFF_LENGTH
  /\ 0 \in RingBuff_Data_t

VARIABLES
  Buffer, InPtr, OutPtr, Elements,  \* the fields of RingBuff_t
  consumer,                         \* whether the consumer has tested Elements
  BuffData                          \* what Buffer_GetElement returned last

ring == <<Buffer, InPtr, OutPtr, Elements>>
vars == <<ring, consumer, BuffData>>

Slots == 0..(BUFF_LENGTH - 1)

TypeOK ==
  /\ Buffer \in [Slots -> RingBuff_Data_t]
  /\ InPtr \in Slots /\ OutPtr \in Slots
  /\ Elements \in 0..(ElementsRange - 1)
  /\ consumer \in {"idle", "tested"}
  /\ BuffData \in RingBuff_Data_t

\* Buffer_Initialize on static storage.
Init ==
  /\ Buffer = [i \in Slots |-> 0]
  /\ InPtr = 0 /\ OutPtr = 0 /\ Elements = 0
  /\ consumer = "idle" /\ BuffData = 0

\* A pointer moves on, from the end of the array to its start.
Advance(p) == IF p + 1 = BUFF_LENGTH THEN 0 ELSE p + 1

\* Mutant: a full buffer overwrites its oldest element and still returns it
\* in the newest one's place.
StoreKeepsOutPtr(d) ==
  /\ Elements' = IF Elements = BUFF_LENGTH THEN Elements ELSE Elements + 1
  /\ Buffer' = [Buffer EXCEPT ![InPtr] = d]
  /\ InPtr' = Advance(InPtr)
  /\ UNCHANGED <<OutPtr, consumer, BuffData>>

Buffer_StoreElement(d) ==
  /\ IF Elements = BUFF_LENGTH
     THEN OutPtr' = Advance(OutPtr) /\ UNCHANGED Elements
     ELSE Elements' = Elements + 1 /\ UNCHANGED OutPtr
  /\ Buffer' = [Buffer EXCEPT ![InPtr] = d]
  /\ InPtr' = Advance(InPtr)
  /\ UNCHANGED <<consumer, BuffData>>

\* The consumer's `while (Buffer.Elements)'.
TestElements ==
  /\ consumer = "idle" /\ Elements # 0
  /\ consumer' = "tested"
  /\ UNCHANGED <<ring, BuffData>>

Buffer_GetElement ==
  /\ consumer = "tested" /\ consumer' = "idle"
  /\ BuffData' = Buffer[OutPtr]
  /\ OutPtr' = Advance(OutPtr)
  /\ Elements' = IF Elements = 0 THEN ElementsRange - 1 ELSE Elements - 1
  /\ UNCHANGED <<Buffer, InPtr>>

Next ==
  \/ TestElements \/ Buffer_GetElement
  \/ \E d \in RingBuff_Data_t : Buffer_StoreElement(d)

Spec == Init /\ [][Next]_vars

-----------------------------------------------------------------------------
\* The slot k places after OutPtr.
Slot(k) == IF OutPtr + k < BUFF_LENGTH THEN OutPtr + k ELSE OutPtr + k - BUFF_LENGTH

\* The three fields describe one queue: the next free slot lies Elements
\* places after the oldest element, also when the buffer has wrapped or is
\* full (InPtr = OutPtr means empty or full, and Elements says which).
PointersAgree == Elements <= BUFF_LENGTH /\ InPtr = Slot(Elements)

\* A consumer that has seen an element will find one, however often the
\* handler stores and drops in between: Buffer_GetElement has no check.
NoUnderflow == consumer = "tested" => Elements # 0

\* The ring implements a bounded queue that drops its oldest element.
Contents == [k \in 1..Elements |-> Buffer[Slot(k - 1)]]

Queue == INSTANCE BoundedQueue WITH
  Capacity <- BUFF_LENGTH, Data <- RingBuff_Data_t,
  queue <- Contents, taken <- BuffData

\* Whatever the interleaving of handler and main program, elements come out
\* in the order they went in, and only the oldest are ever lost.
ImplementsQueue == Queue!Spec
=============================================================================
