---------------------------- MODULE UtilityProofs ----------------------------
(***************************************************************************)
(* Two small parts that applications build on, and an application.         *)
(*                                                                         *)
(* For every length of buffer and every element type, the ring buffer is   *)
(* well formed, is never read empty, and implements the queue.             *)
(*                                                                         *)
(* Delays end on time for every number of tasks, every width of the tick   *)
(* counter and every delay up to TASK_MAX_DELAY.  The invariant ties the   *)
(* counter of a running task to its age: the counter came round at most    *)
(* once, and a task the loop has passed since the last tick is not late.   *)
(*                                                                         *)
(* The stripe reader types its cards, for any cards, any number of tracks, *)
(* size of the bit buffers, banks of the endpoint and idle periods.  The   *)
(* proof follows a key from the slot of its bit to the host: what a buffer *)
(* stores and gives back in terms of the bits it holds, what a report that *)
(* is made takes from the buffers, and what the host makes of the reports. *)
(* The sequences of keys are concatenations of lines, so the lemmas about  *)
(* FlattenSeq come first.                                                  *)
(***************************************************************************)
EXTENDS RingBuff, Scheduler, Magstripe, SequenceTheorems, WellFoundedInduction, TLAPS

-----------------------------------------------------------------------------
\* The ring buffer.

\* The inductive invariant is the conjunction of the three the run checks:
\* without NoUnderflow a Buffer_GetElement would wrap Elements, and without
\* PointersAgree nothing ties the two pointers to the count.
Inv == TypeOK /\ PointersAgree /\ NoUnderflow

LEMMA AdvanceStays ==
  ASSUME NEW p \in Slots
  PROVE  /\ Advance(p) \in Slots
         /\ Advance(p) = IF p = BUFF_LENGTH - 1 THEN 0 ELSE p + 1
  BY LengthAssumption DEF Advance, Slots

LEMMA InvInit == Init => Inv
  BY LengthAssumption
  DEF Init, Inv, TypeOK, PointersAgree, NoUnderflow, Slot, Slots

LEMMA InvStore ==
  ASSUME Inv, NEW d \in RingBuff_Data_t, Buffer_StoreElement(d)
  PROVE  Inv'
  <1> USE LengthAssumption DEF Inv
  <1>1. /\ Advance(InPtr) \in Slots /\ Advance(OutPtr) \in Slots
    BY AdvanceStays DEF TypeOK
  <1>2. CASE Elements = BUFF_LENGTH
    <2>1. InPtr' = Advance(InPtr) /\ OutPtr' = Advance(OutPtr) /\ Elements' = Elements
      BY <1>2 DEF Buffer_StoreElement
    <2>2. InPtr = OutPtr
      BY <1>2 DEF TypeOK, PointersAgree, Slot, Slots
    <2>3. TypeOK'
      BY <1>1, <2>1 DEF TypeOK, Buffer_StoreElement
    <2>4. PointersAgree'
      BY <1>1, <1>2, <2>1, <2>2 DEF PointersAgree, Slot, Slots
    <2>5. NoUnderflow'
      BY <1>2, <2>1 DEF NoUnderflow
    <2> QED BY <2>3, <2>4, <2>5
  <1>3. CASE Elements # BUFF_LENGTH
    <2>1. InPtr' = Advance(InPtr) /\ OutPtr' = OutPtr /\ Elements' = Elements + 1
      BY <1>3 DEF Buffer_StoreElement
    <2>2. Elements \in 0..(BUFF_LENGTH - 1)
      BY <1>3 DEF TypeOK, PointersAgree
    <2>3. TypeOK'
      BY <1>1, <2>1, <2>2 DEF TypeOK, Buffer_StoreElement
    <2>4. PointersAgree'
      BY AdvanceStays, <2>1, <2>2 DEF TypeOK, PointersAgree, Slot, Slots, Advance
    <2>5. NoUnderflow'
      BY <2>1, <2>2 DEF NoUnderflow
    <2> QED BY <2>3, <2>4, <2>5
  <1> QED BY <1>2, <1>3

LEMMA InvTest ==
  ASSUME Inv, TestElements
  PROVE  Inv'
  BY DEF Inv, TestElements, ring, TypeOK, PointersAgree, NoUnderflow, Slot

LEMMA InvGet ==
  ASSUME Inv, Buffer_GetElement
  PROVE  Inv'
  <1> USE LengthAssumption DEF Inv
  <1>1. Advance(OutPtr) \in Slots
    BY AdvanceStays DEF TypeOK
  <1>2. Elements \in 1..BUFF_LENGTH
    BY DEF TypeOK, PointersAgree, NoUnderflow, Buffer_GetElement
  <1>3. OutPtr' = Advance(OutPtr) /\ Elements' = Elements - 1 /\ InPtr' = InPtr
    BY <1>2 DEF Buffer_GetElement
  <1>4. TypeOK'
    BY <1>1, <1>2, <1>3 DEF TypeOK, Buffer_GetElement
  <1>5. PointersAgree'
    BY <1>2, <1>3 DEF TypeOK, PointersAgree, Slot, Slots, Advance
  <1>6. NoUnderflow'
    BY DEF NoUnderflow, Buffer_GetElement
  <1> QED BY <1>4, <1>5, <1>6

LEMMA InvStep == Inv /\ [Next]_vars => Inv'
  <1> SUFFICES ASSUME Inv, [Next]_vars PROVE Inv'
    OBVIOUS
  <1>1. CASE TestElements
    BY <1>1, InvTest
  <1>2. CASE Buffer_GetElement
    BY <1>2, InvGet
  <1>3. ASSUME NEW d \in RingBuff_Data_t, Buffer_StoreElement(d) PROVE Inv'
    BY <1>3, InvStore
  <1>4. CASE UNCHANGED vars
    BY <1>4 DEF vars, ring, Inv, TypeOK, PointersAgree, NoUnderflow, Slot
  <1> QED BY <1>1, <1>2, <1>3, <1>4 DEF Next

LEMMA InvHolds == Spec => []Inv
  BY InvInit, InvStep, PTL DEF Spec

\* Every field of a RingBuff_t keeps its type: the pointers stay inside the
\* array.
THEOREM TypeCorrect == Spec => []TypeOK
  BY InvHolds, PTL DEF Inv

\* InPtr, OutPtr and Elements always describe one queue.
THEOREM PointersAlwaysAgree == Spec => []PointersAgree
  BY InvHolds, PTL DEF Inv

\* A consumer that tested Elements never reads an empty buffer.
THEOREM NeverReadEmpty == Spec => []NoUnderflow
  BY InvHolds, PTL DEF Inv

-----------------------------------------------------------------------------
\* The refinement.  Contents is a sequence of Elements elements, before and
\* after every step.
ContentsWellFormed ==
  /\ Contents \in Seq(RingBuff_Data_t)
  /\ Len(Contents) = Elements
  /\ \A k \in 1..Elements : Contents[k] = Buffer[Slot(k - 1)]

LEMMA ContentsSeq == Inv => ContentsWellFormed
  <1> SUFFICES ASSUME Inv PROVE ContentsWellFormed
    OBVIOUS
  <1> USE LengthAssumption
  <1>1. Elements \in 0..BUFF_LENGTH
    BY DEF Inv, TypeOK, PointersAgree
  <1>2. \A k \in 1..Elements : Slot(k - 1) \in Slots
    BY <1>1 DEF Inv, TypeOK, Slot, Slots
  <1>3. \A k \in 1..Elements : Buffer[Slot(k - 1)] \in RingBuff_Data_t
    BY <1>2 DEF Inv, TypeOK
  <1>4. Contents \in [1..Elements -> RingBuff_Data_t]
    BY <1>3 DEF Contents
  <1>5. Contents \in Seq(RingBuff_Data_t) /\ Len(Contents) = Elements
    BY <1>1, <1>4
  <1> QED BY <1>5 DEF ContentsWellFormed, Contents

LEMMA ContentsSeqNext == Inv' => ContentsWellFormed'
  BY ContentsSeq, PTL

\* Which slots a store touches: none that still holds an element it keeps.
LEMMA SlotFacts ==
  ASSUME Inv, NEW k \in 0..(BUFF_LENGTH - 1)
  PROVE  /\ Slot(k) \in Slots
         /\ k < Elements /\ Elements < BUFF_LENGTH => Slot(k) # InPtr
         /\ 0 < k /\ Elements = BUFF_LENGTH => Slot(k) # InPtr
         /\ Elements = BUFF_LENGTH => Slot(0) = InPtr
  BY LengthAssumption DEF Inv, TypeOK, PointersAgree, Slot, Slots

\* Slots counted from OutPtr, before and after it advances.
LEMMA AdvanceSlot ==
  ASSUME Inv, OutPtr' = Advance(OutPtr), NEW k \in 0..(BUFF_LENGTH - 1)
  PROVE  Slot(k)' = IF k = BUFF_LENGTH - 1 THEN OutPtr ELSE Slot(k + 1)
  BY LengthAssumption DEF Inv, TypeOK, Slot, Slots, Advance

LEMMA StoreImplementsPut ==
  ASSUME Inv, Inv', NEW d \in RingBuff_Data_t, Buffer_StoreElement(d)
  PROVE  Queue!Put(d)
  <1> USE LengthAssumption
  <1>1. ContentsWellFormed /\ ContentsWellFormed'
    BY ContentsSeq, ContentsSeqNext
  <1>2. /\ Buffer' = [Buffer EXCEPT ![InPtr] = d] /\ InPtr \in Slots
        /\ Buffer \in [Slots -> RingBuff_Data_t] /\ Elements \in 0..BUFF_LENGTH
    BY DEF Buffer_StoreElement, Inv, TypeOK, PointersAgree
  <1>3. Contents' = Queue!PutInto(Contents, d)
    <2>1. CASE Elements = BUFF_LENGTH
      <3> DEFINE r == Append(Tail(Contents), d)
      <3>1. Elements' = Elements /\ OutPtr' = Advance(OutPtr) /\ InPtr = Slot(0)
        BY <2>1, SlotFacts DEF Buffer_StoreElement
      <3>2. /\ Tail(Contents) \in Seq(RingBuff_Data_t)
            /\ Len(Tail(Contents)) = Elements - 1
            /\ \A k \in 1..(Elements - 1) : Tail(Contents)[k] = Contents[k + 1]
        <4>1. Contents # <<>>
          BY <1>1, <2>1 DEF ContentsWellFormed
        <4> QED BY <1>1, <2>1, <4>1, HeadTailProperties DEF ContentsWellFormed
      <3>3. r \in Seq(RingBuff_Data_t) /\ Len(r) = Elements /\ r[Elements] = d
            /\ \A k \in 1..(Elements - 1) : r[k] = Contents[k + 1]
        BY <3>2, <2>1
      <3>4. ASSUME NEW k \in 1..Elements PROVE Contents'[k] = r[k]
        <4>1. Contents'[k] = Buffer'[Slot(k - 1)']
          BY <1>1, <3>1 DEF ContentsWellFormed
        <4>2. CASE k = Elements
          <5>1. Slot(k - 1)' = OutPtr
            BY <2>1, <3>1, <4>2, AdvanceSlot
          <5>2. OutPtr = InPtr
            BY <3>1 DEF Slot, Inv, TypeOK, Slots
          <5> QED BY <4>1, <4>2, <5>1, <5>2, <1>2, <3>3
        <4>3. CASE k # Elements
          <5>1. Slot(k - 1)' = Slot(k)
            BY <2>1, <3>1, <4>3, AdvanceSlot
          <5>2. Slot(k) # InPtr /\ Slot(k) \in Slots
            BY <2>1, <4>3, SlotFacts
          <5>3. Contents[k + 1] = Buffer[Slot(k)]
            BY <1>1, <4>3 DEF ContentsWellFormed
          <5> QED BY <4>1, <4>3, <5>1, <5>2, <5>3, <1>2, <3>3
        <4> QED BY <4>2, <4>3
      <3>5. Contents' = r
        <4> HIDE DEF r
        <4> QED BY <1>1, <3>1, <3>3, <3>4, SeqEqual DEF ContentsWellFormed
      <3> QED BY <1>1, <2>1, <3>5 DEF Queue!PutInto, ContentsWellFormed
    <2>2. CASE Elements # BUFF_LENGTH
      <3> DEFINE r == Append(Contents, d)
      <3>1. Elements' = Elements + 1 /\ OutPtr' = OutPtr /\ InPtr = Slot(Elements)
        BY <2>2 DEF Buffer_StoreElement, Inv, PointersAgree
      <3>2. \A k : Slot(k)' = Slot(k)
        BY <3>1 DEF Slot
      <3>3. r \in Seq(RingBuff_Data_t) /\ Len(r) = Elements + 1 /\ r[Elements + 1] = d
            /\ \A k \in 1..Elements : r[k] = Contents[k]
        BY <1>1, <1>2 DEF ContentsWellFormed
      <3>4. ASSUME NEW k \in 1..(Elements + 1) PROVE Contents'[k] = r[k]
        <4>1. Contents'[k] = Buffer'[Slot(k - 1)]
          BY <1>1, <3>1, <3>2 DEF ContentsWellFormed
        <4>2. CASE k = Elements + 1
          BY <4>1, <4>2, <3>1, <3>3, <1>2
        <4>3. CASE k # Elements + 1
          <5>1. Slot(k - 1) # InPtr /\ Slot(k - 1) \in Slots
            BY <1>2, <2>2, <4>3, SlotFacts
          <5>2. Contents[k] = Buffer[Slot(k - 1)]
            BY <1>1, <1>2, <4>3 DEF ContentsWellFormed
          <5> QED BY <4>1, <4>3, <5>1, <5>2, <1>2, <3>3
        <4> QED BY <4>2, <4>3
      <3>5. Contents' = r
        <4> HIDE DEF r
        <4> QED BY <1>1, <1>2, <3>1, <3>3, <3>4, SeqEqual DEF ContentsWellFormed
      <3> QED BY <1>1, <2>2, <3>5 DEF Queue!PutInto, ContentsWellFormed
    <2> QED BY <2>1, <2>2
  <1> QED BY <1>3 DEF Queue!Put, Buffer_StoreElement

LEMMA GetImplementsTake ==
  ASSUME Inv, Inv', Buffer_GetElement
  PROVE  Queue!Take
  <1> USE LengthAssumption
  <1>1. ContentsWellFormed /\ ContentsWellFormed'
    BY ContentsSeq, ContentsSeqNext
  <1>2. Elements \in 1..BUFF_LENGTH
    BY DEF Inv, TypeOK, PointersAgree, NoUnderflow, Buffer_GetElement
  <1>3. /\ Elements' = Elements - 1 /\ OutPtr' = Advance(OutPtr)
        /\ Buffer' = Buffer /\ BuffData' = Buffer[OutPtr]
    BY <1>2 DEF Buffer_GetElement
  <1>4. Contents # <<>>
    BY <1>1, <1>2 DEF ContentsWellFormed
  <1>5. BuffData' = Head(Contents)
    <2>1. Contents[1] = Buffer[Slot(0)] /\ Slot(0) = OutPtr
      BY <1>1, <1>2 DEF ContentsWellFormed, Slot, Inv, TypeOK, Slots
    <2>2. Head(Contents) = Contents[1]
      BY <1>1, <1>4 DEF ContentsWellFormed
    <2> QED BY <1>3, <2>1, <2>2
  <1>6. Contents' = Tail(Contents)
    <2>1. /\ Tail(Contents) \in Seq(RingBuff_Data_t)
          /\ Len(Tail(Contents)) = Elements - 1
          /\ \A k \in 1..(Elements - 1) : Tail(Contents)[k] = Contents[k + 1]
      BY <1>1, <1>2, <1>4, HeadTailProperties DEF ContentsWellFormed
    <2>2. ASSUME NEW k \in 1..(Elements - 1) PROVE Contents'[k] = Tail(Contents)[k]
      <3>1. Contents'[k] = Buffer[Slot(k - 1)']
        BY <1>1, <1>3 DEF ContentsWellFormed
      <3>2. Slot(k - 1)' = Slot(k)
        BY <1>2, <1>3, AdvanceSlot
      <3>3. Contents[k + 1] = Buffer[Slot(k)]
        BY <1>1, <1>2 DEF ContentsWellFormed
      <3> QED BY <3>1, <3>2, <3>3, <2>1
    <2> QED BY <1>1, <1>3, <2>1, <2>2, SeqEqual DEF ContentsWellFormed
  <1> QED BY <1>4, <1>5, <1>6 DEF Queue!Take

LEMMA InitImplementsInit == Init => Queue!Init
  <1> SUFFICES ASSUME Init PROVE Queue!Init
    OBVIOUS
  <1>1. Contents = <<>>
    <2>1. ContentsWellFormed
      BY InvInit, ContentsSeq
    <2>2. Len(Contents) = 0
      BY <2>1 DEF ContentsWellFormed, Init
    <2> QED BY <2>1, <2>2, EmptySeq DEF ContentsWellFormed
  <1> QED BY <1>1, LengthAssumption DEF Queue!Init, Init

LEMMA StepImplementsNext ==
  Inv /\ Inv' /\ [Next]_vars => [Queue!Next]_<<Contents, BuffData>>
  <1> SUFFICES ASSUME Inv, Inv', [Next]_vars
               PROVE  [Queue!Next]_<<Contents, BuffData>>
    OBVIOUS
  <1>1. CASE TestElements
    BY <1>1 DEF TestElements, ring, Contents, Slot
  <1>2. CASE Buffer_GetElement
    BY <1>2, GetImplementsTake DEF Queue!Next
  <1>3. ASSUME NEW d \in RingBuff_Data_t, Buffer_StoreElement(d)
        PROVE  Queue!Next
    BY <1>3, StoreImplementsPut DEF Queue!Next
  <1>4. CASE UNCHANGED vars
    BY <1>4 DEF vars, ring, Contents, Slot
  <1> QED BY <1>1, <1>2, <1>3, <1>4 DEF Next

\* The ring implements the bounded queue: elements come out in the order they
\* went in, and only the oldest are dropped, for every buffer length.
THEOREM RefinesQueue == Spec => ImplementsQueue
  BY InitImplementsInit, StepImplementsNext, InvHolds, PTL
  DEF Spec, ImplementsQueue, Queue!Spec

-----------------------------------------------------------------------------
\* The scheduler.

Now == Scheduler_TickCounter

\* The counter of a task is its age behind, around the end of the type.
InStep(t) ==
  DelayCounter[t] + age[t] \in {Now, Now + MAX_DELAYCTR_COUNT + 1}

InTime(t) == /\ age[t] <= Delay[t] + 1
             /\ t \in polled => age[t] <= Delay[t]

Punctual == \A t \in Tasks : TaskStatus[t] => InStep(t) /\ InTime(t)

SchedInv == SchedTypeOK /\ Punctual

-----------------------------------------------------------------------------
\* The age of a counter that is in step, from the two branches of the test of
\* Scheduler_HasDelayElapsed: without the wrap the difference is the age, and
\* with it one tick less.
LEMMA AgeOfCounter ==
  ASSUME NEW now \in Counters, NEW from \in Counters, NEW delay \in Delays,
         NEW a \in Nat, a <= delay + 1,
         from + a \in {now, now + MAX_DELAYCTR_COUNT + 1}
  PROVE  /\ now >= from => now - from = a
         /\ ~(now >= from) => (MAX_DELAYCTR_COUNT - from) + now = a - 1
<1>1. /\ MAX_DELAYCTR_COUNT \in Nat /\ now \in 0..MAX_DELAYCTR_COUNT
      /\ from \in 0..MAX_DELAYCTR_COUNT /\ delay \in 0..(MAX_DELAYCTR_COUNT - 1)
  BY SchedulerAssumption DEF Counters, TASK_MAX_DELAY
<1> QED BY <1>1

\* A delay that has elapsed has lasted as long as was asked, and one that has
\* not is not late: the test of Scheduler_HasDelayElapsed errs by one tick, on
\* the late side, and only across the wrap.
LEMMA ElapsedOnTime ==
  ASSUME NEW now \in Counters, NEW from \in Counters, NEW delay \in Delays,
         NEW a \in Nat, a <= delay + 1,
         from + a \in {now, now + MAX_DELAYCTR_COUNT + 1}
  PROVE  /\ HasDelayElapsed(now, from, delay) => a >= delay
         /\ ~HasDelayElapsed(now, from, delay) => a <= delay
<1>1. /\ now >= from => now - from = a
      /\ ~(now >= from) => (MAX_DELAYCTR_COUNT - from) + now = a - 1
  BY AgeOfCounter
<1>2. delay \in Nat
  BY SchedulerAssumption DEF TASK_MAX_DELAY
<1>3. CASE now >= from
  <2>1. HasDelayElapsed(now, from, delay) <=> a >= delay
    BY <1>1, <1>3 DEF HasDelayElapsed
  <2> QED BY <2>1, <1>2
<1>4. CASE ~(now >= from)
  <2>1. HasDelayElapsed(now, from, delay) <=> a - 1 >= delay
    BY <1>1, <1>4 DEF HasDelayElapsed
  <2> QED BY <2>1, <1>2
<1> QED BY <1>3, <1>4

\* The types the steps below need, of a state that satisfies the invariant.
LEMMA Types ==
  ASSUME SchedTypeOK
  PROVE  /\ Now \in Counters /\ CurrTask \in Tasks
         /\ \A t \in Tasks : /\ TaskStatus[t] \in BOOLEAN /\ DelayCounter[t] \in Counters
                             /\ Delay[t] \in Delays /\ Delay[t] \in 0..(MAX_DELAYCTR_COUNT - 1)
                             /\ age[t] \in Nat /\ age[t] \in 0..AgeCap
<1>1. Now \in Counters /\ CurrTask \in Tasks
  BY DEF SchedTypeOK, Now
<1>2. ASSUME NEW t \in Tasks
      PROVE  /\ TaskStatus[t] \in BOOLEAN /\ DelayCounter[t] \in Counters
             /\ Delay[t] \in Delays /\ age[t] \in 0..AgeCap
  BY <1>2 DEF SchedTypeOK
<1>3. Delays \subseteq 0..(MAX_DELAYCTR_COUNT - 1) /\ 0..AgeCap \subseteq Nat
  BY SchedulerAssumption DEF TASK_MAX_DELAY, AgeCap
<1> QED BY <1>1, <1>2, <1>3

\* Scheduler_ResetDelay puts every counter in step at the start.
LEMMA StartsPunctual == SchedInit => SchedInv
<1> SUFFICES ASSUME SchedInit PROVE SchedInv OBVIOUS
<1>1. /\ MAX_DELAYCTR_COUNT \in Nat \ {0} /\ TOTAL_TASKS \in Nat \ {0}
      /\ Delays \subseteq 0..(MAX_DELAYCTR_COUNT - 1)
  BY SchedulerAssumption DEF TASK_MAX_DELAY
<1>2. SchedTypeOK
  BY <1>1 DEF SchedInit, SchedTypeOK, Tasks, Counters, AgeCap
<1>3. ASSUME NEW t \in Tasks PROVE InStep(t) /\ InTime(t)
  <2>1. DelayCounter[t] = Now /\ age[t] = 0 /\ Now \in 0..MAX_DELAYCTR_COUNT
    BY <1>3 DEF SchedInit, Now, Counters
  <2>2. Delay[t] \in 0..(MAX_DELAYCTR_COUNT - 1)
    BY <1>1, <1>3 DEF SchedInit
  <2> QED BY <1>1, <2>1, <2>2 DEF InStep, InTime
<1> QED BY <1>2, <1>3 DEF SchedInv, Punctual

-----------------------------------------------------------------------------
\* The loop goes to an entry of the list.
LEMMA NextInList ==
  ASSUME CurrTask \in Tasks
  PROVE  NextTask \in Tasks
  BY SchedulerAssumption DEF NextTask, Tasks

\* Stopped: an entry whose task is stopped is passed.
LEMMA StoppedKeeps == SchedInv /\ Stopped => SchedInv'
<1> SUFFICES ASSUME SchedInv, Stopped PROVE SchedInv' OBVIOUS
<1>1. SchedTypeOK'
  BY NextInList DEF SchedInv, SchedTypeOK, Stopped, PassEntry
<1>2. ASSUME NEW t \in Tasks, TaskStatus'[t] PROVE InStep(t)' /\ InTime(t)'
  <2>1. t # CurrTask /\ InStep(t) /\ InTime(t)
    BY <1>2 DEF SchedInv, Punctual, Stopped
  <2> QED BY <2>1 DEF InStep, InTime, Stopped, PassEntry, Now
<1> QED BY <1>1, <1>2 DEF SchedInv, Punctual

\* NotElapsed: the task that was passed is not late yet.
LEMMA NotElapsedKeeps == SchedInv /\ NotElapsed => SchedInv'
<1> SUFFICES ASSUME SchedInv, NotElapsed PROVE SchedInv' OBVIOUS
<1>1. SchedTypeOK'
  BY NextInList DEF SchedInv, SchedTypeOK, NotElapsed, PassEntry
<1>2. ASSUME NEW t \in Tasks, TaskStatus'[t] PROVE InStep(t)' /\ InTime(t)'
  <2>1. InStep(t) /\ InTime(t)
    BY <1>2 DEF SchedInv, Punctual, NotElapsed
  <2>2. InStep(t)' BY <2>1 DEF InStep, NotElapsed, PassEntry, Now
  <2>3. CASE t # CurrTask
    BY <2>1, <2>2, <2>3 DEF InTime, NotElapsed, PassEntry
  <2>4. CASE t = CurrTask
    <3>1. ~HasDelayElapsed(Now, DelayCounter[t], Delay[t])
      BY <2>4 DEF NotElapsed, Now
    <3>2. age[t] <= Delay[t]
      BY <2>1, <3>1, ElapsedOnTime, Types DEF SchedInv, InStep, InTime
    <3> QED BY <2>1, <2>2, <3>2 DEF InTime, NotElapsed, PassEntry
  <2> QED BY <2>3, <2>4
<1> QED BY <1>1, <1>2 DEF SchedInv, Punctual

\* Scheduler_SetTaskMode and Scheduler_SetGroupTaskMode leave a status for
\* every task.
LEMMA ListChangeTyped ==
  ASSUME TaskStatus \in [Tasks -> BOOLEAN], NEW status, ListChange(status)
  PROVE  status \in [Tasks -> BOOLEAN]
  BY DEF ListChange

\* Elapsed: the task and those it starts begin anew at the current tick.
LEMMA ElapsedKeeps == SchedInv /\ Elapsed => SchedInv'
<1> SUFFICES ASSUME SchedInv, Elapsed PROVE SchedInv' OBVIOUS
<1> DEFINE started == {t \in Tasks : TaskStatus'[t] /\ ~TaskStatus[t]} \cup {CurrTask}
<1>1. /\ DelayCounter' = [t \in Tasks |-> IF t \in started THEN Now ELSE DelayCounter[t]]
      /\ age' = [t \in Tasks |-> IF t \in started THEN 0 ELSE age[t]]
      /\ Now' = Now /\ Delay' = Delay /\ polled' = polled \cup {CurrTask}
      /\ CurrTask' = NextTask
  BY DEF Elapsed, PassEntry, Now
<1>2. TaskStatus' \in [Tasks -> BOOLEAN]
  BY ListChangeTyped DEF Elapsed, SchedInv, SchedTypeOK
<1>3. AgeCap \in Nat /\ MAX_DELAYCTR_COUNT \in Nat
  BY SchedulerAssumption DEF AgeCap
<1>4. SchedTypeOK'
  <2>1. CurrTask' \in Tasks /\ polled' \subseteq Tasks
    BY <1>1, NextInList DEF SchedInv, SchedTypeOK
  <2>2. DelayCounter' \in [Tasks -> Counters]
    BY <1>1, Types DEF SchedInv, SchedTypeOK
  <2>3. age' \in [Tasks -> 0..AgeCap]
    BY <1>1, <1>3, Types DEF SchedInv, SchedTypeOK
  <2> QED BY <1>1, <1>2, <2>1, <2>2, <2>3 DEF SchedInv, SchedTypeOK, Now
<1>5. ASSUME NEW t \in Tasks, TaskStatus'[t] PROVE InStep(t)' /\ InTime(t)'
  <2>1. CASE t \in started
    <3>1. DelayCounter'[t] = Now' /\ age'[t] = 0 /\ Delay'[t] = Delay[t]
      BY <1>1, <2>1
    <3>2. Now' \in 0..MAX_DELAYCTR_COUNT /\ Delay[t] \in 0..(MAX_DELAYCTR_COUNT - 1)
      BY <1>1, Types DEF SchedInv, Counters
    <3>3. DelayCounter'[t] + age'[t] = Now'
      <4>1. \A n \in Nat : n + 0 = n  OBVIOUS
      <4>2. Now' \in Nat  BY <3>2, <1>3
      <4> HIDE DEF Now
      <4> QED  BY ONLY <3>1, <4>1, <4>2, Zenon
    <3>4. InStep(t)'
      BY <3>3 DEF InStep
    <3>5. age'[t] <= Delay'[t] + 1 /\ age'[t] <= Delay'[t]
      BY <3>1, <3>2
    <3> QED BY <3>4, <3>5 DEF InTime
  <2>2. CASE t \notin started
    <3>1. TaskStatus[t] /\ t # CurrTask
      BY <1>5, <2>2
    <3>2. InStep(t) /\ InTime(t)
      BY <3>1 DEF SchedInv, Punctual
    <3>3. DelayCounter'[t] = DelayCounter[t] /\ age'[t] = age[t]
      BY <1>1, <2>2
    <3>4. t \in polled' => t \in polled
      BY <1>1, <3>1
    <3> QED BY <1>1, <3>2, <3>3, <3>4 DEF InStep, InTime
  <2> QED BY <2>1, <2>2
<1> QED BY <1>4, <1>5 DEF SchedInv, Punctual

\* Tick: every running task was passed, so none was late and one tick is left.
LEMMA TickKeeps == SchedInv /\ Tick => SchedInv'
<1> SUFFICES ASSUME SchedInv, Tick PROVE SchedInv' OBVIOUS
<1>1. MAX_DELAYCTR_COUNT \in Nat \ {0} /\ AgeCap = MAX_DELAYCTR_COUNT + 2
  BY SchedulerAssumption DEF AgeCap
<1>2. Now' = IF Now = MAX_DELAYCTR_COUNT THEN 0 ELSE Now + 1
  BY DEF Tick, Now
<1>3. Now \in 0..MAX_DELAYCTR_COUNT
  BY Types DEF SchedInv, Counters
<1>4. SchedTypeOK'
  <2>1. Scheduler_TickCounter' \in Counters
    BY <1>1, <1>2, <1>3 DEF Now, Counters
  <2>2. age' \in [Tasks -> 0..AgeCap]
    BY <1>1, Types DEF SchedInv, Tick
  <2> QED BY <2>1, <2>2 DEF Tick, SchedInv, SchedTypeOK
<1>5. ASSUME NEW t \in Tasks, TaskStatus'[t] PROVE InStep(t)' /\ InTime(t)'
  <2>1. InStep(t) /\ age[t] <= Delay[t]
    BY <1>5 DEF SchedInv, Punctual, Tick, InTime
  <2>2. /\ age[t] \in Nat /\ Delay[t] \in 0..(MAX_DELAYCTR_COUNT - 1)
        /\ DelayCounter[t] \in 0..MAX_DELAYCTR_COUNT
    BY Types DEF SchedInv, Counters
  <2>3. age'[t] = age[t] + 1 /\ DelayCounter'[t] = DelayCounter[t] /\ Delay'[t] = Delay[t]
    BY <1>1, <2>1, <2>2 DEF Tick
  <2>4. InTime(t)'
    BY <2>1, <2>2, <2>3 DEF InTime, Tick
  <2>5. DelayCounter[t] + age[t] \in {Now, Now + MAX_DELAYCTR_COUNT + 1}
    BY <2>1 DEF InStep
  <2>6. DelayCounter[t] + age[t] + 1 \in {Now', Now' + MAX_DELAYCTR_COUNT + 1}
    <3>1. CASE Now = MAX_DELAYCTR_COUNT
      BY <1>1, <1>2, <2>1, <2>2, <2>5, <3>1
    <3>2. CASE Now # MAX_DELAYCTR_COUNT
      BY <1>1, <1>2, <1>3, <2>1, <2>2, <2>5, <3>2
    <3> QED BY <3>1, <3>2
  <2>7. InStep(t)'
    BY <2>2, <2>3, <2>6 DEF InStep
  <2> QED BY <2>4, <2>7
<1> QED BY <1>4, <1>5 DEF SchedInv, Punctual

-----------------------------------------------------------------------------
\* Every step of the scheduler, of its tasks and of the timer keeps the tasks
\* punctual.
THEOREM SchedulerPunctual == SchedSpec => []SchedInv
<1>1. SchedInit => SchedInv
  BY StartsPunctual
<1>2. SchedInv /\ [SchedNext]_schedVars => SchedInv'
  <2> SUFFICES ASSUME SchedInv, [SchedNext]_schedVars PROVE SchedInv' OBVIOUS
  <2>1. CASE Stopped BY <2>1, StoppedKeeps
  <2>2. CASE NotElapsed BY <2>2, NotElapsedKeeps
  <2>3. CASE Elapsed BY <2>3, ElapsedKeeps
  <2>4. CASE Tick BY <2>4, TickKeeps
  <2>5. CASE UNCHANGED schedVars
    BY <2>5 DEF schedVars, SchedInv, SchedTypeOK, Punctual, InStep, InTime, Now
  <2> QED BY <2>1, <2>2, <2>3, <2>4, <2>5 DEF SchedNext
<1> QED BY <1>1, <1>2, PTL DEF SchedSpec

\* DelaysOnTime in every reachable state: no delay of a running task ends
\* early, more than a tick late, or is missed because the counter came round.
THEOREM DelaysEndOnTime == SchedSpec => []DelaysOnTime
<1>1. SchedInv => DelaysOnTime
  <2> SUFFICES ASSUME SchedInv PROVE DelaysOnTime OBVIOUS
  <2>1. \A t \in Tasks : TaskStatus[t] => age[t] <= Delay[t] + 1
    BY DEF SchedInv, Punctual, InTime
  <2>2. ASSUME TaskStatus[CurrTask], HasDelayElapsed(Now, DelayCounter[CurrTask], Delay[CurrTask])
        PROVE  age[CurrTask] >= Delay[CurrTask]
    <3>1. CurrTask \in Tasks /\ InStep(CurrTask) /\ age[CurrTask] <= Delay[CurrTask] + 1
      BY <2>1, <2>2 DEF SchedInv, Punctual, SchedTypeOK
    <3> QED BY <2>2, <3>1, ElapsedOnTime, Types DEF SchedInv, InStep
  <2> QED BY <2>1, <2>2 DEF DelaysOnTime, Now
<1> QED BY <1>1, SchedulerPunctual, PTL

-----------------------------------------------------------------------------
\* The stripe reader.

-----------------------------------------------------------------------------
(* Concatenation.                                                          *)

\* Induction over the natural numbers, for a set of them.
LEMMA NatSetInduction ==
  ASSUME NEW P, P \subseteq Nat, 0 \in P, \A n \in P : n + 1 \in P
  PROVE  P = Nat
  <1> DEFINE R == {ss \in Nat \X Nat : ss[1] < ss[2]}
             T == Nat \ P
  <1>1. SUFFICES ASSUME T # {} PROVE FALSE
    OBVIOUS
  <1>2. IsWellFoundedOn(R, Nat)
    BY NatLessThanWellFounded DEF OpToRel
  <1>3. \E m \in T : \A k \in T : ~(<<k, m>> \in R)
    <2> T \subseteq Nat
      OBVIOUS
    <2> HIDE DEF R, T
    <2> QED BY <1>1, <1>2, WFMin
  <1>4. PICK m \in T : \A k \in T : ~(<<k, m>> \in R)
    BY <1>3
  <1>5. m \in Nat /\ m # 0 /\ m - 1 \in Nat
    OBVIOUS
  <1>6. m - 1 \in T
    <2>1. (m - 1) + 1 = m
      BY <1>5
    <2> QED BY <1>5, <2>1
  <1>7. <<m - 1, m>> \in R
    BY <1>5
  <1> QED BY <1>4, <1>6, <1>7

\* The function that FlattenSeq is defined with is there.
Flattens(f, q, n) ==
  f = [i \in 1..n |-> IF i = 1 THEN q[i] ELSE f[i - 1] \o q[i]]

LEMMA FlattenExists ==
  ASSUME NEW q, NEW n \in Nat
  PROVE  \E f : Flattens(f, q, n)
  <1> DEFINE P == {k \in Nat : \E f : Flattens(f, q, k)}
  <1>1. 0 \in P
    <2>1. Flattens([i \in 1..0 |-> 0], q, 0)
      BY DEF Flattens
    <2> QED BY <2>1
  <1>2. ASSUME NEW k \in P PROVE k + 1 \in P
    <2>1. PICK f : Flattens(f, q, k)
      OBVIOUS
    <2> DEFINE g == [i \in 1..(k + 1) |-> IF i = 1 THEN q[i] ELSE f[i - 1] \o q[i]]
    <2>2. ASSUME NEW i \in 1..(k + 1), i # 1 PROVE f[i - 1] = g[i - 1]
      <3>1. i - 1 \in 1..k /\ i - 1 \in 1..(k + 1)
        BY <2>2
      <3>2. f[i - 1] = (IF i - 1 = 1 THEN q[i - 1] ELSE f[(i - 1) - 1] \o q[i - 1])
        BY <3>1, <2>1 DEF Flattens
      <3> QED BY <3>1, <3>2
    <2>3. Flattens(g, q, k + 1)
      BY <2>2 DEF Flattens
    <2> QED BY <2>3
  <1>3. P = Nat
    <2> P \subseteq Nat
      OBVIOUS
    <2> HIDE DEF P
    <2> QED BY <1>1, <1>2, NatSetInduction
  <1> QED BY <1>3

Unfolds(f, q, n) ==
  \A i \in 1..n : f[i] = IF i = 1 THEN q[i] ELSE f[i - 1] \o q[i]

LEMMA FlattenBy ==
  ASSUME NEW q, NEW n \in Nat \ {0}, Len(q) = n
  PROVE  \E f : Unfolds(f, q, n) /\ SeqExt!FlattenSeq(q) = f[n]
  <1> DEFINE g == CHOOSE f : Flattens(f, q, Len(q))
  <1>1. Flattens(g, q, Len(q))
    BY FlattenExists
  <1>2. SeqExt!FlattenSeq(q) = g[Len(q)]
    BY DEF SeqExt!FlattenSeq, Flattens
  <1>3. Unfolds(g, q, n)
    <2> HIDE DEF g
    <2> QED BY <1>1 DEF Flattens, Unfolds
  <1> QED BY <1>2, <1>3

LEMMA FlattenTyped ==
  ASSUME NEW T, NEW q \in Seq(Seq(T)), NEW f, Unfolds(f, q, Len(q))
  PROVE  \A i \in 1..Len(q) : f[i] \in Seq(T)
  <1> DEFINE P == {k \in Nat : k + 1 \in 1..Len(q) => f[k + 1] \in Seq(T)}
  <1>1. Len(q) \in Nat /\ \A i \in 1..Len(q) : q[i] \in Seq(T)
    BY ElementOfSeq, LenProperties
  <1>2. 0 \in P
    <2>1. SUFFICES ASSUME 1 \in 1..Len(q) PROVE f[1] \in Seq(T)
      OBVIOUS
    <2> QED BY <1>1, <2>1 DEF Unfolds
  <1>3. ASSUME NEW k \in P PROVE k + 1 \in P
    <2> DEFINE i == (k + 1) + 1
    <2>1. SUFFICES ASSUME i \in 1..Len(q) PROVE f[i] \in Seq(T)
      OBVIOUS
    <2>2. i # 1 /\ i - 1 = k + 1 /\ k + 1 \in 1..Len(q)
      BY <1>1, <2>1
    <2>3. f[i - 1] \in Seq(T)
      BY <2>2
    <2> HIDE DEF i
    <2>4. f[i] = f[i - 1] \o q[i] /\ q[i] \in Seq(T)
      BY <1>1, <2>1, <2>2 DEF Unfolds
    <2> QED BY <2>3, <2>4, ConcatProperties
  <1>4. P = Nat
    <2> P \subseteq Nat
      OBVIOUS
    <2> HIDE DEF P
    <2> QED BY <1>2, <1>3, NatSetInduction
  <1>5. ASSUME NEW i \in 1..Len(q) PROVE f[i] \in Seq(T)
    <2>1. i - 1 \in Nat /\ (i - 1) + 1 = i
      BY <1>1
    <2>2. i - 1 \in P
      <3> HIDE DEF P
      <3> QED BY <2>1, <1>4
    <2>3. (i - 1) + 1 \in 1..Len(q) => f[(i - 1) + 1] \in Seq(T)
      BY <2>2
    <2> QED BY <2>1, <2>3
  <1> QED BY <1>5

\* FlattenSeq of nothing, of one sequence, of one more at the end, and of one
\* more at the start.
LEMMA FlattenEmpty == SeqExt!FlattenSeq(<<>>) = <<>>
  <1>1. Len(<<>>) = 0
    OBVIOUS
  <1> QED BY <1>1 DEF SeqExt!FlattenSeq

LEMMA FlattenType ==
  ASSUME NEW T, NEW q \in Seq(Seq(T))
  PROVE  SeqExt!FlattenSeq(q) \in Seq(T)
  <1>1. CASE q = <<>>
    <2>1. <<>> \in Seq(T)
      OBVIOUS
    <2> QED BY <1>1, <2>1, FlattenEmpty
  <1>2. CASE q # <<>>
    <2>1. Len(q) \in Nat \ {0} /\ Len(q) \in 1..Len(q)
      BY <1>2, EmptySeq, LenProperties
    <2>2. PICK f : Unfolds(f, q, Len(q)) /\ SeqExt!FlattenSeq(q) = f[Len(q)]
      BY <2>1, FlattenBy
    <2>3. \A i \in 1..Len(q) : f[i] \in Seq(T)
      BY <2>2, FlattenTyped
    <2> QED BY <2>1, <2>2, <2>3
  <1> QED BY <1>1, <1>2

LEMMA FlattenOne ==
  ASSUME NEW q, Len(q) = 1
  PROVE  SeqExt!FlattenSeq(q) = q[1]
  <1>1. 1 \in Nat \ {0} /\ 1 \in 1..1
    OBVIOUS
  <1>2. PICK f : Unfolds(f, q, 1) /\ SeqExt!FlattenSeq(q) = f[1]
    BY <1>1, FlattenBy
  <1> QED BY <1>1, <1>2 DEF Unfolds

\* Two sequences that agree up to n are flattened alike up to n.
LEMMA FlattenAgree ==
  ASSUME NEW q, NEW r, NEW f, NEW g, NEW n \in Nat,
         Unfolds(f, q, n), Unfolds(g, r, n), \A i \in 1..n : q[i] = r[i]
  PROVE  \A i \in 1..n : f[i] = g[i]
  <1> DEFINE P == {k \in Nat : k + 1 \in 1..n => f[k + 1] = g[k + 1]}
  <1>2. ASSUME NEW i \in 1..n
        PROVE  /\ f[i] = IF i = 1 THEN q[i] ELSE f[i - 1] \o q[i]
               /\ g[i] = IF i = 1 THEN r[i] ELSE g[i - 1] \o r[i]
    BY DEF Unfolds
  <1>3. 0 \in P
    <2>1. SUFFICES ASSUME 1 \in 1..n PROVE f[1] = g[1]
      OBVIOUS
    <2> QED BY <2>1, <1>2
  <1>4. ASSUME NEW k \in P PROVE k + 1 \in P
    <2> DEFINE i == (k + 1) + 1
    <2>1. SUFFICES ASSUME i \in 1..n PROVE f[i] = g[i]
      OBVIOUS
    <2>2. i # 1 /\ i - 1 = k + 1 /\ k + 1 \in 1..n
      BY <2>1
    <2>3. f[i - 1] = g[i - 1]
      BY <2>2
    <2> HIDE DEF i
    <2> QED BY <1>2, <2>1, <2>2, <2>3
  <1>5. P = Nat
    <2> P \subseteq Nat
      OBVIOUS
    <2> HIDE DEF P
    <2> QED BY <1>3, <1>4, NatSetInduction
  <1>6. ASSUME NEW i \in 1..n PROVE f[i] = g[i]
    <2>1. i - 1 \in Nat /\ (i - 1) + 1 = i
      OBVIOUS
    <2>2. i - 1 \in P
      <3> HIDE DEF P
      <3> QED BY <2>1, <1>5
    <2>3. (i - 1) + 1 \in 1..n => f[(i - 1) + 1] = g[(i - 1) + 1]
      BY <2>2
    <2> QED BY <2>1, <2>3
  <1> QED BY <1>6

LEMMA FlattenAppend ==
  ASSUME NEW T, NEW q \in Seq(Seq(T)), NEW x \in Seq(T), NEW r,
         Len(r) = Len(q) + 1, r[Len(r)] = x, \A i \in 1..Len(q) : r[i] = q[i]
  PROVE  SeqExt!FlattenSeq(r) = SeqExt!FlattenSeq(q) \o x
  <1>1. Len(q) \in Nat
    BY LenProperties
  <1>2. CASE q = <<>>
    <2>1. Len(r) = 1 /\ r[1] = x
      BY <1>2
    <2>2. <<>> \o x = x
      BY ConcatEmptySeq
    <2> QED BY <1>2, <2>1, <2>2, FlattenOne, FlattenEmpty
  <1>3. CASE q # <<>>
    <2> DEFINE n == Len(q)
    <2>1. n \in Nat \ {0} /\ n \in 1..n
      BY <1>1, <1>3, EmptySeq
    <2> HIDE DEF n
    <2>2. n + 1 \in Nat \ {0} /\ n + 1 \in 1..(n + 1) /\ n + 1 # 1 /\ (n + 1) - 1 = n
      BY <2>1
    <2>3. Len(r) = n + 1 /\ Len(q) = n
      BY DEF n
    <2>4. PICK f : Unfolds(f, r, n + 1) /\ SeqExt!FlattenSeq(r) = f[n + 1]
      BY <2>2, <2>3, FlattenBy
    <2>5. PICK g : Unfolds(g, q, n) /\ SeqExt!FlattenSeq(q) = g[n]
      BY <2>1, <2>3, FlattenBy
    <2>6. f[n + 1] = f[n] \o r[n + 1]
      BY <2>2, <2>4 DEF Unfolds
    <2>7. f[n] = g[n]
      <3>1. Unfolds(f, r, n)
        BY <2>1, <2>4 DEF Unfolds
      <3>2. \A i \in 1..n : r[i] = q[i]
        BY <2>3
      <3>3. \A i \in 1..n : f[i] = g[i]
        BY <2>1, <2>5, <3>1, <3>2, FlattenAgree
      <3> QED BY <2>1, <3>3
    <2> QED BY <2>3, <2>4, <2>5, <2>6, <2>7
  <1> QED BY <1>2, <1>3

LEMMA FlattenCons ==
  ASSUME NEW T, NEW q \in Seq(Seq(T)), NEW x \in Seq(T), NEW r,
         Len(r) = Len(q) + 1, r[1] = x, \A i \in 1..Len(q) : r[i + 1] = q[i]
  PROVE  SeqExt!FlattenSeq(r) = x \o SeqExt!FlattenSeq(q)
  <1>1. Len(q) \in Nat
    BY LenProperties
  <1>2. CASE q = <<>>
    <2>1. Len(r) = 1 /\ r[1] = x
      BY <1>2
    <2>2. x \o <<>> = x
      BY ConcatEmptySeq
    <2> QED BY <1>2, <2>1, <2>2, FlattenOne, FlattenEmpty
  <1>3. CASE q # <<>>
    <2> DEFINE n == Len(q)
    <2>1. n \in Nat \ {0} /\ n \in 1..n /\ 1 \in 1..n
      BY <1>1, <1>3, EmptySeq
    <2> HIDE DEF n
    <2>2. n + 1 \in Nat \ {0}
      BY <2>1
    <2>3. Len(r) = n + 1 /\ Len(q) = n /\ \A i \in 1..n : r[i + 1] = q[i] /\ q[i] \in Seq(T)
      BY ElementOfSeq DEF n
    <2>4. PICK f : Unfolds(f, r, n + 1) /\ SeqExt!FlattenSeq(r) = f[n + 1]
      BY <2>2, <2>3, FlattenBy
    <2>5. PICK g : Unfolds(g, q, n) /\ SeqExt!FlattenSeq(q) = g[n]
      BY <2>1, <2>3, FlattenBy
    <2>6. ASSUME NEW i \in 1..n
          PROVE  /\ g[i] = IF i = 1 THEN q[i] ELSE g[i - 1] \o q[i]
                 /\ f[i + 1] = f[i] \o q[i]
                 /\ g[i] \in Seq(T)
      <3>1. i + 1 \in 1..(n + 1) /\ i + 1 # 1 /\ (i + 1) - 1 = i
        BY <2>1
      <3>2. f[i + 1] = f[i] \o r[i + 1]
        BY <2>4, <3>1 DEF Unfolds
      <3>3. g[i] \in Seq(T)
        BY <2>3, <2>5, FlattenTyped
      <3> QED BY <2>3, <2>5, <3>2, <3>3 DEF Unfolds
    <2> DEFINE P == {k \in Nat : k + 1 \in 1..n => f[(k + 1) + 1] = x \o g[k + 1]}
    <2>7. 0 \in P
      <3>1. 1 \in 1..(n + 1)
        BY <2>1
      <3>2. f[1] = x
        BY <2>4, <3>1 DEF Unfolds
      <3>3. f[1 + 1] = x \o g[1]
        BY <2>1, <2>6, <3>2
      <3>4. 0 + 1 = 1
        OBVIOUS
      <3>5. f[(0 + 1) + 1] = x \o g[0 + 1]
        BY <3>3, <3>4
      <3> QED BY <3>5
    <2>8. ASSUME NEW k \in P PROVE k + 1 \in P
      <3> DEFINE i == (k + 1) + 1
      <3>1. k + 1 \in Nat
        OBVIOUS
      <3>2. ASSUME i \in 1..n PROVE f[i + 1] = x \o g[i]
        <4>1. i # 1 /\ i - 1 = k + 1 /\ k + 1 \in 1..n /\ i - 1 \in 1..n
          BY <2>1, <3>2
        <4>2. f[i] = x \o g[i - 1]
          <5>1. f[(k + 1) + 1] = x \o g[k + 1]
            BY <4>1
          <5>2. i = (k + 1) + 1
            OBVIOUS
          <5> HIDE DEF i
          <5> QED BY <4>1, <5>1, <5>2
        <4> HIDE DEF i
        <4>3. g[i - 1] \in Seq(T) /\ q[i] \in Seq(T) /\ g[i] = g[i - 1] \o q[i]
          BY <2>3, <2>6, <3>2, <4>1
        <4>4. (x \o g[i - 1]) \o q[i] = x \o (g[i - 1] \o q[i])
          <5> DEFINE v == g[i - 1]
                     w == q[i]
          <5>1. v \in Seq(T) /\ w \in Seq(T)
            BY <4>3
          <5> HIDE DEF v, w
          <5>2. (x \o v) \o w = x \o (v \o w)
            BY ONLY x \in Seq(T), <5>1, ConcatAssociative
          <5> QED BY ONLY <5>2 DEF v, w
        <4> QED BY <2>6, <3>2, <4>2, <4>3, <4>4
      <3> QED BY <3>1, <3>2
    <2>9. P = Nat
      <3> P \subseteq Nat
        OBVIOUS
      <3> HIDE DEF P
      <3> QED BY <2>7, <2>8, NatSetInduction
    <2>10. f[n + 1] = x \o g[n]
      <3>1. n - 1 \in Nat /\ (n - 1) + 1 = n
        BY <2>1
      <3>2. n - 1 \in P
        <4> HIDE DEF P
        <4> QED BY <3>1, <2>9
      <3>3. (n - 1) + 1 \in 1..n => f[((n - 1) + 1) + 1] = x \o g[(n - 1) + 1]
        BY <3>2
      <3> QED BY <2>1, <3>1, <3>3
    <2> QED BY <2>4, <2>5, <2>10
  <1> QED BY <1>2, <1>3
-----------------------------------------------------------------------------
(* Indexes, and the keys of a line of bits.                                *)

\* The sizes, as facts that a step can cite.
LEMMA MagSizes ==
  /\ TOTAL_TRACKS \in Nat \ {0} /\ MAX_BITS \in Nat \ {0} /\ BANKS \in Nat \ {0}
  /\ IDLE_MS \in Nat /\ MaxCards \in Nat /\ IdlePeriods \subseteq Nat
  BY MagAssumption

\* A product with a remainder has only one quotient.
LEMMA QuotientUnique ==
  ASSUME NEW n \in Nat \ {0}, NEW p \in Nat, NEW q \in Nat,
         NEW x \in 0..(n - 1), NEW y \in 0..(n - 1), n * q + x = n * p + y
  PROVE  x = y
  <1>1. CASE q < p
    <2>1. n * (q + 1) <= n * p
      BY <1>1
    <2> QED BY <2>1
  <1>2. CASE p < q
    <2>1. n * (p + 1) <= n * q
      BY <1>2
    <2> QED BY <2>1
  <1> QED BY <1>1, <1>2

\* An index that is less than two rounds.
Wrap(a) == IF a < MAX_BITS THEN a ELSE a - MAX_BITS

LEMMA ModWrap ==
  ASSUME NEW a \in Nat, a < 2 * MAX_BITS
  PROVE  a % MAX_BITS = Wrap(a)
  <1> DEFINE n == MAX_BITS
             d == a \div n
             m == a % n
  <1>1. n \in Nat \ {0} /\ a < 2 * n
    BY MagSizes
  <1>2. d \in Nat /\ m \in 0..(n - 1) /\ a = n * d + m
    <2> HIDE DEF n
    <2> QED BY <1>1
  <1> HIDE DEF n, d, m
  <1>3. CASE a < n
    <2>1. a \in 0..(n - 1) /\ n * 0 + a = n * d + m
      BY <1>1, <1>2, <1>3
    <2> QED BY <1>1, <1>2, <1>3, <2>1, QuotientUnique DEF Wrap, n, m
  <1>4. CASE ~(a < n)
    <2>1. a - n \in 0..(n - 1) /\ n * 1 + (a - n) = n * d + m
      BY <1>1, <1>2, <1>4
    <2>2. a - n = m
      BY <1>1, <1>2, <2>1, QuotientUnique
    <2> QED BY <1>4, <2>2 DEF Wrap, n, m
  <1> QED BY <1>3, <1>4

\* The parts of a concatenation of keys.
LEMMA KeysConcat ==
  \A s, t \in Seq(Keys) :
    /\ s \o t \in Seq(Keys) /\ Len(s \o t) = Len(s) + Len(t)
    /\ \A i \in 1..(Len(s) + Len(t)) : (s \o t)[i] = IF i <= Len(s) THEN s[i] ELSE t[i - Len(s)]
  <1> TAKE s, t \in Seq(Keys)
  <1> QED BY ConcatProperties

\* Where the i-th bit of a buffer is, with its first at o.
LEMMA SlotOf ==
  ASSUME NEW o \in BitSlots, NEW i \in 1..(MAX_BITS + 1)
  PROVE  (o + i - 1) % MAX_BITS \in BitSlots /\ (o + i - 1) % MAX_BITS = Wrap(o + i - 1)
  <1>1. o + i - 1 \in Nat /\ o + i - 1 < 2 * MAX_BITS
    BY MagSizes DEF BitSlots
  <1>2. (o + i - 1) % MAX_BITS = Wrap(o + i - 1)
    BY <1>1, ModWrap
  <1> QED BY <1>1, <1>2, MagSizes DEF Wrap, BitSlots

LEMMA NextSlot ==
  ASSUME NEW o \in BitSlots
  PROVE  (o + 1) % MAX_BITS \in BitSlots /\ (o + 1) % MAX_BITS = Wrap(o + 1)
  <1>1. o + 1 \in Nat /\ o + 1 < 2 * MAX_BITS
    BY MagSizes DEF BitSlots
  <1> QED BY <1>1, ModWrap, MagSizes DEF Wrap, BitSlots

LEMMA EndSlot ==
  ASSUME NEW o \in BitSlots, NEW n \in 0..MAX_BITS
  PROVE  (o + n) % MAX_BITS \in BitSlots /\ (o + n) % MAX_BITS = Wrap(o + n)
  <1>1. o + n \in Nat /\ o + n < 2 * MAX_BITS
    BY MagSizes DEF BitSlots
  <1> QED BY <1>1, ModWrap, MagSizes DEF Wrap, BitSlots

\* The lines of keys.
LEMMA LineType ==
  ASSUME NEW bits \in Seq(BOOLEAN)
  PROVE  /\ Line(bits) \in Seq(Keys) /\ Len(Line(bits)) = Len(bits) + 1
         /\ \A i \in 1..Len(bits) : Line(bits)[i] = KeyOf(bits[i])
         /\ Line(bits)[Len(bits) + 1] = "KEY_ENTER"
  <1> DEFINE k == [i \in DOMAIN bits |-> KeyOf(bits[i])]
             e == <<"KEY_ENTER">>
  <1>1. Len(bits) \in Nat /\ DOMAIN bits = 1..Len(bits)
    BY LenProperties
  <1>2. k \in Seq(Keys) /\ Len(k) = Len(bits) /\ \A i \in 1..Len(bits) : k[i] = KeyOf(bits[i])
    <2>1. k \in [1..Len(bits) -> Keys]
      BY <1>1 DEF KeyOf, Keys
    <2> QED BY <1>1, <2>1
  <1>3. e \in Seq(Keys) /\ Len(e) = 1 /\ e[1] = "KEY_ENTER"
    BY DEF Keys
  <1> HIDE DEF k, e
  <1>4. /\ k \o e \in Seq(Keys) /\ Len(k \o e) = Len(bits) + 1
        /\ \A i \in 1..(Len(bits) + 1) :
             (k \o e)[i] = IF i <= Len(bits) THEN k[i] ELSE e[i - Len(bits)]
    <2>1. /\ k \o e \in Seq(Keys) /\ Len(k \o e) = Len(k) + Len(e)
          /\ \A i \in 1..(Len(k) + Len(e)) :
               (k \o e)[i] = IF i <= Len(k) THEN k[i] ELSE e[i - Len(k)]
      BY <1>2, <1>3, KeysConcat
    <2> QED BY <1>1, <1>2, <1>3, <2>1
  <1>5. \A i \in 1..Len(bits) : (k \o e)[i] = KeyOf(bits[i])
    BY <1>1, <1>2, <1>4
  <1>6. (k \o e)[Len(bits) + 1] = "KEY_ENTER"
    BY <1>1, <1>3, <1>4
  <1> QED BY <1>4, <1>5, <1>6 DEF Line, k, e

\* A line of keys starts with its first bit, and is the end of the line when
\* there is none.
LEMMA LineCons ==
  ASSUME NEW bits \in Seq(BOOLEAN), NEW rest \in Seq(BOOLEAN), NEW b \in BOOLEAN,
         Len(bits) = Len(rest) + 1, bits[1] = b, \A i \in 1..Len(rest) : bits[i + 1] = rest[i]
  PROVE  Line(bits) = <<KeyOf(b)>> \o Line(rest)
  <1> DEFINE n == Len(rest)
             L == Line(bits)
             R == Line(rest)
             x == <<KeyOf(b)>>
  <1>1. n \in Nat /\ Len(bits) = n + 1 /\ Len(rest) = n
    BY LenProperties
  <1>2. /\ L \in Seq(Keys) /\ Len(L) = (n + 1) + 1
        /\ \A i \in 1..(n + 1) : L[i] = KeyOf(bits[i])
        /\ L[(n + 1) + 1] = "KEY_ENTER"
    BY <1>1, LineType
  <1>3. /\ R \in Seq(Keys) /\ Len(R) = n + 1
        /\ \A i \in 1..n : R[i] = KeyOf(rest[i])
        /\ R[n + 1] = "KEY_ENTER"
    BY <1>1, LineType
  <1>4. x \in Seq(Keys) /\ Len(x) = 1 /\ x[1] = KeyOf(b)
    BY DEF Keys, KeyOf
  <1>5. \A i \in 1..n : bits[i + 1] = rest[i]
    OBVIOUS
  <1> HIDE DEF n, L, R, x
  <1>6. /\ x \o R \in Seq(Keys) /\ Len(x \o R) = 1 + (n + 1)
        /\ \A i \in 1..(1 + (n + 1)) : (x \o R)[i] = IF i <= 1 THEN x[i] ELSE R[i - 1]
    <2>1. /\ x \o R \in Seq(Keys) /\ Len(x \o R) = Len(x) + Len(R)
          /\ \A i \in 1..(Len(x) + Len(R)) :
               (x \o R)[i] = IF i <= Len(x) THEN x[i] ELSE R[i - Len(x)]
      BY <1>3, <1>4, KeysConcat
    <2> QED BY <1>1, <1>3, <1>4, <2>1
  <1>7. ASSUME NEW i \in 1..((n + 1) + 1) PROVE L[i] = (x \o R)[i]
    <2>1. CASE i = 1
      BY <1>1, <1>2, <1>4, <1>6, <2>1
    <2>2. CASE i # 1 /\ i # (n + 1) + 1
      <3>1. i - 1 \in 1..n /\ i \in 1..(n + 1) /\ (i - 1) + 1 = i /\ ~(i <= 1)
        BY <1>1, <2>2
      <3>2. L[i] = KeyOf(bits[i]) /\ bits[i] = rest[i - 1] /\ R[i - 1] = KeyOf(rest[i - 1])
        BY <1>2, <1>3, <1>5, <3>1
      <3> QED BY <1>1, <1>6, <3>1, <3>2
    <2>3. CASE i = (n + 1) + 1
      <3>1. ~(i <= 1) /\ i - 1 = n + 1 /\ i \in 1..(1 + (n + 1))
        BY <1>1, <2>3
      <3> QED BY <1>2, <1>3, <1>6, <2>3, <3>1
    <2> QED BY <2>1, <2>2, <2>3
  <1>8. Len(L) = Len(x \o R) /\ Len(L) = (n + 1) + 1
    BY <1>1, <1>2, <1>6
  <1>9. L = x \o R
    BY <1>2, <1>6, <1>7, <1>8, SeqEqual
  <1> QED BY <1>9 DEF L, R, x

LEMMA LineEmpty ==
  ASSUME NEW bits \in Seq(BOOLEAN), Len(bits) = 0
  PROVE  Line(bits) = <<"KEY_ENTER">>
  <1>1. /\ Line(bits) \in Seq(Keys) /\ Len(Line(bits)) = 1 /\ Line(bits)[1] = "KEY_ENTER"
    <2>1. Len(bits) + 1 = 1
      OBVIOUS
    <2> QED BY LineType, <2>1
  <1> QED BY <1>1
-----------------------------------------------------------------------------
(* The bit buffers.                                                        *)

\* A buffer's fields, and what is in the slots that hold no bits.
BufferType == [Data : [BitSlots -> BOOLEAN], Elements : 0..MAX_BITS, In : BitSlots, Out : BitSlots]
BufferOK(b) ==
  /\ b \in BufferType /\ b.In = (b.Out + b.Elements) % MAX_BITS
  /\ \A s \in BitSlots : b.Data[s] => \E i \in 1..b.Elements : s = (b.Out + i - 1) % MAX_BITS

LEMMA BitsType ==
  ASSUME NEW b \in BufferType
  PROVE  /\ Bits(b) \in Seq(BOOLEAN) /\ Len(Bits(b)) = b.Elements
         /\ \A i \in 1..b.Elements : Bits(b)[i] = b.Data[(b.Out + i - 1) % MAX_BITS]
  <1>1. b.Elements \in 0..MAX_BITS /\ b.Data \in [BitSlots -> BOOLEAN] /\ b.Out \in BitSlots
    BY DEF BufferType
  <1>2. \A i \in 1..b.Elements : (b.Out + i - 1) % MAX_BITS \in BitSlots
    <2> TAKE i \in 1..b.Elements
    <2>1. i \in 1..(MAX_BITS + 1)
      BY <1>1, MagSizes
    <2> QED BY <1>1, <2>1, SlotOf
  <1>3. Bits(b) \in [1..b.Elements -> BOOLEAN]
    BY <1>1, <1>2 DEF Bits
  <1>4. b.Elements \in Nat
    BY <1>1, MagSizes
  <1>5. Bits(b) \in Seq(BOOLEAN) /\ Len(Bits(b)) = b.Elements
    BY <1>3, <1>4
  <1>6. \A i \in 1..b.Elements : Bits(b)[i] = b.Data[(b.Out + i - 1) % MAX_BITS]
    BY DEF Bits
  <1> QED BY <1>5, <1>6

\* Two bits of a buffer are in different slots.
LEMMA SlotsDiffer ==
  ASSUME NEW o \in BitSlots, NEW i \in 1..MAX_BITS, NEW j \in 1..MAX_BITS,
         (o + i - 1) % MAX_BITS = (o + j - 1) % MAX_BITS
  PROVE  i = j
  <1>1. i \in 1..(MAX_BITS + 1) /\ j \in 1..(MAX_BITS + 1)
    BY MagSizes
  <1>2. Wrap(o + i - 1) = Wrap(o + j - 1)
    BY <1>1, SlotOf
  <1> QED BY <1>2, MagSizes DEF Wrap, BitSlots

LEMMA StoreBits ==
  ASSUME NEW b, BufferOK(b), b.Elements = 0, NEW bits \in Seq(BOOLEAN), Len(bits) <= MAX_BITS
  PROVE  BufferOK(BitBuffer_Store(b, bits)) /\ Bits(BitBuffer_Store(b, bits)) = bits
  <1> DEFINE r == BitBuffer_Store(b, bits)
             n == Len(bits)
  <1>1. /\ b.Data \in [BitSlots -> BOOLEAN] /\ b.Out \in BitSlots /\ b.In = b.Out
        /\ \A s \in BitSlots : ~b.Data[s]
    <2>1. b.Out \in BitSlots /\ b.Data \in [BitSlots -> BOOLEAN] /\ b.In = (b.Out + 0) % MAX_BITS
      BY DEF BufferOK, BufferType
    <2>2. 0 \in 0..MAX_BITS
      BY MagSizes
    <2>3. (b.Out + 0) % MAX_BITS = Wrap(b.Out + 0)
      BY <2>1, <2>2, EndSlot
    <2>4. b.In = b.Out
      BY <2>1, <2>3, MagSizes DEF Wrap, BitSlots
    <2>5. \A s \in BitSlots : ~b.Data[s]
      BY DEF BufferOK
    <2> QED BY <2>1, <2>4, <2>5
  <1>2. n \in 0..MAX_BITS /\ n \in Nat /\ DOMAIN bits = 1..n /\ \A i \in 1..n : bits[i] \in BOOLEAN
    BY LenProperties, ElementOfSeq, MagSizes
  <1>3. \A i \in 1..n : i \in 1..MAX_BITS /\ (b.Out + i - 1) % MAX_BITS \in BitSlots
    <2> TAKE i \in 1..n
    <2>1. i \in 1..(MAX_BITS + 1) /\ i \in 1..MAX_BITS
      BY <1>2, MagSizes
    <2> QED BY <1>1, <2>1, SlotOf
  <1>4. /\ r.Elements = n /\ r.Out = b.Out /\ r.In = (b.Out + n) % MAX_BITS
        /\ DOMAIN r = {"Data", "Elements", "In", "Out"}
        /\ r.Data = [s \in BitSlots |-> b.Data[s] \/
                       \E i \in 1..n : bits[i] /\ s = (b.Out + i - 1) % MAX_BITS]
    BY <1>1, <1>2 DEF BitBuffer_Store
  <1>5. r \in BufferType
    <2>1. r.In \in BitSlots
      BY <1>1, <1>2, <1>4, EndSlot
    <2>2. r.Data \in [BitSlots -> BOOLEAN]
      BY <1>4
    <2>3. r = [Data |-> r.Data, Elements |-> r.Elements, In |-> r.In, Out |-> r.Out]
      BY DEF BitBuffer_Store
    <2> HIDE DEF r
    <2> QED BY <1>1, <1>2, <1>4, <2>1, <2>2, <2>3 DEF BufferType
  <1>6. \A s \in BitSlots : r.Data[s] => \E i \in 1..r.Elements : s = (r.Out + i - 1) % MAX_BITS
    <2> HIDE DEF r, n
    <2> QED BY <1>1, <1>4
  <1>7. BufferOK(r)
    <2> HIDE DEF r, n
    <2> QED BY <1>4, <1>5, <1>6 DEF BufferOK
  <1>8. ASSUME NEW i \in 1..n PROVE Bits(r)[i] = bits[i]
    <2> DEFINE s == (b.Out + i - 1) % MAX_BITS
    <2>1. Bits(r)[i] = r.Data[s]
      <3> HIDE DEF r, n
      <3> QED BY <1>4, <1>5, BitsType
    <2>2. s \in BitSlots
      BY <1>3
    <2>3. r.Data[s] = (\E j \in 1..n : bits[j] /\ s = (b.Out + j - 1) % MAX_BITS)
      <3> HIDE DEF r, n, s
      <3> QED BY <1>1, <1>4, <2>2
    <2>4. ASSUME NEW j \in 1..n, s = (b.Out + j - 1) % MAX_BITS PROVE j = i
      BY <1>1, <1>3, <2>4, SlotsDiffer
    <2>5. bits[i] \in BOOLEAN
      BY <1>2
    <2>6. (\E j \in 1..n : bits[j] /\ s = (b.Out + j - 1) % MAX_BITS) <=> bits[i]
      <3>1. bits[i] => \E j \in 1..n : bits[j] /\ s = (b.Out + j - 1) % MAX_BITS
        OBVIOUS
      <3> HIDE DEF s, n
      <3> QED BY <2>4, <3>1
    <2> HIDE DEF s, n, r
    <2> QED BY <2>1, <2>3, <2>5, <2>6
  <1>9. Bits(r) = bits
    <2>1. Bits(r) \in Seq(BOOLEAN) /\ Len(Bits(r)) = n
      <3> HIDE DEF r, n
      <3> QED BY <1>4, <1>5, BitsType
    <2> HIDE DEF r
    <2> QED BY <2>1, <1>8, SeqEqual
  <1> QED BY <1>7, <1>9

LEMMA GetBits ==
  ASSUME NEW b, BufferOK(b), b.Elements > 0
  PROVE  /\ BufferOK(BitBuffer_GetNextBit(b))
         /\ Line(Bits(b)) = <<KeyOf(b.Data[b.Out])>> \o Line(Bits(BitBuffer_GetNextBit(b)))
  <1> DEFINE r == BitBuffer_GetNextBit(b)
             n == b.Elements
             o == b.Out
             p == (o + 1) % MAX_BITS
  <1>1. /\ b \in BufferType /\ b.Data \in [BitSlots -> BOOLEAN] /\ o \in BitSlots
        /\ n \in 1..MAX_BITS /\ b.In = (o + n) % MAX_BITS /\ b.In \in BitSlots
    BY DEF BufferOK, BufferType
  <1>2. /\ r.Elements = n - 1 /\ r.Out = p /\ r.In = b.In
        /\ r.Data = [b.Data EXCEPT ![o] = FALSE]
        /\ r = [Data |-> r.Data, Elements |-> r.Elements, In |-> r.In, Out |-> r.Out]
    <2>1. /\ b.Data \in [BitSlots -> BOOLEAN] /\ DOMAIN b = {"Data", "Elements", "In", "Out"}
          /\ b = [f \in {"Data", "Elements", "In", "Out"} |-> b[f]]
      BY <1>1 DEF BufferType
    <2>2. /\ DOMAIN r = {"Data", "Elements", "In", "Out"}
          /\ r.Data = [b.Data EXCEPT ![b.Out] = FALSE] /\ r.Elements = b.Elements - 1
          /\ r.In = b.In /\ r.Out = (b.Out + 1) % MAX_BITS
      BY <2>1 DEF BitBuffer_GetNextBit
    <2>3. r = [f \in DOMAIN r |-> r[f]]
      BY DEF BitBuffer_GetNextBit
    <2> HIDE DEF r
    <2> QED BY <2>2, <2>3
  <1>3. p \in BitSlots /\ p = Wrap(o + 1)
    BY <1>1, NextSlot
  <1>4. n - 1 \in 0..MAX_BITS /\ MAX_BITS \in Nat \ {0} /\ n \in 0..MAX_BITS
    BY <1>1, MagSizes
  <1>5. r \in BufferType
    <2> HIDE DEF r, p, n, o
    <2> QED BY <1>1, <1>2, <1>3, <1>4 DEF BufferType
  \* The next bits are where they were.
  <1>6. ASSUME NEW i \in 1..(n - 1)
        PROVE  /\ i + 1 \in 1..n /\ (p + i - 1) % MAX_BITS = (o + (i + 1) - 1) % MAX_BITS
               /\ (o + (i + 1) - 1) % MAX_BITS \in BitSlots
               /\ (o + (i + 1) - 1) % MAX_BITS # o
    <2> HIDE DEF p, n, o
    <2>1. i \in 1..(MAX_BITS + 1) /\ i + 1 \in 1..(MAX_BITS + 1) /\ i + 1 \in 1..n
      BY <1>1, <1>4
    <2>2. (p + i - 1) % MAX_BITS = Wrap(p + i - 1)
      BY <1>3, <2>1, SlotOf
    <2>3. (o + (i + 1) - 1) % MAX_BITS = Wrap(o + (i + 1) - 1)
          /\ (o + (i + 1) - 1) % MAX_BITS \in BitSlots
      BY <1>1, <2>1, SlotOf
    <2>4. Wrap(p + i - 1) = Wrap(o + (i + 1) - 1)
      BY <1>1, <1>3, <1>4 DEF Wrap, BitSlots
    <2>5. Wrap(o + (i + 1) - 1) # o
      BY <1>1, <1>4 DEF Wrap, BitSlots
    <2> QED BY <2>1, <2>2, <2>3, <2>4, <2>5
  <1>7. r.In = (r.Out + r.Elements) % MAX_BITS
    <2> HIDE DEF r, p, n, o
    <2>1. (o + n) % MAX_BITS = Wrap(o + n)
      BY <1>1, <1>4, EndSlot
    <2>2. (p + (n - 1)) % MAX_BITS = Wrap(p + (n - 1))
      BY <1>3, <1>4, EndSlot
    <2>3. Wrap(o + n) = Wrap(p + (n - 1))
      BY <1>1, <1>3, <1>4 DEF Wrap, BitSlots
    <2> QED BY <1>1, <1>2, <2>1, <2>2, <2>3
  <1>8. ASSUME NEW s \in BitSlots, r.Data[s]
        PROVE  \E i \in 1..r.Elements : s = (r.Out + i - 1) % MAX_BITS
    <2>1. s # o /\ b.Data[s]
      <3> HIDE DEF r, p, n, o
      <3> QED BY <1>1, <1>2, <1>8
    <2>2. PICK i \in 1..n : s = (o + i - 1) % MAX_BITS
      BY <2>1 DEF BufferOK
    <2>3. i # 1
      <3>1. ASSUME i = 1 PROVE FALSE
        <4>1. 1 \in 1..(MAX_BITS + 1)
          BY <1>4
        <4>2. (o + 1 - 1) % MAX_BITS = Wrap(o + 1 - 1)
          BY <1>1, <4>1, SlotOf
        <4>3. Wrap(o + 1 - 1) = o
          BY <1>1, MagSizes DEF Wrap, BitSlots
        <4> QED BY <2>1, <2>2, <3>1, <4>2, <4>3
      <3> QED BY <3>1
    <2>4. i - 1 \in 1..(n - 1) /\ (i - 1) + 1 = i
      BY <1>1, <2>3
    <2>5. (p + (i - 1) - 1) % MAX_BITS = (o + ((i - 1) + 1) - 1) % MAX_BITS
      BY <1>6, <2>4
    <2> HIDE DEF r, p, n, o
    <2> QED BY <1>2, <2>2, <2>4, <2>5
  <1>9. BufferOK(r)
    <2> HIDE DEF r
    <2> QED BY <1>5, <1>7, <1>8 DEF BufferOK
  <1>10. /\ Bits(b) \in Seq(BOOLEAN) /\ Len(Bits(b)) = n
         /\ \A i \in 1..n : Bits(b)[i] = b.Data[(o + i - 1) % MAX_BITS]
    BY <1>1, BitsType
  <1>11. /\ Bits(r) \in Seq(BOOLEAN) /\ Len(Bits(r)) = n - 1
         /\ \A i \in 1..(n - 1) : Bits(r)[i] = r.Data[(p + i - 1) % MAX_BITS]
    <2> HIDE DEF r, p, n, o
    <2> QED BY <1>2, <1>5, BitsType
  <1>12. Bits(b)[1] = b.Data[o] /\ b.Data[o] \in BOOLEAN
    <2>1. 1 \in 1..(MAX_BITS + 1) /\ 1 \in 1..n
      BY <1>1, <1>4
    <2>2. (o + 1 - 1) % MAX_BITS = Wrap(o + 1 - 1)
      BY <1>1, <2>1, SlotOf
    <2>3. Wrap(o + 1 - 1) = o
      BY <1>1, MagSizes DEF Wrap, BitSlots
    <2> QED BY <1>1, <1>10, <2>1, <2>2, <2>3
  <1>13. \A i \in 1..(n - 1) : Bits(b)[i + 1] = Bits(r)[i]
    <2> HIDE DEF r, p, n, o
    <2> TAKE i \in 1..(n - 1)
    <2>1. r.Data[(p + i - 1) % MAX_BITS] = b.Data[(o + (i + 1) - 1) % MAX_BITS]
      BY <1>1, <1>2, <1>6
    <2> QED BY <1>6, <1>10, <1>11, <2>1
  <1>14. Line(Bits(b)) = <<KeyOf(b.Data[o])>> \o Line(Bits(r))
    <2>1. Len(Bits(b)) = Len(Bits(r)) + 1
      BY <1>1, <1>10, <1>11
    <2>2. \A i \in 1..Len(Bits(r)) : Bits(b)[i + 1] = Bits(r)[i]
      BY <1>11, <1>13
    <2> HIDE DEF r, p, n, o
    <2> QED BY <1>10, <1>11, <1>12, <2>1, <2>2, LineCons
  <1> QED BY <1>9, <1>14
-----------------------------------------------------------------------------
(* The text of the buffers, and that of the reports.                       *)

\* The keys of the buffers from one on.
Lines(buffers, t) ==
  [n \in 1..(TOTAL_TRACKS + 1 - t) |-> Line(Bits(buffers[t + n - 1]))]
TextFrom(buffers, t) == SeqExt!FlattenSeq(Lines(buffers, t))

LEMMA LinesType ==
  ASSUME NEW buffers \in [Tracks -> BufferType], NEW t \in 1..(TOTAL_TRACKS + 1)
  PROVE  /\ Lines(buffers, t) \in Seq(Seq(Keys))
         /\ Len(Lines(buffers, t)) = TOTAL_TRACKS + 1 - t
         /\ \A n \in 1..(TOTAL_TRACKS + 1 - t) :
              /\ Lines(buffers, t)[n] = Line(Bits(buffers[t + n - 1]))
              /\ Lines(buffers, t)[n] \in Seq(Keys) /\ t + n - 1 \in Tracks
  <1>1. TOTAL_TRACKS + 1 - t \in Nat
    BY MagSizes
  <1>2. ASSUME NEW n \in 1..(TOTAL_TRACKS + 1 - t)
        PROVE  t + n - 1 \in Tracks /\ Line(Bits(buffers[t + n - 1])) \in Seq(Keys)
    <2>1. t + n - 1 \in Tracks
      BY MagSizes DEF Tracks
    <2>2. buffers[t + n - 1] \in BufferType
      BY <2>1
    <2>3. Bits(buffers[t + n - 1]) \in Seq(BOOLEAN)
      BY <2>2, BitsType
    <2> QED BY <2>1, <2>3, LineType
  <1>3. Lines(buffers, t) \in [1..(TOTAL_TRACKS + 1 - t) -> Seq(Keys)]
    BY <1>2 DEF Lines
  <1>4. Lines(buffers, t) \in Seq(Seq(Keys)) /\ Len(Lines(buffers, t)) = TOTAL_TRACKS + 1 - t
    BY <1>1, <1>3
  <1>5. \A n \in 1..(TOTAL_TRACKS + 1 - t) : Lines(buffers, t)[n] = Line(Bits(buffers[t + n - 1]))
    BY DEF Lines
  <1> QED BY <1>2, <1>4, <1>5

LEMMA TextType ==
  ASSUME NEW buffers \in [Tracks -> BufferType], NEW t \in 1..(TOTAL_TRACKS + 1)
  PROVE  TextFrom(buffers, t) \in Seq(Keys)
  BY LinesType, FlattenType DEF TextFrom

LEMMA TextDone ==
  ASSUME NEW buffers \in [Tracks -> BufferType]
  PROVE  TextFrom(buffers, TOTAL_TRACKS + 1) = <<>>
  <1>1. TOTAL_TRACKS + 1 \in 1..(TOTAL_TRACKS + 1) /\ TOTAL_TRACKS + 1 - (TOTAL_TRACKS + 1) = 0
    BY MagSizes
  <1>2. /\ Lines(buffers, TOTAL_TRACKS + 1) \in Seq(Seq(Keys))
        /\ Len(Lines(buffers, TOTAL_TRACKS + 1)) = 0
    BY <1>1, LinesType
  <1>3. Lines(buffers, TOTAL_TRACKS + 1) = <<>>
    BY <1>2, EmptySeq
  <1> QED BY <1>3, FlattenEmpty DEF TextFrom

\* The text of a buffer and of those after it.
LEMMA TextCons ==
  ASSUME NEW buffers \in [Tracks -> BufferType], NEW t \in Tracks
  PROVE  /\ TextFrom(buffers, t) = Line(Bits(buffers[t])) \o TextFrom(buffers, t + 1)
         /\ Line(Bits(buffers[t])) \in Seq(Keys) /\ TextFrom(buffers, t + 1) \in Seq(Keys)
  <1>1. /\ t \in 1..(TOTAL_TRACKS + 1) /\ t + 1 \in 1..(TOTAL_TRACKS + 1)
        /\ TOTAL_TRACKS + 1 - t = (TOTAL_TRACKS + 1 - (t + 1)) + 1
        /\ TOTAL_TRACKS + 1 - (t + 1) \in Nat
        /\ 1 \in 1..(TOTAL_TRACKS + 1 - t) /\ t + 1 - 1 = t
    BY MagSizes DEF Tracks
  <1> DEFINE r == Lines(buffers, t)
             q == Lines(buffers, t + 1)
             m == TOTAL_TRACKS + 1 - (t + 1)
             x == Line(Bits(buffers[t]))
  <1>2. /\ q \in Seq(Seq(Keys)) /\ Len(q) = m
        /\ \A n \in 1..m : q[n] = Line(Bits(buffers[(t + 1) + n - 1]))
    BY <1>1, LinesType
  <1>3. /\ r \in Seq(Seq(Keys)) /\ Len(r) = m + 1
        /\ \A n \in 1..(m + 1) : r[n] = Line(Bits(buffers[t + n - 1]))
    BY <1>1, LinesType
  <1>4. x \in Seq(Keys) /\ r[1] = x
    <2>1. Bits(buffers[t]) \in Seq(BOOLEAN)
      BY BitsType
    <2>2. x \in Seq(Keys)
      BY <2>1, LineType
    <2>3. r[1] = Line(Bits(buffers[t + 1 - 1]))
      <3> HIDE DEF r
      <3> QED BY <1>1, <1>3
    <2> QED BY <1>1, <2>2, <2>3
  <1>5. \A n \in 1..m : r[n + 1] = q[n]
    <2> TAKE n \in 1..m
    <2>1. n + 1 \in 1..(m + 1) /\ t + (n + 1) - 1 = (t + 1) + n - 1
      BY <1>1 DEF Tracks
    <2>2. r[n + 1] = Line(Bits(buffers[t + (n + 1) - 1])) /\ q[n] = Line(Bits(buffers[(t + 1) + n - 1]))
      <3> HIDE DEF r, q, m
      <3> QED BY <1>2, <1>3, <2>1
    <2> HIDE DEF r, q, m
    <2> QED BY <2>1, <2>2
  <1>6. SeqExt!FlattenSeq(r) = x \o SeqExt!FlattenSeq(q)
    <2> HIDE DEF r, q, m, x
    <2> QED BY <1>2, <1>3, <1>4, <1>5, FlattenCons
  <1>7. SeqExt!FlattenSeq(q) \in Seq(Keys)
    BY <1>2, FlattenType
  <1> QED BY <1>4, <1>6, <1>7 DEF TextFrom

\* The text depends on the buffers that are still to be typed.
LEMMA TextAgree ==
  ASSUME NEW b1, NEW b2, NEW t \in 1..(TOTAL_TRACKS + 1),
         \A s \in Tracks : s >= t => b1[s] = b2[s]
  PROVE  TextFrom(b1, t) = TextFrom(b2, t)
  <1>1. ASSUME NEW n \in 1..(TOTAL_TRACKS + 1 - t) PROVE b1[t + n - 1] = b2[t + n - 1]
    <2>1. t + n - 1 \in Tracks /\ t + n - 1 >= t
      BY MagSizes DEF Tracks
    <2> QED BY <2>1
  <1>2. Lines(b1, t) = Lines(b2, t)
    BY <1>1 DEF Lines
  <1> QED BY <1>2 DEF TextFrom

LEMMA TextOfCard ==
  ASSUME NEW buffers, NEW card, \A t \in Tracks : Bits(buffers[t]) = card[t]
  PROVE  TextFrom(buffers, 1) = CardText(card)
  <1>1. \A n \in 1..(TOTAL_TRACKS + 1 - 1) : n \in Tracks /\ 1 + n - 1 = n
    BY MagSizes DEF Tracks
  <1>2. 1..(TOTAL_TRACKS + 1 - 1) = Tracks
    BY MagSizes DEF Tracks
  <1>3. Lines(buffers, 1) = [t \in Tracks |-> Line(card[t])]
    BY <1>1, <1>2 DEF Lines
  <1> QED BY <1>3 DEF TextFrom, CardText

\* The keys that waiting reports will be for a host that holds one.
Presses(before, reports) ==
  [n \in DOMAIN reports |-> Pressed(IF n = 1 THEN before ELSE reports[n - 1], reports[n])]
Coming(before, reports) == SeqExt!FlattenSeq(Presses(before, reports))

LEMMA PressedType ==
  ASSUME NEW before, NEW key \in Keys
  PROVE  Pressed(before, key) \in Seq(Keys)
  BY DEF Pressed

LEMMA PressesType ==
  ASSUME NEW before, NEW reports \in Seq(Keys)
  PROVE  /\ Presses(before, reports) \in Seq(Seq(Keys))
         /\ Len(Presses(before, reports)) = Len(reports)
         /\ \A n \in 1..Len(reports) : Presses(before, reports)[n] =
              Pressed(IF n = 1 THEN before ELSE reports[n - 1], reports[n])
  <1>1. Len(reports) \in Nat /\ DOMAIN reports = 1..Len(reports)
        /\ \A n \in 1..Len(reports) : reports[n] \in Keys
    BY LenProperties, ElementOfSeq
  <1>2. \A n \in 1..Len(reports) :
          Pressed(IF n = 1 THEN before ELSE reports[n - 1], reports[n]) \in Seq(Keys)
    BY <1>1, PressedType
  <1>3. Presses(before, reports) \in [1..Len(reports) -> Seq(Keys)]
    BY <1>1, <1>2 DEF Presses
  <1>4. Presses(before, reports) \in Seq(Seq(Keys)) /\ Len(Presses(before, reports)) = Len(reports)
    BY <1>1, <1>3
  <1>5. \A n \in 1..Len(reports) : Presses(before, reports)[n] =
          Pressed(IF n = 1 THEN before ELSE reports[n - 1], reports[n])
    BY <1>1 DEF Presses
  <1> QED BY <1>4, <1>5

LEMMA ComingType ==
  ASSUME NEW before, NEW reports \in Seq(Keys)
  PROVE  Coming(before, reports) \in Seq(Keys)
  BY PressesType, FlattenType DEF Coming

\* The report that the host will have seen last.
LastOf(before, reports) == IF reports = <<>> THEN before ELSE reports[Len(reports)]

LEMMA ComingAppend ==
  ASSUME NEW before, NEW reports \in Seq(Keys), NEW key \in Keys
  PROVE  Coming(before, Append(reports, key)) =
           Coming(before, reports) \o Pressed(LastOf(before, reports), key)
  <1> DEFINE m == Len(reports)
             more == Append(reports, key)
             x == Pressed(LastOf(before, reports), key)
             q == Presses(before, reports)
             r == Presses(before, more)
  <1>1. /\ more \in Seq(Keys) /\ Len(more) = m + 1 /\ m \in Nat /\ more[m + 1] = key
        /\ \A n \in 1..m : more[n] = reports[n]
    BY LenProperties, AppendProperties
  <1>2. x \in Seq(Keys)
    BY PressedType
  <1>3. /\ q \in Seq(Seq(Keys)) /\ Len(q) = m
        /\ \A n \in 1..m : q[n] = Pressed(IF n = 1 THEN before ELSE reports[n - 1], reports[n])
    BY PressesType
  <1>4. /\ Len(r) = m + 1
        /\ \A n \in 1..(m + 1) : r[n] = Pressed(IF n = 1 THEN before ELSE more[n - 1], more[n])
    <2> HIDE DEF more, m, r
    <2>1. /\ Len(r) = Len(more)
          /\ \A n \in 1..Len(more) :
               r[n] = Pressed(IF n = 1 THEN before ELSE more[n - 1], more[n])
      BY <1>1, PressesType DEF r
    <2> QED BY <1>1, <2>1
  <1>5. \A n \in 1..m : r[n] = q[n]
    <2> HIDE DEF more, m, q, r
    <2> TAKE n \in 1..m
    <2>1. n \in 1..(m + 1) /\ (n # 1 => n - 1 \in 1..m)
      BY <1>1
    <2> QED BY <1>1, <1>3, <1>4, <2>1
  <1>6. r[m + 1] = x
    <2>1. r[m + 1] = Pressed(IF m + 1 = 1 THEN before ELSE more[(m + 1) - 1], more[m + 1])
      <3>1. m + 1 \in 1..(m + 1)
        BY <1>1
      <3> HIDE DEF r, more, m
      <3> QED BY <1>4, <3>1
    <2>2. CASE reports = <<>>
      <3>1. m + 1 = 1
        BY <2>2
      <3>2. LastOf(before, reports) = before
        BY <2>2 DEF LastOf
      <3> QED BY <1>1, <2>1, <3>1, <3>2
    <2>3. CASE reports # <<>>
      <3>1. m # 0
        BY <2>3, EmptySeq
      <3>2. m + 1 # 1 /\ (m + 1) - 1 = m /\ m \in 1..m
        BY <1>1, <3>1
      <3>3. LastOf(before, reports) = reports[m]
        BY <2>3 DEF LastOf
      <3>4. more[m] = reports[m]
        <4> HIDE DEF more, m
        <4> QED BY <1>1, <3>2
      <3> HIDE DEF r, more, m
      <3> QED BY <1>1, <2>1, <3>2, <3>3, <3>4
    <2> QED BY <2>2, <2>3
  <1>7. SeqExt!FlattenSeq(r) = SeqExt!FlattenSeq(q) \o x
    <2> HIDE DEF r, q, x, more, m
    <2>1. Len(r) = Len(q) + 1 /\ r[Len(r)] = x /\ \A n \in 1..Len(q) : r[n] = q[n]
      BY <1>3, <1>4, <1>5, <1>6
    <2> QED BY <1>2, <1>3, <2>1, FlattenAppend
  <1> QED BY <1>7 DEF Coming

LEMMA ComingHead ==
  ASSUME NEW before, NEW reports \in Seq(Keys), reports # <<>>
  PROVE  Coming(before, reports) =
           Pressed(before, Head(reports)) \o Coming(Head(reports), Tail(reports))
  <1> DEFINE rest == Tail(reports)
             m == Len(rest)
             first == Head(reports)
             x == Pressed(before, first)
             q == Presses(first, rest)
             r == Presses(before, reports)
  <1>1. /\ rest \in Seq(Keys) /\ m \in Nat /\ Len(reports) = m + 1 /\ first \in Keys
        /\ reports[1] = first /\ \A n \in 1..m : rest[n] = reports[n + 1]
    BY HeadTailProperties, LenProperties
  <1>2. x \in Seq(Keys)
    BY <1>1, PressedType
  <1>3. /\ q \in Seq(Seq(Keys)) /\ Len(q) = m
        /\ \A n \in 1..m : q[n] = Pressed(IF n = 1 THEN first ELSE rest[n - 1], rest[n])
    <2> HIDE DEF rest, first
    <2> QED BY <1>1, PressesType
  <1>4. /\ Len(r) = m + 1
        /\ \A n \in 1..(m + 1) :
             r[n] = Pressed(IF n = 1 THEN before ELSE reports[n - 1], reports[n])
    <2> HIDE DEF m, r
    <2>1. /\ Len(r) = Len(reports)
          /\ \A n \in 1..Len(reports) :
               r[n] = Pressed(IF n = 1 THEN before ELSE reports[n - 1], reports[n])
      BY PressesType DEF r
    <2> QED BY <1>1, <2>1
  <1>5. r[1] = x
    <2> HIDE DEF m, r, first
    <2> QED BY <1>1, <1>4
  <1>6. \A n \in 1..m : r[n + 1] = q[n]
    <2> HIDE DEF rest, m, first, q, r
    <2> TAKE n \in 1..m
    <2>1. n + 1 \in 1..(m + 1) /\ n + 1 # 1 /\ (n + 1) - 1 = n /\ (n # 1 => n - 1 \in 1..m /\ (n - 1) + 1 = n)
      BY <1>1
    <2>2. r[n + 1] = Pressed(reports[n], reports[n + 1])
      BY <1>4, <2>1
    <2>3. reports[n] = IF n = 1 THEN first ELSE rest[n - 1]
      BY <1>1, <2>1
    <2> QED BY <1>1, <1>3, <2>2, <2>3
  <1>7. SeqExt!FlattenSeq(r) = x \o SeqExt!FlattenSeq(q)
    <2> HIDE DEF r, q, x, m, first, rest
    <2>1. Len(r) = Len(q) + 1 /\ \A n \in 1..Len(q) : r[n + 1] = q[n]
      BY <1>3, <1>4, <1>6
    <2> QED BY <1>2, <1>3, <1>5, <2>1, FlattenCons
  <1> QED BY <1>7 DEF Coming
-----------------------------------------------------------------------------
(* The invariant, and the report that is made.                             *)

\* The inductive invariant.  BuffersKept says that the slots that hold no bit
\* are clear, or a bit that is not set would be read as one that was left
\* there; ReportsInStep that a key follows a report without one, or it would be
\* suppressed or not be seen.
BuffersKept == \A t \in Tracks :
  /\ BufferOK(TrackDataBuffers[t])
  /\ t < CurrentTrackBuffer => TrackDataBuffers[t].Elements = 0
ReportsInStep ==
  /\ LastOf(held, banks) = PrevReportIN
  /\ IsKeyReleaseReport => PrevReportIN = "KEY_NONE"
MagInv == MagTypeOK /\ BuffersKept /\ ReportsInStep /\ CardsTyped

\* What is typed, waits and is kept, in the terms of the lemmas.
Whole(seen, before, reports, buffers, t) ==
  seen \o Coming(before, reports) \o TextFrom(buffers, t)

LEMMA TypedWhole ==
  CardsTyped <=> Whole(typed, held, banks, TrackDataBuffers, CurrentTrackBuffer) = text
  BY DEF CardsTyped, Whole, InBanks, InBuffers, Coming, Presses, TextFrom, Lines

LEMMA TypedWholeNext ==
  CardsTyped' <=> Whole(typed', held', banks', TrackDataBuffers', CurrentTrackBuffer') = text'
  BY DEF CardsTyped, Whole, InBanks, InBuffers, Coming, Presses, TextFrom, Lines

\* What the steps need of the invariant.
LEMMA InvFacts ==
  ASSUME MagInv
  PROVE  /\ TrackDataBuffers \in [Tracks -> BufferType]
         /\ CurrentTrackBuffer \in 1..(TOTAL_TRACKS + 1) /\ CurrentTrackBuffer \in Nat
         /\ IsKeyReleaseReport \in BOOLEAN /\ PrevReportIN \in Keys
         /\ banks \in Seq(Keys) /\ held \in Keys /\ typed \in Seq(Keys) /\ text \in Seq(Keys)
         /\ Coming(held, banks) \in Seq(Keys)
         /\ TextFrom(TrackDataBuffers, CurrentTrackBuffer) \in Seq(Keys)
         /\ Whole(typed, held, banks, TrackDataBuffers, CurrentTrackBuffer) = text
  <1>1. /\ TrackDataBuffers \in [Tracks -> BufferType]
        /\ CurrentTrackBuffer \in 1..(TOTAL_TRACKS + 1) /\ CurrentTrackBuffer \in Nat
        /\ IsKeyReleaseReport \in BOOLEAN /\ PrevReportIN \in Keys
        /\ banks \in Seq(Keys) /\ held \in Keys /\ typed \in Seq(Keys) /\ text \in Seq(Keys)
    BY MagSizes DEF MagInv, MagTypeOK, BufferType
  <1>2. Coming(held, banks) \in Seq(Keys)
    BY <1>1, ComingType
  <1>3. TextFrom(TrackDataBuffers, CurrentTrackBuffer) \in Seq(Keys)
    BY <1>1, TextType
  <1>4. CardsTyped
    BY DEF MagInv
  <1> QED BY <1>1, <1>2, <1>3, <1>4, TypedWhole

\* A report that is made: a key comes out of the buffers, and only after a
\* report without one.
LEMMA ReportMade ==
  ASSUME MagInv, NEW key \in Keys, CreateHIDReport(key)
  PROVE  /\ TrackDataBuffers' \in [Tracks -> BufferType] /\ BuffersKept'
         /\ CurrentTrackBuffer' \in 1..(TOTAL_TRACKS + 1)
         /\ IsKeyReleaseReport' = ~IsKeyReleaseReport
         /\ key # "KEY_NONE" => IsKeyReleaseReport /\ ~(CurrentTrackBuffer > TOTAL_TRACKS)
         /\ IsKeyReleaseReport' => key = "KEY_NONE"
         /\ TextFrom(TrackDataBuffers, CurrentTrackBuffer) =
              Pressed("KEY_NONE", key) \o TextFrom(TrackDataBuffers', CurrentTrackBuffer')
         /\ TextFrom(TrackDataBuffers', CurrentTrackBuffer') \in Seq(Keys)
  <1> DEFINE B == TrackDataBuffers
             c == CurrentTrackBuffer
  <1>1. /\ B \in [Tracks -> BufferType] /\ c \in 1..(TOTAL_TRACKS + 1) /\ c \in Nat
        /\ IsKeyReleaseReport \in BOOLEAN /\ TextFrom(B, c) \in Seq(Keys)
    BY InvFacts
  <1>2. \A t \in Tracks : BufferOK(B[t]) /\ (t < c => B[t].Elements = 0)
    BY DEF MagInv, BuffersKept
  <1>3. IsKeyReleaseReport' = ~IsKeyReleaseReport
    BY DEF CreateHIDReport
  <1>4. CASE /\ ~IsKeyReleaseReport \/ c > TOTAL_TRACKS
             /\ key = "KEY_NONE" /\ UNCHANGED <<TrackDataBuffers, CurrentTrackBuffer>>
    <2>1. B' = B /\ c' = c /\ key = "KEY_NONE"
      BY <1>4
    <2>2. BuffersKept'
      BY <1>2, <2>1 DEF BuffersKept
    <2>3. Pressed("KEY_NONE", key) = <<>>
      BY <2>1 DEF Pressed
    <2>4. TextFrom(B', c') = TextFrom(B, c)
      BY <2>1
    <2>5. <<>> \o TextFrom(B, c) = TextFrom(B, c)
      BY <1>1, ConcatEmptySeq
    <2> QED BY <1>1, <1>3, <2>1, <2>2, <2>3, <2>4, <2>5
  <1>5. CASE /\ IsKeyReleaseReport /\ c \in Tracks /\ B[c].Elements = 0 /\ key = "KEY_ENTER"
             /\ c' = c + 1 /\ UNCHANGED TrackDataBuffers
    <2>1. B' = B /\ c' = c + 1 /\ key = "KEY_ENTER" /\ c \in Tracks
          /\ c + 1 \in 1..(TOTAL_TRACKS + 1) /\ ~(c > TOTAL_TRACKS)
      BY <1>5, MagSizes DEF Tracks
    <2>2. BuffersKept'
      <3>1. \A t \in Tracks : t < c + 1 => B[t].Elements = 0
        <4> TAKE t \in Tracks
        <4>1. t < c + 1 => t < c \/ t = c
          BY <1>1 DEF Tracks
        <4> QED BY <1>2, <1>5, <4>1
      <3> QED BY <1>2, <2>1, <3>1 DEF BuffersKept
    <2>3. /\ TextFrom(B, c) = Line(Bits(B[c])) \o TextFrom(B, c + 1)
          /\ TextFrom(B, c + 1) \in Seq(Keys)
      BY <1>1, <2>1, TextCons
    <2>4. Line(Bits(B[c])) = <<"KEY_ENTER">>
      <3>1. B[c] \in BufferType
        BY <1>1, <2>1
      <3>2. Bits(B[c]) \in Seq(BOOLEAN) /\ Len(Bits(B[c])) = 0
        BY <1>5, <3>1, BitsType
      <3> QED BY <3>2, LineEmpty
    <2>5. Pressed("KEY_NONE", key) = <<"KEY_ENTER">>
      BY <2>1 DEF Pressed
    <2>6. TextFrom(B', c') = TextFrom(B, c + 1)
      BY <2>1
    <2>7. IsKeyReleaseReport /\ ~IsKeyReleaseReport'
      BY <1>3, <1>5
    <2> QED BY <1>1, <1>3, <2>1, <2>2, <2>3, <2>4, <2>5, <2>6, <2>7
  <1>6. CASE /\ IsKeyReleaseReport /\ c \in Tracks /\ B[c].Elements > 0
             /\ key = KeyOf(B[c].Data[B[c].Out])
             /\ B' = [B EXCEPT ![c] = BitBuffer_GetNextBit(@)] /\ UNCHANGED CurrentTrackBuffer
    <2> DEFINE b == B[c]
               r == BitBuffer_GetNextBit(b)
    <2>1. /\ c' = c /\ c \in Tracks /\ ~(c > TOTAL_TRACKS) /\ key = KeyOf(b.Data[b.Out])
          /\ B' = [B EXCEPT ![c] = r] /\ c + 1 \in 1..(TOTAL_TRACKS + 1)
      BY <1>6, MagSizes DEF Tracks
    <2>2. BufferOK(b) /\ b.Elements > 0
      BY <1>2, <1>6
    <2>3. BufferOK(r) /\ Line(Bits(b)) = <<key>> \o Line(Bits(r))
      <3> HIDE DEF b, r
      <3>1. BufferOK(BitBuffer_GetNextBit(b))
            /\ Line(Bits(b)) = <<KeyOf(b.Data[b.Out])>> \o Line(Bits(BitBuffer_GetNextBit(b)))
        BY <2>2, GetBits
      <3> QED BY <2>1, <3>1 DEF r
    <2> HIDE DEF r
    <2>4. r \in BufferType
      BY <2>3 DEF BufferOK
    <2>5. /\ B' \in [Tracks -> BufferType] /\ B'[c] = r
          /\ \A t \in Tracks : t # c => B'[t] = B[t]
      BY <1>1, <2>1, <2>4
    <2>6. BuffersKept'
      <3>1. \A t \in Tracks : BufferOK(B'[t]) /\ (t < c => B'[t].Elements = 0)
        <4> TAKE t \in Tracks
        <4>1. t < c => t # c
          BY <1>1 DEF Tracks
        <4> QED BY <1>2, <2>3, <2>5, <4>1
      <3> QED BY <2>1, <3>1 DEF BuffersKept
    <2>7. /\ TextFrom(B, c) = Line(Bits(b)) \o TextFrom(B, c + 1)
          /\ TextFrom(B, c + 1) \in Seq(Keys)
      BY <1>1, <2>1, TextCons
    <2>8. /\ TextFrom(B', c) = Line(Bits(r)) \o TextFrom(B', c + 1)
          /\ Line(Bits(r)) \in Seq(Keys)
      BY <2>1, <2>5, TextCons
    <2>9. TextFrom(B', c + 1) = TextFrom(B, c + 1)
      <3>1. \A t \in Tracks : t >= c + 1 => B'[t] = B[t]
        <4> TAKE t \in Tracks
        <4>1. t >= c + 1 => t # c
          BY <1>1 DEF Tracks
        <4> QED BY <2>5, <4>1
      <3> QED BY <2>1, <3>1, TextAgree
    <2>10. TextFrom(B, c) = <<key>> \o TextFrom(B', c)
      <3>1. \A u, v, w \in Seq(Keys) : (u \o v) \o w = u \o (v \o w)
        BY ConcatAssociative
      <3>2. <<key>> \in Seq(Keys)
        OBVIOUS
      <3>3. (<<key>> \o Line(Bits(r))) \o TextFrom(B, c + 1)
              = <<key>> \o (Line(Bits(r)) \o TextFrom(B, c + 1))
        BY <2>7, <2>8, <3>1, <3>2
      <3> QED BY <2>3, <2>7, <2>8, <2>9, <3>3
    <2>11. key # "KEY_NONE"
      BY <2>1 DEF KeyOf
    <2>12. Pressed("KEY_NONE", key) = <<key>>
      BY <2>11 DEF Pressed
    <2>13. TextFrom(B', c) \in Seq(Keys)
      BY <1>1, <2>5, TextType
    <2>14. IsKeyReleaseReport /\ ~IsKeyReleaseReport'
      BY <1>3, <1>6
    <2> QED BY <1>1, <1>3, <2>1, <2>5, <2>6, <2>10, <2>11, <2>12, <2>13, <2>14
  <1> QED BY <1>4, <1>5, <1>6 DEF CreateHIDReport
-----------------------------------------------------------------------------
(* The steps.                                                              *)

\* The other types, in the terms of the driver.
IdleOK(count, left) ==
  /\ count \in IdlePeriods \cup {IDLE_MS}
  /\ left \in UNION {0..n : n \in IdlePeriods \cup {IDLE_MS}}

LEMMA TypeFromParts ==
  ASSUME TrackDataBuffers \in [Tracks -> BufferType],
         CurrentTrackBuffer \in 1..(TOTAL_TRACKS + 1),
         IsKeyReleaseReport \in BOOLEAN, PrevReportIN \in Keys,
         IdleOK(IdleCount, IdleMSRemaining), configured \in BOOLEAN,
         banks \in Seq(Keys), Len(banks) <= BANKS, held \in Keys, typed \in Seq(Keys),
         cards \in 0..MaxCards, text \in Seq(Keys)
  PROVE  MagTypeOK
  BY DEF MagTypeOK, BufferType, IdleOK

LEMMA InitMag == MagInit => MagInv
  <1> SUFFICES ASSUME MagInit PROVE MagInv
    OBVIOUS
  <1> DEFINE b == [Data |-> [s \in BitSlots |-> FALSE], Elements |-> 0, In |-> 0, Out |-> 0]
  <1>1. 0 \in BitSlots /\ 0 \in 0..MAX_BITS /\ TOTAL_TRACKS + 1 \in 1..(TOTAL_TRACKS + 1)
        /\ 0 \in 0..MaxCards /\ 0 <= BANKS
    BY MagSizes DEF BitSlots
  <1>2. BufferOK(b)
    <2>1. b \in BufferType
      BY <1>1 DEF BufferType
    <2>2. (0 + 0) % MAX_BITS = 0
      <3>1. (0 + 0) % MAX_BITS = Wrap(0 + 0)
        BY <1>1, EndSlot
      <3> QED BY <3>1, MagSizes DEF Wrap
    <2> QED BY <2>1, <2>2 DEF BufferOK
  <1>3. b \in BufferType
    BY <1>2 DEF BufferOK
  <1>4. TrackDataBuffers = [t \in Tracks |-> b]
    BY DEF MagInit
  <1>5. TrackDataBuffers \in [Tracks -> BufferType]
    <2> HIDE DEF b
    <2> QED BY <1>3, <1>4
  <1>6. BuffersKept
    <2>1. b.Elements = 0
      OBVIOUS
    <2> HIDE DEF b
    <2> QED BY <1>2, <1>4, <2>1 DEF BuffersKept
  <1>7. /\ banks = <<>> /\ held = "KEY_NONE" /\ typed = <<>> /\ text = <<>>
        /\ PrevReportIN = "KEY_NONE" /\ IsKeyReleaseReport = FALSE
        /\ CurrentTrackBuffer = TOTAL_TRACKS + 1 /\ configured = FALSE /\ cards = 0
        /\ IdleCount = IDLE_MS /\ IdleMSRemaining = 0
    BY DEF MagInit
  <1>8. <<>> \in Seq(Keys) /\ Len(<<>>) = 0
    OBVIOUS
  <1>9. IdleOK(IdleCount, IdleMSRemaining)
    <2>1. 0 \in 0..IDLE_MS
      BY MagSizes
    <2> QED BY <1>7, <2>1 DEF IdleOK
  <1>10. MagTypeOK
    <2>1. "KEY_NONE" \in Keys
      BY DEF Keys
    <2> QED BY <1>1, <1>5, <1>7, <1>8, <1>9, <2>1, TypeFromParts
  <1>11. ReportsInStep
    BY <1>7 DEF ReportsInStep, LastOf
  <1>12. CardsTyped
    <2>1. TextFrom(TrackDataBuffers, CurrentTrackBuffer) = <<>>
      BY <1>5, <1>7, TextDone
    <2>2. Coming(held, banks) = <<>>
      <3>1. Presses(held, <<>>) \in Seq(Seq(Keys)) /\ Len(Presses(held, <<>>)) = 0
        BY <1>8, PressesType
      <3>2. Presses(held, <<>>) = <<>>
        BY <3>1, EmptySeq
      <3> QED BY <1>7, <3>2, FlattenEmpty DEF Coming
    <2>3. <<>> \o <<>> = <<>>
      BY <1>8, ConcatEmptySeq
    <2>4. Whole(typed, held, banks, TrackDataBuffers, CurrentTrackBuffer) = text
      BY <1>7, <2>1, <2>2, <2>3 DEF Whole
    <2> QED BY <2>4, TypedWhole
  <1> QED BY <1>6, <1>10, <1>11, <1>12 DEF MagInv

\* The invariant after a step, from its parts.
LEMMA InvFromParts ==
  ASSUME MagTypeOK', BuffersKept', ReportsInStep',
         Whole(typed', held', banks', TrackDataBuffers', CurrentTrackBuffer') = text'
  PROVE  MagInv'
  BY TypedWholeNext DEF MagInv

LEMMA TypeNext ==
  ASSUME TrackDataBuffers' \in [Tracks -> BufferType],
         CurrentTrackBuffer' \in 1..(TOTAL_TRACKS + 1),
         IsKeyReleaseReport' \in BOOLEAN, PrevReportIN' \in Keys,
         IdleOK(IdleCount', IdleMSRemaining'), configured' \in BOOLEAN,
         banks' \in Seq(Keys), Len(banks') <= BANKS, held' \in Keys, typed' \in Seq(Keys),
         cards' \in 0..MaxCards, text' \in Seq(Keys)
  PROVE  MagTypeOK'
  BY DEF MagTypeOK, BufferType, IdleOK

LEMMA TypeFacts ==
  ASSUME MagInv
  PROVE  /\ IdleOK(IdleCount, IdleMSRemaining) /\ configured \in BOOLEAN
         /\ Len(banks) <= BANKS /\ cards \in 0..MaxCards
  BY DEF MagInv, MagTypeOK, IdleOK

LEMMA ReadKeeps ==
  ASSUME MagInv, Use = "plain", ReadMagstripeData
  PROVE  MagInv'
  <1>1. PICK card \in Cards :
          /\ TrackDataBuffers' = [t \in Tracks |-> BitBuffer_Store(TrackDataBuffers[t], card[t])]
          /\ cards' = cards + 1 /\ text' = text \o CardText(card)
    BY DEF ReadMagstripeData
  <1>2. /\ CurrentTrackBuffer > TOTAL_TRACKS /\ cards < MaxCards /\ CurrentTrackBuffer' = 1
        /\ UNCHANGED <<IsKeyReleaseReport, PrevReportIN, IdleCount, IdleMSRemaining, configured,
                       banks, held, typed>>
    BY DEF ReadMagstripeData, driverVars
  <1>3. \A t \in Tracks : card[t] \in Seq(BOOLEAN) /\ Len(card[t]) <= MAX_BITS
    <2>1. card \in [Tracks -> Seq(BOOLEAN)]
      BY MagAssumption
    <2>2. \A t \in Tracks : Len(card[t]) <= MAX_BITS
      BY MagAssumption
    <2> QED BY <2>1, <2>2
  <1>4. /\ TrackDataBuffers \in [Tracks -> BufferType]
        /\ CurrentTrackBuffer \in 1..(TOTAL_TRACKS + 1) /\ CurrentTrackBuffer \in Nat
        /\ IsKeyReleaseReport \in BOOLEAN /\ PrevReportIN \in Keys
        /\ banks \in Seq(Keys) /\ held \in Keys /\ typed \in Seq(Keys) /\ text \in Seq(Keys)
        /\ Coming(held, banks) \in Seq(Keys)
        /\ Whole(typed, held, banks, TrackDataBuffers, CurrentTrackBuffer) = text
    BY InvFacts
  <1>5. CurrentTrackBuffer = TOTAL_TRACKS + 1 /\ 1 \in 1..(TOTAL_TRACKS + 1)
    BY <1>2, <1>4, MagSizes
  <1>6. ASSUME NEW t \in Tracks
        PROVE  BufferOK(TrackDataBuffers'[t]) /\ Bits(TrackDataBuffers'[t]) = card[t]
    <2>1. t < CurrentTrackBuffer
      BY <1>5, MagSizes DEF Tracks
    <2>2. BufferOK(TrackDataBuffers[t]) /\ TrackDataBuffers[t].Elements = 0
      BY <2>1 DEF MagInv, BuffersKept
    <2>3. TrackDataBuffers'[t] = BitBuffer_Store(TrackDataBuffers[t], card[t])
      BY <1>1
    <2> QED BY <1>3, <2>2, <2>3, StoreBits
  <1>7. TrackDataBuffers' \in [Tracks -> BufferType]
    <2>1. \A t \in Tracks : TrackDataBuffers'[t] \in BufferType
      BY <1>6 DEF BufferOK
    <2>2. TrackDataBuffers' = [t \in Tracks |-> TrackDataBuffers'[t]]
      BY <1>1
    <2> QED BY <2>1, <2>2
  <1>8. BuffersKept'
    <2>1. \A t \in Tracks : ~(t < 1)
      BY DEF Tracks
    <2> QED BY <1>2, <1>6, <2>1 DEF BuffersKept
  <1>9. TextFrom(TrackDataBuffers', 1) = CardText(card) /\ CardText(card) \in Seq(Keys)
    BY <1>5, <1>6, <1>7, TextOfCard, TextType
  <1>10. text \o CardText(card) \in Seq(Keys)
    BY <1>4, <1>9, ConcatProperties
  <1>11. cards' \in 0..MaxCards
    BY <1>1, <1>2, TypeFacts, MagSizes
  <1>12. MagTypeOK'
    BY <1>1, <1>2, <1>4, <1>5, <1>7, <1>10, <1>11, TypeFacts, TypeNext
  <1>13. ReportsInStep'
    BY <1>2 DEF MagInv, ReportsInStep
  <1>14. Whole(typed', held', banks', TrackDataBuffers', CurrentTrackBuffer') = text'
    <2>1. TextFrom(TrackDataBuffers, CurrentTrackBuffer) = <<>>
      BY <1>4, <1>5, TextDone
    <2>2. typed \o Coming(held, banks) \in Seq(Keys)
      BY <1>4, ConcatProperties
    <2>3. typed \o Coming(held, banks) = text
      BY <1>4, <2>1, <2>2, ConcatEmptySeq DEF Whole
    <2> QED BY <1>1, <1>2, <1>9, <2>3 DEF Whole
  <1> QED BY <1>8, <1>12, <1>13, <1>14, InvFromParts

LEMMA TaskKeeps ==
  ASSUME MagInv, HID_Device_USBTask
  PROVE  MagInv'
  <1>1. PICK key \in Keys :
          /\ CreateHIDReport(key) /\ PrevReportIN' = key
          /\ IF key # PrevReportIN \/ (IdleCount > 0 /\ IdleMSRemaining = 0)
             THEN banks' = Append(banks, key) /\ IdleMSRemaining' = IdleCount
             ELSE UNCHANGED <<banks, IdleMSRemaining>>
    BY DEF HID_Device_USBTask
  <1>2. Len(banks) < BANKS /\ UNCHANGED <<IdleCount, configured, held, typed, cards, text>>
    BY DEF HID_Device_USBTask
  <1>3. /\ TrackDataBuffers' \in [Tracks -> BufferType] /\ BuffersKept'
        /\ CurrentTrackBuffer' \in 1..(TOTAL_TRACKS + 1)
        /\ IsKeyReleaseReport' = ~IsKeyReleaseReport
        /\ key # "KEY_NONE" => IsKeyReleaseReport
        /\ IsKeyReleaseReport' => key = "KEY_NONE"
        /\ TextFrom(TrackDataBuffers, CurrentTrackBuffer) =
             Pressed("KEY_NONE", key) \o TextFrom(TrackDataBuffers', CurrentTrackBuffer')
        /\ TextFrom(TrackDataBuffers', CurrentTrackBuffer') \in Seq(Keys)
    BY <1>1, ReportMade
  <1>4. /\ banks \in Seq(Keys) /\ held \in Keys /\ typed \in Seq(Keys) /\ text \in Seq(Keys)
        /\ Coming(held, banks) \in Seq(Keys)
        /\ Whole(typed, held, banks, TrackDataBuffers, CurrentTrackBuffer) = text
    BY InvFacts
  <1>5. LastOf(held, banks) = PrevReportIN /\ (IsKeyReleaseReport => PrevReportIN = "KEY_NONE")
    BY DEF MagInv, ReportsInStep
  <1>6. Pressed(LastOf(held, banks), key) = Pressed("KEY_NONE", key)
        /\ Pressed("KEY_NONE", key) \in Seq(Keys)
    <2>1. Pressed("KEY_NONE", key) \in Seq(Keys)
      BY <1>1, PressedType DEF Keys
    <2>2. CASE key = "KEY_NONE"
      BY <2>1, <2>2 DEF Pressed
    <2>3. CASE key # "KEY_NONE"
      <3>1. LastOf(held, banks) = "KEY_NONE"
        BY <1>3, <1>5, <2>3
      <3>2. Pressed(LastOf(held, banks), key) = Pressed("KEY_NONE", key)
        BY <3>1
      <3> QED BY <2>1, <3>2
    <2> QED BY <2>2, <2>3
  <1>7. banks' \in Seq(Keys) /\ Len(banks') <= BANKS
    <2>1. Append(banks, key) \in Seq(Keys) /\ Len(Append(banks, key)) = Len(banks) + 1
      BY <1>4, AppendProperties
    <2>2. Len(banks) \in Nat
      BY <1>4, LenProperties
    <2>3. banks' = Append(banks, key) \/ banks' = banks
      BY <1>1
    <2>4. CASE banks' = Append(banks, key)
      BY <1>2, <2>1, <2>2, <2>4, MagSizes
    <2>5. CASE banks' = banks
      BY <1>2, <1>4, <2>2, <2>5, MagSizes
    <2> QED BY <2>3, <2>4, <2>5
  <1>8. IdleOK(IdleCount', IdleMSRemaining')
    <2>1. IdleOK(IdleCount, IdleMSRemaining)
      BY TypeFacts
    <2>2. IdleCount \in 0..IdleCount
      BY <2>1, MagSizes DEF IdleOK
    <2> QED BY <1>1, <1>2, <2>1, <2>2 DEF IdleOK
  <1>9. MagTypeOK'
    BY <1>1, <1>2, <1>3, <1>4, <1>7, <1>8, TypeFacts, TypeNext
  <1>10. /\ LastOf(held', banks') = key
         /\ Coming(held', banks') = Coming(held, banks) \o Pressed("KEY_NONE", key)
    <2>1. CASE banks' = Append(banks, key)
      <3>1. Coming(held, Append(banks, key)) = Coming(held, banks) \o Pressed(LastOf(held, banks), key)
        BY <1>4, ComingAppend
      <3>2. Append(banks, key) # <<>> /\ Append(banks, key)[Len(Append(banks, key))] = key
        BY <1>4, AppendProperties
      <3>3. LastOf(held, Append(banks, key)) = key
        BY <3>2 DEF LastOf
      <3> QED BY <1>2, <1>6, <2>1, <3>1, <3>3
    <2>2. CASE banks' = banks /\ key = PrevReportIN
      <3>1. LastOf(held', banks') = key
        BY <1>2, <1>5, <2>2
      <3>2. Pressed(LastOf(held, banks), key) = <<>>
        BY <1>5, <2>2 DEF Pressed
      <3>3. Coming(held, banks) \o <<>> = Coming(held, banks)
        BY <1>4, ConcatEmptySeq
      <3>4. Coming(held', banks') = Coming(held, banks)
        BY <1>2, <2>2
      <3> QED BY <1>6, <3>1, <3>2, <3>3, <3>4
    <2> QED BY <1>1, <2>1, <2>2
  <1>11. ReportsInStep'
    BY <1>1, <1>3, <1>10 DEF ReportsInStep
  <1>12. Whole(typed', held', banks', TrackDataBuffers', CurrentTrackBuffer') = text'
    <2>1. typed \o (Coming(held, banks) \o Pressed("KEY_NONE", key))
              \o TextFrom(TrackDataBuffers', CurrentTrackBuffer')
          = typed \o Coming(held, banks)
              \o (Pressed("KEY_NONE", key) \o TextFrom(TrackDataBuffers', CurrentTrackBuffer'))
      <3>1. typed \in Seq(Keys) /\ Coming(held, banks) \in Seq(Keys)
            /\ Pressed("KEY_NONE", key) \in Seq(Keys)
            /\ TextFrom(TrackDataBuffers', CurrentTrackBuffer') \in Seq(Keys)
        BY <1>3, <1>4, <1>6
      <3>2. \A u, v, w \in Seq(Keys) : (u \o v) \o w = u \o (v \o w)
        BY ConcatAssociative
      <3>3. typed \o Coming(held, banks) \in Seq(Keys)
        BY <3>1, ConcatProperties
      <3>4. typed \o (Coming(held, banks) \o Pressed("KEY_NONE", key))
              = (typed \o Coming(held, banks)) \o Pressed("KEY_NONE", key)
        BY <3>1, <3>2
      <3>5. ((typed \o Coming(held, banks)) \o Pressed("KEY_NONE", key))
                \o TextFrom(TrackDataBuffers', CurrentTrackBuffer')
              = (typed \o Coming(held, banks))
                  \o (Pressed("KEY_NONE", key) \o TextFrom(TrackDataBuffers', CurrentTrackBuffer'))
        BY <3>1, <3>2, <3>3
      <3> QED BY <3>4, <3>5
    <2> QED BY <1>2, <1>3, <1>4, <1>10, <2>1 DEF Whole
  <1> QED BY <1>3, <1>9, <1>11, <1>12, InvFromParts

LEMMA GetReportKeeps ==
  ASSUME MagInv, Use = "plain", GetReport
  PROVE  MagInv'
  <1>1. PICK key \in Keys : CreateHIDReport(key) /\ PrevReportIN' = key
    BY DEF GetReport
  <1>2. /\ CurrentTrackBuffer > TOTAL_TRACKS /\ PrevReportIN = "KEY_NONE"
        /\ UNCHANGED <<IdleCount, IdleMSRemaining, configured, banks, held, typed, cards, text>>
    BY DEF GetReport
  <1>3. /\ TrackDataBuffers' \in [Tracks -> BufferType] /\ BuffersKept'
        /\ CurrentTrackBuffer' \in 1..(TOTAL_TRACKS + 1)
        /\ IsKeyReleaseReport' = ~IsKeyReleaseReport
        /\ key # "KEY_NONE" => ~(CurrentTrackBuffer > TOTAL_TRACKS)
        /\ TextFrom(TrackDataBuffers, CurrentTrackBuffer) =
             Pressed("KEY_NONE", key) \o TextFrom(TrackDataBuffers', CurrentTrackBuffer')
        /\ TextFrom(TrackDataBuffers', CurrentTrackBuffer') \in Seq(Keys)
    BY <1>1, ReportMade
  <1>4. key = "KEY_NONE"
    BY <1>2, <1>3
  <1>5. /\ banks \in Seq(Keys) /\ held \in Keys /\ typed \in Seq(Keys) /\ text \in Seq(Keys)
        /\ Whole(typed, held, banks, TrackDataBuffers, CurrentTrackBuffer) = text
    BY InvFacts
  <1>6. IdleOK(IdleCount, IdleMSRemaining) /\ configured \in BOOLEAN
        /\ Len(banks) <= BANKS /\ cards \in 0..MaxCards
    BY TypeFacts
  <1>7. MagTypeOK'
    BY <1>1, <1>2, <1>3, <1>5, <1>6, TypeNext
  <1>8. ReportsInStep'
    BY <1>1, <1>2, <1>4 DEF MagInv, ReportsInStep
  <1>9. Whole(typed', held', banks', TrackDataBuffers', CurrentTrackBuffer') = text'
    <2>1. Pressed("KEY_NONE", key) = <<>>
      BY <1>4 DEF Pressed
    <2>2. TextFrom(TrackDataBuffers, CurrentTrackBuffer)
            = TextFrom(TrackDataBuffers', CurrentTrackBuffer')
      BY <1>3, <2>1, ConcatEmptySeq
    <2> QED BY <1>2, <1>5, <2>2 DEF Whole
  <1> QED BY <1>3, <1>7, <1>8, <1>9, InvFromParts

LEMMA PollKeeps ==
  ASSUME MagInv, HostPolls
  PROVE  MagInv'
  <1>1. /\ banks # <<>> /\ banks' = Tail(banks) /\ held' = Head(banks)
        /\ typed' = typed \o Pressed(held, Head(banks))
        /\ UNCHANGED <<TrackDataBuffers, CurrentTrackBuffer, IsKeyReleaseReport, PrevReportIN,
                       IdleCount, IdleMSRemaining, configured, cards, text>>
    BY DEF HostPolls, driverVars
  <1>2. /\ TrackDataBuffers \in [Tracks -> BufferType]
        /\ CurrentTrackBuffer \in 1..(TOTAL_TRACKS + 1)
        /\ IsKeyReleaseReport \in BOOLEAN /\ PrevReportIN \in Keys
        /\ banks \in Seq(Keys) /\ held \in Keys /\ typed \in Seq(Keys) /\ text \in Seq(Keys)
        /\ TextFrom(TrackDataBuffers, CurrentTrackBuffer) \in Seq(Keys)
        /\ Whole(typed, held, banks, TrackDataBuffers, CurrentTrackBuffer) = text
    BY InvFacts
  <1>3. /\ Tail(banks) \in Seq(Keys) /\ Len(Tail(banks)) = Len(banks) - 1 /\ Head(banks) \in Keys
        /\ Head(banks) = banks[1] /\ Len(banks) \in Nat
        /\ \A i \in 1..Len(Tail(banks)) : Tail(banks)[i] = banks[i + 1]
    BY <1>1, <1>2, HeadTailProperties, LenProperties
  <1>4. /\ IdleOK(IdleCount, IdleMSRemaining) /\ configured \in BOOLEAN
        /\ Len(banks) <= BANKS /\ cards \in 0..MaxCards
    BY TypeFacts
  <1>5. Pressed(held, Head(banks)) \in Seq(Keys) /\ Coming(Head(banks), Tail(banks)) \in Seq(Keys)
    BY <1>3, PressedType, ComingType
  <1>6. typed' \in Seq(Keys) /\ Len(banks') <= BANKS
    <2>1. typed \o Pressed(held, Head(banks)) \in Seq(Keys)
      BY <1>2, <1>5, ConcatProperties
    <2> QED BY <1>1, <1>3, <1>4, <2>1, MagSizes
  <1>7. MagTypeOK'
    BY <1>1, <1>2, <1>3, <1>4, <1>6, TypeNext
  <1>8. BuffersKept'
    BY <1>1 DEF MagInv, BuffersKept
  <1>9. LastOf(Head(banks), Tail(banks)) = LastOf(held, banks)
    <2>1. LastOf(held, banks) = banks[Len(banks)]
      BY <1>1 DEF LastOf
    <2>2. CASE Tail(banks) = <<>>
      <3>1. Len(banks) = 1
        BY <1>3, <2>2
      <3> QED BY <1>3, <2>1, <2>2, <3>1 DEF LastOf
    <2>3. CASE Tail(banks) # <<>>
      <3>1. Len(Tail(banks)) \in 1..Len(Tail(banks))
        BY <1>3, <2>3, EmptySeq, LenProperties
      <3>2. Tail(banks)[Len(Tail(banks))] = banks[Len(Tail(banks)) + 1]
        BY <1>3, <3>1
      <3>3. Len(Tail(banks)) + 1 = Len(banks)
        BY <1>3
      <3> QED BY <2>1, <2>3, <3>2, <3>3 DEF LastOf
    <2> QED BY <2>2, <2>3
  <1>10. ReportsInStep'
    BY <1>1, <1>9 DEF MagInv, ReportsInStep
  <1>11. Whole(typed', held', banks', TrackDataBuffers', CurrentTrackBuffer') = text'
    <2>1. Coming(held, banks) = Pressed(held, Head(banks)) \o Coming(Head(banks), Tail(banks))
      BY <1>1, <1>2, ComingHead
    <2>2. \A u, v, w \in Seq(Keys) : (u \o v) \o w = u \o (v \o w)
      BY ConcatAssociative
    <2>3. (typed \o Pressed(held, Head(banks))) \o Coming(Head(banks), Tail(banks))
            = typed \o (Pressed(held, Head(banks)) \o Coming(Head(banks), Tail(banks)))
      <3> DEFINE u == Pressed(held, Head(banks))
                 v == Coming(Head(banks), Tail(banks))
      <3>1. typed \in Seq(Keys) /\ u \in Seq(Keys) /\ v \in Seq(Keys)
        BY <1>2, <1>5
      <3> HIDE DEF u, v
      <3> QED BY ONLY <2>2, <3>1
    <2> QED BY <1>1, <1>2, <2>1, <2>3 DEF Whole
  <1> QED BY <1>7, <1>8, <1>10, <1>11, InvFromParts

\* The steps that leave the buffers and the reports alone.
LEMMA OthersKeep ==
  ASSUME MagInv,
         ConfigurationChanged \/ SetIdle \/ MillisecondElapsed \/ UNCHANGED magVars
  PROVE  MagInv'
  <1>1. UNCHANGED <<TrackDataBuffers, CurrentTrackBuffer, IsKeyReleaseReport, PrevReportIN, banks,
                    held, typed, cards, text>>
    BY DEF ConfigurationChanged, SetIdle, MillisecondElapsed, magVars, driverVars
  <1>2. /\ TrackDataBuffers \in [Tracks -> BufferType]
        /\ CurrentTrackBuffer \in 1..(TOTAL_TRACKS + 1)
        /\ IsKeyReleaseReport \in BOOLEAN /\ PrevReportIN \in Keys
        /\ banks \in Seq(Keys) /\ held \in Keys /\ typed \in Seq(Keys) /\ text \in Seq(Keys)
        /\ Whole(typed, held, banks, TrackDataBuffers, CurrentTrackBuffer) = text
    BY InvFacts
  <1>3. /\ IdleOK(IdleCount, IdleMSRemaining) /\ configured \in BOOLEAN
        /\ Len(banks) <= BANKS /\ cards \in 0..MaxCards
    BY TypeFacts
  <1>4. configured' \in BOOLEAN
    BY <1>3 DEF ConfigurationChanged, SetIdle, MillisecondElapsed, magVars
  <1>5. IdleOK(IdleCount', IdleMSRemaining')
    <2>1. CASE ConfigurationChanged
      <3>1. 0 \in 0..IDLE_MS
        BY MagSizes
      <3> QED BY <2>1, <3>1 DEF ConfigurationChanged, IdleOK
    <2>2. CASE SetIdle
      BY <1>3, <2>2 DEF SetIdle, IdleOK
    <2>3. CASE MillisecondElapsed
      <3>1. PICK n \in IdlePeriods \cup {IDLE_MS} : IdleMSRemaining \in 0..n
        BY <1>3 DEF IdleOK
      <3>2. IdleMSRemaining' = IdleMSRemaining - 1 /\ IdleMSRemaining > 0 /\ IdleCount' = IdleCount
        BY <2>3 DEF MillisecondElapsed
      <3>3. IdleMSRemaining' \in 0..n
        BY <3>1, <3>2, MagSizes
      <3> QED BY <1>3, <3>1, <3>2, <3>3 DEF IdleOK
    <2>4. CASE UNCHANGED magVars
      BY <1>3, <2>4 DEF magVars, driverVars
    <2> QED BY <2>1, <2>2, <2>3, <2>4
  <1>6. MagTypeOK'
    BY <1>1, <1>2, <1>3, <1>4, <1>5, TypeNext
  <1>7. BuffersKept' /\ ReportsInStep'
    BY <1>1 DEF MagInv, BuffersKept, ReportsInStep
  <1>8. Whole(typed', held', banks', TrackDataBuffers', CurrentTrackBuffer') = text'
    BY <1>1, <1>2
  <1> QED BY <1>6, <1>7, <1>8, InvFromParts

LEMMA MagInvHolds ==
  ASSUME Use = "plain"
  PROVE  MagSpec => []MagInv
  <1>1. MagInv /\ [MagNext]_magVars => MagInv'
    BY ReadKeeps, TaskKeeps, GetReportKeeps, PollKeeps, OthersKeep DEF MagNext
  <1> QED BY <1>1, InitMag, PTL DEF MagSpec

\* The fields of the bit buffers and of the class driver keep their types: no
\* buffer overflows, and the report endpoint is never written when full.
THEOREM StripeTypeCorrect ==
  ASSUME Use = "plain"
  PROVE  MagSpec => []MagTypeOK
  BY MagInvHolds, PTL DEF MagInv

\* For any cards, number of tracks, size of the buffers, banks and idle
\* periods, what is typed and still to be typed is the text of the cards.
THEOREM CardsAreTyped ==
  ASSUME Use = "plain"
  PROVE  MagSpec => []CardsTyped
  BY MagInvHolds, PTL DEF MagInv
=============================================================================
