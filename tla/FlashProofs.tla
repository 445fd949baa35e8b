----------------------------- MODULE FlashProofs -----------------------------
(***************************************************************************)
(* What is proved about the two programs that fill flash memory through a  *)
(* page buffer.                                                            *)
(*                                                                         *)
(* The Dataflash manager: blocks are kept and read back for every number   *)
(* of chips, rows and units, every size of page and block that fit each    *)
(* other, and any commands, abandoned or not, while the chips program      *)
(* pages by themselves.  The invariant says what the alternation of the    *)
(* two buffers is for: a chip never programs the buffer that the manager   *)
(* fills, and what it programs belongs to a page already passed.           *)
(*                                                                         *)
(* The DFU bootloader, for every size of its packets, pages and memories   *)
(* and every set of ranges: its types, that an aligned download lands, and *)
(* that secure mode lets no firmware out.                                  *)
(***************************************************************************)
EXTENDS Dataflash, BootloaderDFU, TLAPS

-----------------------------------------------------------------------------
(* The Dataflash manager.                                                  *)

Buffer == IF UsingSecondBuffer THEN 2 ELSE 1
Other  == IF UsingSecondBuffer THEN 1 ELSE 2

Filling == op \in {"write", "copyTail", "last"}
Writing == Filling \/ op = "settle"

\* Unit u is one that the present write will have changed.
Ours(u) == <<writes, u>> \in allowed[u]

\* The counters of a command.
Counted ==
  /\ op # "idle" => unit + unitsLeft = goal + 1
  /\ atEnd => unit > 0 /\ OffsetOf(unit) = 0
  /\ op \in {"write", "copyTail", "read"} => unitsLeft > 0
  /\ op = "copyTail" => ~atEnd /\ OffsetOf(unit) = 0
  /\ op \in {"last", "settle"} => unitsLeft = 0 /\ (OffsetOf(unit) = 0 => atEnd)
  /\ Writing /\ PAGE_UNITS <= BLOCK_UNITS => OffsetOf(goal + 1) = 0
  /\ Writing => got = <<>>
  /\ op = "read" => \A c \in Chips : programming[c] = <<>>

\* A write from RAM never comes to the second buffers.
OneRow ==
  ram /\ Writing => /\ ~UsingSecondBuffer
                    /\ \A p \in Page..(DFPageOf(goal) - 1) : ChipOf(p) # CHIPS - 1

\* The chips before the page's own have had the buffer in use this time round,
\* the others still have the other one, and all of them earlier pages.
InTurn ==
  Filling => \A c \in Chips : programming[c] # <<>> =>
    /\ programming[c][1] = IF c < ChipOf(Page) THEN Buffer ELSE Other
    /\ CHIPS * programming[c][2] + c < Page

\* What of the page has been passed is in the buffer, and around the write
\* what was there before.
Buffered(u) ==
  LET value == pageBuf[ChipOf(Page)][Buffer][OffsetOf(u)]
  IN  value \in allowed[u] /\ (Ours(u) => value = <<writes, u>>)

BufferGood ==
  /\ Filling => writeBuf = Buffer
  /\ op \in {"write", "last"} =>
       \A u \in FlashUnits : DFPageOf(u) = Page /\ u \notin unit..goal => Buffered(u)

\* The units of the present write, and the pages it has passed.
Done ==
  /\ Filling => /\ \A u \in unit..goal : Ours(u)
                /\ \A u \in FlashUnits : Ours(u) => u <= goal
                /\ \A u \in FlashUnits : Ours(u) /\ DFPageOf(u) < Page => Stored(u) = <<writes, u>>
  /\ op = "settle" => \A u \in FlashUnits : Ours(u) => Stored(u) = <<writes, u>>

FlashInv ==
  /\ FlashTypeOK /\ Counted /\ OneRow /\ InTurn /\ BufferGood /\ Done
  /\ BlocksKept /\ ReadsReturnWrites

-----------------------------------------------------------------------------
\* Places.

LEMMA FlashSizes ==
  /\ CHIPS \in Nat /\ CHIPS > 0 /\ ROWS \in Nat /\ ROWS > 0
  /\ PAGE_UNITS \in Nat /\ PAGE_UNITS > 0 /\ BLOCK_UNITS \in Nat /\ BLOCK_UNITS > 0
  /\ MaxWrites \in Nat /\ FLASH_UNITS \in Nat
<1>1. /\ CHIPS \in Nat /\ CHIPS > 0 /\ ROWS \in Nat /\ ROWS > 0
      /\ PAGE_UNITS \in Nat /\ PAGE_UNITS > 0 /\ BLOCK_UNITS \in Nat /\ BLOCK_UNITS > 0
      /\ MaxWrites \in Nat
  BY DataflashConstants
<1> QED BY <1>1 DEF FLASH_UNITS

LEMMA DivMod ==
  ASSUME NEW a \in Nat, NEW n \in Nat \ {0}
  PROVE  /\ a % n \in 0..(n - 1) /\ a \div n \in Nat /\ a % n <= a
         /\ a = n * (a \div n) + (a % n)
OBVIOUS

LEMMA DivModUnique ==
  ASSUME NEW n \in Nat \ {0}, NEW q \in Nat, NEW p \in Nat,
         NEW x \in 0..(n - 1), NEW y \in 0..(n - 1), n * q + x = n * p + y
  PROVE  q = p /\ x = y
<1>1. CASE q < p
  <2>1. n * (q + 1) <= n * p BY <1>1
  <2> QED BY <2>1
<1>2. CASE p < q
  <2>1. n * (p + 1) <= n * q BY <1>2
  <2> QED BY <2>1
<1> QED BY <1>1, <1>2

LEMMA DivModOf ==
  ASSUME NEW n \in Nat \ {0}, NEW q \in Nat, NEW x \in 0..(n - 1)
  PROVE  (n * q + x) \div n = q /\ (n * q + x) % n = x
<1> DEFINE a == n * q + x
           d == a \div n
           m == a % n
<1>1. a \in Nat OBVIOUS
<1>2. d \in Nat /\ m \in 0..(n - 1) /\ a = n * d + m
  <2> HIDE DEF a
  <2> QED BY <1>1, DivMod
<1>3. n * q + x = n * d + m BY <1>2
<1> HIDE DEF d, m
<1>4. q = d /\ x = m BY <1>2, <1>3, DivModUnique
<1> QED BY <1>4 DEF d, m

\* A unit has one page and one place in it.
LEMMA UnitPlace ==
  ASSUME NEW u \in Nat
  PROVE  /\ DFPageOf(u) \in Nat /\ OffsetOf(u) \in 0..(PAGE_UNITS - 1)
         /\ u = PAGE_UNITS * DFPageOf(u) + OffsetOf(u)
  BY FlashSizes, DivMod DEF DFPageOf, OffsetOf

LEMMA PlaceOf ==
  ASSUME NEW u, NEW p \in Nat, NEW o \in 0..(PAGE_UNITS - 1), u = PAGE_UNITS * p + o
  PROVE  DFPageOf(u) = p /\ OffsetOf(u) = o
  BY FlashSizes, DivModOf DEF DFPageOf, OffsetOf

LEMMA PageOrder ==
  ASSUME NEW u \in Nat, NEW v \in Nat, u <= v
  PROVE  DFPageOf(u) <= DFPageOf(v)
<1> DEFINE p == DFPageOf(u)
           q == DFPageOf(v)
<1>1. /\ p \in Nat /\ q \in Nat /\ u = PAGE_UNITS * p + OffsetOf(u) /\ OffsetOf(u) \in Nat
      /\ v = PAGE_UNITS * q + OffsetOf(v) /\ OffsetOf(v) \in 0..(PAGE_UNITS - 1)
  BY UnitPlace, FlashSizes
<1> HIDE DEF p, q
<1>2. SUFFICES ASSUME q < p PROVE FALSE BY <1>1 DEF p, q
<1>3. PAGE_UNITS * (q + 1) <= PAGE_UNITS * p BY <1>1, <1>2, FlashSizes
<1> QED BY <1>1, <1>3, FlashSizes

\* The unit after another is in the same page or begins the next.
LEMMA NextUnit ==
  ASSUME NEW u \in Nat
  PROVE  IF OffsetOf(u + 1) = 0
         THEN DFPageOf(u + 1) = DFPageOf(u) + 1 /\ OffsetOf(u) = PAGE_UNITS - 1
         ELSE DFPageOf(u + 1) = DFPageOf(u) /\ OffsetOf(u + 1) = OffsetOf(u) + 1
<1> DEFINE p == DFPageOf(u)
           o == OffsetOf(u)
<1>1. p \in Nat /\ o \in 0..(PAGE_UNITS - 1) /\ u = PAGE_UNITS * p + o BY UnitPlace
<1> HIDE DEF p, o
<1>2. CASE o = PAGE_UNITS - 1
  <2>1. u + 1 = PAGE_UNITS * (p + 1) + 0 BY <1>1, <1>2, FlashSizes
  <2>2. p + 1 \in Nat /\ 0 \in 0..(PAGE_UNITS - 1) BY <1>1, FlashSizes
  <2>3. DFPageOf(u + 1) = p + 1 /\ OffsetOf(u + 1) = 0 BY <2>1, <2>2, PlaceOf
  <2> QED BY <1>2, <2>3 DEF p, o
<1>3. CASE o # PAGE_UNITS - 1
  <2>1. u + 1 = PAGE_UNITS * p + (o + 1) BY <1>1, FlashSizes
  <2>2. o + 1 \in 0..(PAGE_UNITS - 1) /\ o + 1 # 0 BY <1>1, <1>3, FlashSizes
  <2>3. DFPageOf(u + 1) = p /\ OffsetOf(u + 1) = o + 1 BY <1>1, <2>1, <2>2, PlaceOf, FlashSizes
  <2> QED BY <2>2, <2>3 DEF p, o
<1> QED BY <1>2, <1>3

\* A page has one chip and one row.
LEMMA PagePlace ==
  ASSUME NEW p \in Nat
  PROVE  /\ ChipOf(p) \in Chips /\ ChipOf(p) \in Nat /\ RowOf(p) \in Nat
         /\ p = CHIPS * RowOf(p) + ChipOf(p)
<1>1. p % CHIPS \in 0..(CHIPS - 1) /\ p \div CHIPS \in Nat /\ p = CHIPS * (p \div CHIPS) + (p % CHIPS)
  BY FlashSizes, DivMod
<1> QED BY <1>1, FlashSizes DEF ChipOf, RowOf, Chips

LEMMA NextPage ==
  ASSUME NEW p \in Nat
  PROVE  IF ChipOf(p) = CHIPS - 1
         THEN ChipOf(p + 1) = 0 /\ RowOf(p + 1) = RowOf(p) + 1
         ELSE ChipOf(p + 1) = ChipOf(p) + 1
<1> DEFINE r == RowOf(p)
           c == ChipOf(p)
<1>1. r \in Nat /\ c \in 0..(CHIPS - 1) /\ p = CHIPS * r + c BY PagePlace DEF Chips
<1> HIDE DEF r, c
<1>2. ASSUME NEW n, NEW q \in Nat, NEW x \in 0..(CHIPS - 1), n = CHIPS * q + x
      PROVE  ChipOf(n) = x /\ RowOf(n) = q
  BY <1>2, FlashSizes, DivModOf DEF ChipOf, RowOf
<1>3. CASE c = CHIPS - 1
  <2>1. p + 1 = CHIPS * (r + 1) + 0 BY <1>1, <1>3, FlashSizes
  <2>2. r + 1 \in Nat /\ 0 \in 0..(CHIPS - 1) BY <1>1, FlashSizes
  <2>3. ChipOf(p + 1) = 0 /\ RowOf(p + 1) = r + 1 BY <1>2, <2>1, <2>2
  <2> QED BY <1>3, <2>3 DEF r, c
<1>4. CASE c # CHIPS - 1
  <2>1. p + 1 = CHIPS * r + (c + 1) BY <1>1, FlashSizes
  <2>2. c + 1 \in 0..(CHIPS - 1) BY <1>1, <1>4, FlashSizes
  <2>3. ChipOf(p + 1) = c + 1 BY <1>1, <1>2, <2>1, <2>2, FlashSizes
  <2> QED BY <1>4, <2>3 DEF r, c
<1> QED BY <1>3, <1>4

LEMMA RowOrder ==
  ASSUME NEW p \in Nat, NEW q \in Nat, p <= q
  PROVE  RowOf(p) <= RowOf(q)
<1> DEFINE r == RowOf(p)
           s == RowOf(q)
<1>1. /\ r \in Nat /\ s \in Nat /\ p = CHIPS * r + ChipOf(p) /\ ChipOf(p) \in Nat
      /\ q = CHIPS * s + ChipOf(q) /\ ChipOf(q) \in 0..(CHIPS - 1)
  BY PagePlace DEF Chips
<1> HIDE DEF r, s
<1>2. SUFFICES ASSUME s < r PROVE FALSE BY <1>1 DEF r, s
<1>3. CHIPS * (s + 1) <= CHIPS * r BY <1>1, <1>2, FlashSizes
<1> QED BY <1>1, <1>3, FlashSizes

\* In a row every page but the last is on a chip before the last.
LEMMA RowsOfPages ==
  ASSUME NEW p \in Nat, NEW q \in Nat, NEW n \in Nat, RowOf(p) = RowOf(n), p <= q, q < n
  PROVE  ChipOf(q) # CHIPS - 1
<1>1. RowOf(p) <= RowOf(q) BY RowOrder
<1>2. RowOf(q + 1) <= RowOf(n) BY RowOrder
<1>3. RowOf(p) \in Nat /\ RowOf(q) \in Nat /\ RowOf(n) \in Nat BY PagePlace
<1>4. ChipOf(q) = CHIPS - 1 => RowOf(q + 1) = RowOf(q) + 1 BY NextPage
<1> QED BY <1>1, <1>2, <1>3, <1>4

\* Where a unit of the memory is stored.
LEMMA UnitStored ==
  ASSUME NEW u \in FlashUnits
  PROVE  /\ DFPageOf(u) \in Nat /\ ChipOf(DFPageOf(u)) \in Chips /\ RowOf(DFPageOf(u)) \in Rows
         /\ OffsetOf(u) \in 0..(PAGE_UNITS - 1)
<1> DEFINE p == DFPageOf(u)
           r == RowOf(p)
           o == OffsetOf(u)
           c == ChipOf(p)
<1>1. u \in Nat /\ u < FLASH_UNITS BY FlashSizes DEF FlashUnits
<1>2. p \in Nat /\ o \in 0..(PAGE_UNITS - 1) /\ u = PAGE_UNITS * p + o BY <1>1, UnitPlace
<1>3. c \in Chips /\ r \in Nat /\ c \in Nat /\ p = CHIPS * r + c BY <1>2, PagePlace
<1> HIDE DEF p, r, o, c
<1>4. r < ROWS
  <2> SUFFICES ASSUME r >= ROWS PROVE FALSE BY <1>3, FlashSizes
  <2>1. CHIPS * ROWS <= CHIPS * r BY <1>3, FlashSizes
  <2>2. CHIPS * ROWS <= p BY <1>3, <2>1, FlashSizes
  <2>3. PAGE_UNITS * (CHIPS * ROWS) <= PAGE_UNITS * p BY <1>2, <2>2, FlashSizes
  <2>4. FLASH_UNITS = PAGE_UNITS * (CHIPS * ROWS) BY FlashSizes DEF FLASH_UNITS
  <2> QED BY <1>1, <1>2, <2>3, <2>4, FlashSizes
<1> QED BY <1>2, <1>3, <1>4, FlashSizes DEF p, r, o, c, Rows

\* Where pages are not longer than blocks, blocks are whole pages.
LEMMA WholePages ==
  ASSUME PAGE_UNITS <= BLOCK_UNITS, NEW k \in Nat
  PROVE  OffsetOf(k * BLOCK_UNITS) = 0
<1>1. PICK q \in Nat : BLOCK_UNITS = PAGE_UNITS * q
  <2>1. CASE BLOCK_UNITS % PAGE_UNITS = 0
    <3> DEFINE d == BLOCK_UNITS \div PAGE_UNITS
    <3>1. d \in Nat /\ BLOCK_UNITS = PAGE_UNITS * d BY <2>1, FlashSizes, DivMod
    <3> QED BY <3>1
  <2>2. CASE PAGE_UNITS % BLOCK_UNITS = 0
    <3> DEFINE d == PAGE_UNITS \div BLOCK_UNITS
    <3>1. d \in Nat /\ PAGE_UNITS = BLOCK_UNITS * d BY <2>2, FlashSizes, DivMod
    <3> HIDE DEF d
    <3>2. d # 0 BY <3>1, FlashSizes
    <3>3. BLOCK_UNITS <= PAGE_UNITS BY <3>1, <3>2, FlashSizes
    <3>4. BLOCK_UNITS = PAGE_UNITS * 1 BY <3>3, FlashSizes
    <3> QED BY <3>4
  <2> QED BY <2>1, <2>2, DataflashConstants
<1>2. k * BLOCK_UNITS = PAGE_UNITS * (k * q) + 0 BY <1>1, FlashSizes
<1>3. k * q \in Nat /\ 0 \in 0..(PAGE_UNITS - 1) BY <1>1, FlashSizes
<1> QED BY <1>2, <1>3, PlaceOf

\* A command that begins a page and ends with one, or a page further, writes
\* the whole of it.
LEMMA WholePage ==
  ASSUME NEW from \in Nat, NEW to \in Nat, from < to, OffsetOf(from) = 0,
         OffsetOf(to) = 0 \/ to >= from + PAGE_UNITS,
         NEW u \in Nat, DFPageOf(u) = DFPageOf(from)
  PROVE  from <= u /\ u < to
<1> DEFINE p == PAGE_UNITS * DFPageOf(from)
           q == PAGE_UNITS * DFPageOf(to)
<1>1. /\ u = p + OffsetOf(u) /\ OffsetOf(u) \in 0..(PAGE_UNITS - 1) /\ from = p + 0
  BY UnitPlace
<1>2. from <= u /\ u < from + PAGE_UNITS
  <2>0. DFPageOf(from) \in Nat BY UnitPlace
  <2>1. p \in Nat BY <2>0, FlashSizes
  <2> HIDE DEF p
  <2> QED BY <1>1, <2>1, FlashSizes
<1>3. CASE OffsetOf(to) = 0
  <2>1. SUFFICES ASSUME to <= u PROVE FALSE BY <1>2, FlashSizes
  <2>2. DFPageOf(from) <= DFPageOf(to) /\ DFPageOf(to) <= DFPageOf(u) BY <2>1, PageOrder
  <2>3. DFPageOf(from) \in Nat /\ DFPageOf(to) \in Nat BY UnitPlace
  <2>4. DFPageOf(to) = DFPageOf(from) BY <2>2, <2>3
  <2>5. to = p + 0 BY <1>3, <2>4, UnitPlace
  <2> QED BY <1>1, <2>5
<1> QED BY <1>2, <1>3, FlashSizes

-----------------------------------------------------------------------------
\* The invariant.

\* The page at hand: it is in the memory, and what the command has passed lies
\* in it or before it.
LEMMA Current ==
  ASSUME FlashInv, Writing
  PROVE  /\ unit \in Nat /\ goal \in FlashUnits /\ Page \in Nat
         /\ ChipOf(Page) \in Chips /\ RowOf(Page) \in Rows /\ ChipOf(Page) \in Nat
         /\ Page <= DFPageOf(goal)
         /\ IF atEnd THEN DFPageOf(unit) = Page + 1 ELSE DFPageOf(unit) = Page
         /\ \A u \in FlashUnits : u < unit => DFPageOf(u) <= Page
<1>1. unit \in Nat /\ unitsLeft \in Nat /\ goal \in FlashUnits /\ goal \in Nat
  BY DEF FlashInv, FlashTypeOK, FlashUnits
<1>2. unit + unitsLeft = goal + 1 BY DEF FlashInv, Counted, Writing, Filling
<1>3. DFPageOf(unit) \in Nat BY <1>1, UnitPlace
<1>4. CASE atEnd
  <2>1. unit > 0 /\ OffsetOf(unit) = 0 BY <1>4 DEF FlashInv, Counted
  <2>2. unit - 1 \in FlashUnits /\ unit - 1 <= goal /\ unit - 1 \in Nat
    BY <1>1, <1>2, <2>1, FlashSizes DEF FlashUnits
  <2> DEFINE v == unit - 1
  <2>3. v + 1 = unit /\ v \in Nat BY <1>1, <2>2
  <2> HIDE DEF v
  <2>4. DFPageOf(unit) = DFPageOf(v) + 1 BY <2>1, <2>3, NextUnit
  <2>5. DFPageOf(v) \in Nat /\ Page = DFPageOf(v) BY <1>4, <2>3, <2>4, UnitPlace DEF Page
  <2>6. v \in FlashUnits /\ v <= goal BY <2>2 DEF v
  <2>7. \A u \in FlashUnits : u < unit => u \in Nat /\ u <= v BY <1>1, <2>3 DEF FlashUnits
  <2>8. \A u \in FlashUnits : u < unit => DFPageOf(u) <= Page BY <2>3, <2>5, <2>7, PageOrder
  <2>9. Page <= DFPageOf(goal) BY <1>1, <2>3, <2>5, <2>6, PageOrder
  <2>10. ChipOf(Page) \in Chips /\ RowOf(Page) \in Rows BY <2>5, <2>6, UnitStored
  <2>11. ChipOf(Page) \in Nat BY <2>5, PagePlace
  <2> QED BY <1>1, <1>4, <2>4, <2>5, <2>8, <2>9, <2>10, <2>11
<1>5. CASE ~atEnd
  <2>1. Page = DFPageOf(unit) /\ Page \in Nat BY <1>3, <1>5 DEF Page
  <2>2. PICK v \in FlashUnits : v <= goal /\ DFPageOf(v) = Page
    <3>1. CASE unitsLeft > 0
      <4>1. unit \in FlashUnits /\ unit <= goal BY <1>1, <1>2, <3>1, FlashSizes DEF FlashUnits
      <4> QED BY <4>1, <2>1
    <3>2. CASE unitsLeft = 0
      <4>1. op \in {"last", "settle"} BY <1>1, <3>2 DEF FlashInv, Counted, Writing, Filling
      <4>2. OffsetOf(unit) # 0 BY <1>5, <4>1 DEF FlashInv, Counted
      <4>3. unit = goal + 1 BY <1>1, <1>2, <3>2
      <4>4. DFPageOf(unit) = DFPageOf(goal) BY <1>1, <4>2, <4>3, NextUnit
      <4> QED BY <1>1, <2>1, <4>4
    <3> QED BY <1>1, <3>1, <3>2
  <2>3. v \in Nat BY DEF FlashUnits
  <2>4. \A u \in FlashUnits : u < unit => DFPageOf(u) <= Page BY <1>1, <2>1, PageOrder DEF FlashUnits
  <2>5. Page <= DFPageOf(goal) BY <1>1, <2>2, <2>3, PageOrder
  <2>6. ChipOf(Page) \in Chips /\ RowOf(Page) \in Rows BY <2>2, UnitStored
  <2>7. ChipOf(Page) \in Nat BY <2>1, PagePlace
  <2> QED BY <1>1, <1>5, <2>1, <2>4, <2>5, <2>6, <2>7
<1>6. atEnd \in BOOLEAN BY DEF FlashInv, FlashTypeOK
<1> QED BY <1>4, <1>5, <1>6

LEMMA InvInit == FlashInit => FlashInv
<1> SUFFICES ASSUME FlashInit PROVE FlashInv OBVIOUS
<1> USE DEF FlashInit
<1>1. 0 \in FlashUnits /\ 0 \in 0..FLASH_UNITS
  <2>1. ROWS * CHIPS > 0 BY FlashSizes
  <2>2. FLASH_UNITS > 0
    <3> DEFINE n == ROWS * CHIPS
    <3>1. n \in Nat /\ n > 0 BY <2>1, FlashSizes
    <3>2. FLASH_UNITS = n * PAGE_UNITS BY FlashSizes DEF FLASH_UNITS
    <3> HIDE DEF n
    <3> QED BY <3>1, <3>2, FlashSizes
  <2> QED BY <2>2, FlashSizes DEF FlashUnits
<1>2. \A r \in Rows, c \in Chips, o \in 0..(PAGE_UNITS - 1) : (r * CHIPS + c) * PAGE_UNITS + o \in FlashUnits
  <2> TAKE r \in Rows, c \in Chips, o \in 0..(PAGE_UNITS - 1)
  <2> DEFINE p == r * CHIPS + c
             n == ROWS * CHIPS
  <2>1. r \in Nat /\ r + 1 <= ROWS /\ c \in Nat /\ c + 1 <= CHIPS BY FlashSizes DEF Rows, Chips
  <2>2. (r + 1) * CHIPS <= ROWS * CHIPS BY <2>1, FlashSizes
  <2> DEFINE m == r * CHIPS
  <2>3. (r + 1) * CHIPS = m + CHIPS /\ m \in Nat /\ n \in Nat BY <2>1, FlashSizes
  <2>10. p = m + c /\ m + CHIPS <= n BY <2>2, <2>3
  <2> HIDE DEF m, n, p
  <2>8. p \in Nat /\ n \in Nat /\ p + 1 <= n BY <2>1, <2>3, <2>10, FlashSizes
  <2>4. FLASH_UNITS = n * PAGE_UNITS BY FlashSizes DEF FLASH_UNITS, n
  <2>5. (p + 1) * PAGE_UNITS <= n * PAGE_UNITS BY <2>8, FlashSizes
  <2>9. (p + 1) * PAGE_UNITS = p * PAGE_UNITS + PAGE_UNITS /\ p * PAGE_UNITS \in Nat BY <2>8, FlashSizes
  <2>6. p * PAGE_UNITS + o \in FlashUnits BY <2>4, <2>5, <2>9, FlashSizes DEF FlashUnits
  <2> QED BY <2>6 DEF p
<1>3. mainMem \in [Chips -> [Rows -> PageContents]]
  <2>1. \A c \in Chips, row \in Rows :
          [o \in 0..(PAGE_UNITS - 1) |-> <<0, (row * CHIPS + c) * PAGE_UNITS + o>>] \in PageContents
    <3> TAKE c \in Chips, row \in Rows
    <3> DEFINE place(o) == (row * CHIPS + c) * PAGE_UNITS + o
    <3>1. \A o \in 0..(PAGE_UNITS - 1) : place(o) \in FlashUnits BY <1>2
    <3> HIDE DEF place
    <3>2. [o \in 0..(PAGE_UNITS - 1) |-> <<0, place(o)>>] \in PageContents BY <3>1, FlashSizes DEF PageContents
    <3> QED BY <3>2 DEF place
  <2> QED BY <2>1
<1>4. FlashTypeOK
  <2>1. [o \in 0..(PAGE_UNITS - 1) |-> <<0, 0>>] \in PageContents BY <1>1, FlashSizes DEF PageContents
  <2>2. pageBuf \in [Chips -> [1..2 -> PageContents]] BY <2>1
  <2>3. programming \in [Chips -> {<<>>} \cup ((1..2) \X Rows)] OBVIOUS
  <2>4. allowed \in [FlashUnits -> SUBSET ((0..writes) \X FlashUnits)] OBVIOUS
  <2>5. got \in {<<>>} \cup (FlashUnits \X ((0..MaxWrites) \X FlashUnits)) OBVIOUS
  <2>6. {ram, atEnd, UsingSecondBuffer} \subseteq BOOLEAN OBVIOUS
  <2>7. /\ unit \in 0..FLASH_UNITS /\ unitsLeft \in 0..FLASH_UNITS /\ goal \in FlashUnits
        /\ writeBuf \in 1..2 /\ writes \in 0..MaxWrites /\ op = "idle"
    BY <1>1, FlashSizes
  <2> QED BY <1>3, <2>2, <2>3, <2>4, <2>5, <2>6, <2>7 DEF FlashTypeOK
<1>5. \A u \in FlashUnits : Stored(u) = <<0, u>>
  <2> TAKE u \in FlashUnits
  <2>1. /\ DFPageOf(u) \in Nat /\ ChipOf(DFPageOf(u)) \in Chips /\ RowOf(DFPageOf(u)) \in Rows
        /\ OffsetOf(u) \in 0..(PAGE_UNITS - 1) /\ u \in Nat
    BY UnitStored DEF FlashUnits
  <2>2. Stored(u) = <<0, (RowOf(DFPageOf(u)) * CHIPS + ChipOf(DFPageOf(u))) * PAGE_UNITS + OffsetOf(u)>>
    BY <2>1 DEF Stored, Rows
  <2>3. DFPageOf(u) = CHIPS * RowOf(DFPageOf(u)) + ChipOf(DFPageOf(u)) BY <2>1, PagePlace
  <2>4. RowOf(DFPageOf(u)) \in Nat /\ ChipOf(DFPageOf(u)) \in Nat BY <2>1, PagePlace
  <2>5. DFPageOf(u) = RowOf(DFPageOf(u)) * CHIPS + ChipOf(DFPageOf(u)) BY <2>3, <2>4, FlashSizes
  <2>6. u = PAGE_UNITS * DFPageOf(u) + OffsetOf(u) BY <2>1, UnitPlace
  <2>7. u = DFPageOf(u) * PAGE_UNITS + OffsetOf(u) BY <2>1, <2>6, FlashSizes
  <2> QED BY <2>2, <2>5, <2>7
<1>6. BlocksKept BY <1>5 DEF BlocksKept
<1>7. Counted /\ OneRow /\ InTurn /\ BufferGood /\ Done /\ ReadsReturnWrites
  BY DEF Counted, OneRow, InTurn, BufferGood, Done, ReadsReturnWrites, Writing, Filling
<1> QED BY <1>4, <1>6, <1>7 DEF FlashInv

\* A chip that is done holds what it was to hold.
LEMMA ChipDoneKeeps ==
  ASSUME FlashInv, NEW c \in Chips, ChipDone(c)
  PROVE  FlashInv'
<1> DEFINE b == programming[c][1]
           r == programming[c][2]
<1> USE DEF ChipDone, opVars
<1>1. /\ programming \in [Chips -> {<<>>} \cup ((1..2) \X Rows)]
      /\ mainMem \in [Chips -> [Rows -> PageContents]] /\ pageBuf \in [Chips -> [1..2 -> PageContents]]
  BY DEF FlashInv, FlashTypeOK
<1>2. b \in 1..2 /\ r \in Rows BY <1>1
<1>3. \A d \in Chips : programming'[d] = IF d = c THEN <<>> ELSE programming[d] BY <1>1
<1>4. \A d \in Chips, q \in Rows :
        mainMem'[d][q] = IF d = c /\ q = r THEN pageBuf[c][b] ELSE mainMem[d][q] BY <1>1, <1>2
<1>5. FlashTypeOK' BY <1>1, <1>2 DEF FlashInv, FlashTypeOK
<1>6. \A u \in FlashUnits : Stored(u)' = Stored(u)
  <2> TAKE u \in FlashUnits
  <2>1. ChipOf(DFPageOf(u)) \in Chips /\ RowOf(DFPageOf(u)) \in Rows BY UnitStored
  <2>2. CASE ChipOf(DFPageOf(u)) = c /\ RowOf(DFPageOf(u)) = r
    BY <1>3, <1>4, <2>1, <2>2 DEF Stored
  <2>3. CASE ~(ChipOf(DFPageOf(u)) = c /\ RowOf(DFPageOf(u)) = r)
    BY <1>3, <1>4, <2>1, <2>3 DEF Stored
  <2> QED BY <2>2, <2>3
<1>7. Page' = Page /\ Buffer' = Buffer /\ Other' = Other /\ (Filling' <=> Filling) /\ (Writing' <=> Writing)
  BY DEF Page, Buffer, Other, Filling, Writing
<1>8. \A u \in FlashUnits : (Ours(u)' <=> Ours(u)) /\ (Buffered(u)' <=> Buffered(u))
  BY <1>7 DEF Ours, Buffered
<1>9. Counted' BY <1>3, <1>7 DEF FlashInv, Counted
<1>10. OneRow' BY <1>7 DEF FlashInv, OneRow
<1>11. InTurn' BY <1>3, <1>7 DEF FlashInv, InTurn
<1>12. BufferGood' BY <1>7, <1>8 DEF FlashInv, BufferGood
<1>13. Done'
  <2>1. unit..goal \subseteq FlashUnits BY FlashSizes DEF FlashInv, FlashTypeOK, FlashUnits
  <2> QED BY <2>1, <1>6, <1>7, <1>8 DEF FlashInv, Done
<1>14. BlocksKept' /\ ReadsReturnWrites' BY <1>6 DEF FlashInv, BlocksKept, ReadsReturnWrites
<1> QED BY <1>5, <1>9, <1>10, <1>11, <1>12, <1>13, <1>14 DEF FlashInv

\* The end of a page: it will be programmed from the buffer that was filled.
LEMMA PageEndKeeps == FlashInv /\ PageEnd => FlashInv'
<1> SUFFICES ASSUME FlashInv, PageEnd PROVE FlashInv' OBVIOUS
<1> DEFINE c == ChipOf(Page)
           r == RowOf(Page)
<1>1. /\ op = "write" /\ atEnd /\ unitsLeft > 0 /\ programming[c] = <<>>
      /\ programming' = [programming EXCEPT ![c] = <<Buffer, r>>] /\ atEnd' = FALSE
      /\ op' \in {"write", "copyTail"}
      /\ op' = "write" => PAGE_UNITS <= BLOCK_UNITS \/ unitsLeft >= PAGE_UNITS
      /\ UNCHANGED <<mainMem, pageBuf, ram, unit, unitsLeft, goal, writes, allowed, got>>
  BY FlashSizes DEF PageEnd, Ready, WriteBack, Buffer, FlashInv, FlashTypeOK
<1>2. Filling /\ Writing /\ Filling' /\ Writing' BY <1>1 DEF Filling, Writing
<1>3. /\ unit \in Nat /\ goal \in FlashUnits /\ goal \in Nat /\ Page \in Nat /\ unitsLeft \in Nat
      /\ c \in Chips /\ r \in Rows /\ DFPageOf(unit) = Page + 1
  BY <1>1, <1>2, Current DEF FlashUnits, FlashInv, FlashTypeOK
<1>4. unit + unitsLeft = goal + 1 /\ unit <= goal /\ OffsetOf(unit) = 0
  BY <1>1, <1>3 DEF FlashInv, Counted
<1>5. Page' = Page + 1 BY <1>1, <1>3 DEF Page
<1>6. Page + 1 <= DFPageOf(goal) /\ DFPageOf(goal) \in Nat BY <1>3, <1>4, PageOrder, UnitPlace
<1>7. /\ programming \in [Chips -> {<<>>} \cup ((1..2) \X Rows)] /\ ram \in BOOLEAN
      /\ UsingSecondBuffer \in BOOLEAN
  BY DEF FlashInv, FlashTypeOK
<1>8. UsingSecondBuffer' = IF c = CHIPS - 1 THEN ~UsingSecondBuffer ELSE UsingSecondBuffer
  BY DEF PageEnd, NextBuffer
<1>9. IF c = CHIPS - 1 THEN ChipOf(Page') = 0 /\ Buffer' = Other /\ Other' = Buffer
                       ELSE ChipOf(Page') = c + 1 /\ Buffer' = Buffer /\ Other' = Other
  BY <1>3, <1>5, <1>7, <1>8, NextPage DEF Buffer, Other
<1>10. \A d \in Chips : programming'[d] = IF d = c THEN <<Buffer, r>> ELSE programming[d]
  BY <1>1, <1>7
<1>11. ram => ~UsingSecondBuffer'
  <2>1. ram => ~UsingSecondBuffer /\ c # CHIPS - 1 BY <1>2, <1>3, <1>6 DEF FlashInv, OneRow
  <2> QED BY <1>8, <2>1
<1>12. writeBuf' = Buffer'
  BY <1>7, <1>8, <1>11 DEF PageEnd, WriteCommand, NextBuffer, Buffer
<1>13. \A u \in FlashUnits :
         Stored(u)' = IF DFPageOf(u) = Page THEN pageBuf[c][Buffer][OffsetOf(u)] ELSE Stored(u)
  <2> TAKE u \in FlashUnits
  <2> DEFINE q == DFPageOf(u)
  <2>1. q \in Nat /\ ChipOf(q) \in Chips /\ RowOf(q) \in Rows BY UnitStored
  <2>2. ChipOf(q) = c /\ RowOf(q) = r => q = Page BY <1>3, <2>1, PagePlace
  <2> HIDE DEF q
  <2>3. CASE q = Page
    <3>1. ChipOf(q) = c /\ RowOf(q) = r /\ programming'[c] = <<Buffer, r>> BY <1>3, <1>10, <2>3
    <3>2. Stored(u)' = pageBuf'[c][Buffer][OffsetOf(u)] BY <3>1 DEF Stored, q
    <3> QED BY <1>1, <2>3, <3>2 DEF q
  <2>4. CASE q # Page /\ ChipOf(q) = c BY <1>1, <1>10, <2>1, <2>2, <2>4 DEF Stored, q
  <2>5. CASE q # Page /\ ChipOf(q) # c BY <1>1, <1>10, <2>1, <2>5 DEF Stored, q
  <2> QED BY <2>3, <2>4, <2>5 DEF q
<1>14. \A u \in FlashUnits : DFPageOf(u) = Page => Buffered(u)
  <2> TAKE u \in FlashUnits
  <2>1. SUFFICES ASSUME DFPageOf(u) = Page PROVE u \notin unit..goal
    BY <1>1, <2>1 DEF FlashInv, BufferGood
  <2>2. u \in Nat BY DEF FlashUnits
  <2>3. unit <= u => Page + 1 <= Page BY <1>3, <2>1, <2>2, PageOrder
  <2> QED BY <1>3, <2>2, <2>3
<1>15. \A u \in FlashUnits : Ours(u)' <=> Ours(u) BY <1>1 DEF Ours
<1>16. FlashTypeOK'
  <2>1. UsingSecondBuffer' \in BOOLEAN BY <1>7, <1>8
  <2>3. Buffer \in 1..2 /\ Buffer' \in 1..2 BY DEF Buffer
  <2>2. programming' \in [Chips -> {<<>>} \cup ((1..2) \X Rows)] BY <1>1, <1>3, <1>7, <2>3
  <2>4. {ram', atEnd', UsingSecondBuffer'} \subseteq BOOLEAN BY <1>1, <1>7, <2>1
  <2> QED BY <1>1, <1>12, <2>2, <2>3, <2>4 DEF FlashInv, FlashTypeOK
<1>17. Counted' BY <1>1, <1>2, <1>4 DEF FlashInv, Counted
<1>18. OneRow' BY <1>1, <1>2, <1>3, <1>5, <1>6, <1>11 DEF FlashInv, OneRow
<1>19. InTurn'
  <2> SUFFICES ASSUME NEW d \in Chips, programming'[d] # <<>>
               PROVE  /\ programming'[d][1] = IF d < ChipOf(Page') THEN Buffer' ELSE Other'
                      /\ CHIPS * programming'[d][2] + d < Page'
    BY DEF InTurn
  <2>1. d \in 0..(CHIPS - 1) /\ c \in 0..(CHIPS - 1) BY <1>3 DEF Chips
  <2>2. CASE d = c
    <3>1. programming'[d] = <<Buffer, r>> BY <1>10, <2>2
    <3>2. CHIPS * r + c = Page BY <1>3, PagePlace
    <3> HIDE DEF c, r
    <3> QED BY <1>3, <1>5, <1>9, <2>1, <2>2, <3>1, <3>2, FlashSizes
  <2>3. CASE d # c
    <3>1. /\ programming[d] # <<>> /\ programming'[d] = programming[d]
          /\ programming[d][1] = IF d < c THEN Buffer ELSE Other
          /\ CHIPS * programming[d][2] + d < Page
      BY <1>2, <1>10, <2>3 DEF FlashInv, InTurn
    <3>2. programming[d][2] \in Nat BY <1>7, <3>1 DEF Rows
    <3>3. CHIPS * programming[d][2] + d \in Nat
      <4>1. CHIPS \in Nat /\ d \in Nat BY <2>1, FlashSizes
      <4>2. \A m, n \in Nat : m * n + d \in Nat BY ONLY <4>1
      <4> QED BY ONLY <3>2, <4>1, <4>2
    <3>4. CHIPS * programming'[d][2] + d < Page' BY <1>3, <1>5, <3>1, <3>3
    <3> HIDE DEF c, r
    <3> QED BY <1>9, <2>1, <2>3, <3>1, <3>4, FlashSizes
  <2> QED BY <2>2, <2>3
<1>20. BufferGood'
  <2>1. SUFFICES ASSUME op' = "write", NEW u \in FlashUnits, DFPageOf(u) = Page', u \notin unit..goal
                 PROVE  FALSE
    BY <1>1, <1>12 DEF BufferGood
  <2>2. OffsetOf(goal + 1) = 0 \/ goal + 1 >= unit + PAGE_UNITS
    BY <1>1, <1>2, <1>3, <1>4, <2>1, FlashSizes DEF FlashInv, Counted
  <2>3. u \in Nat /\ goal + 1 \in Nat /\ unit < goal + 1 BY <1>3, <1>4 DEF FlashUnits
  <2>4. unit <= u /\ u < goal + 1 BY <1>3, <1>4, <1>5, <2>1, <2>2, <2>3, WholePage
  <2> QED BY <1>3, <2>1, <2>3, <2>4
<1>21. Done'
  <2>1. \A u \in unit..goal : u \in FlashUnits BY <1>3, FlashSizes DEF FlashUnits
  <2>2. \A u \in FlashUnits : Ours(u) /\ DFPageOf(u) < Page' => Stored(u)' = <<writes, u>>
    <3> TAKE u \in FlashUnits
    <3>1. DFPageOf(u) \in Nat BY UnitStored
    <3>2. CASE DFPageOf(u) < Page BY <1>2, <1>3, <1>13, <3>1, <3>2 DEF FlashInv, Done
    <3>3. CASE DFPageOf(u) = Page BY <1>13, <1>14, <3>3 DEF Buffered
    <3> QED BY <1>3, <1>5, <3>1, <3>2, <3>3
  <2> QED BY <1>1, <1>2, <1>15, <2>1, <2>2 DEF FlashInv, Done
<1>22. BlocksKept' BY <1>1, <1>13, <1>14 DEF FlashInv, BlocksKept, Buffered
<1>23. ReadsReturnWrites' BY <1>1 DEF FlashInv, ReadsReturnWrites
<1> QED BY <1>16, <1>17, <1>18, <1>19, <1>20, <1>21, <1>22, <1>23 DEF FlashInv

\* The page a command ends in is fetched before its head is written over.
LEMMA CopyTailKeeps == FlashInv /\ CopyTail => FlashInv'
<1> SUFFICES ASSUME FlashInv, CopyTail PROVE FlashInv' OBVIOUS
<1> DEFINE c == ChipOf(Page)
           r == RowOf(Page)
<1>1. /\ op = "copyTail" /\ op' = "write" /\ programming[c] = <<>>
      /\ pageBuf' = [pageBuf EXCEPT ![c][Buffer] = mainMem[c][r]]
      /\ UNCHANGED <<mainMem, programming, ram, unit, atEnd, unitsLeft, writeBuf,
                     UsingSecondBuffer, goal, writes, allowed, got>>
  BY DEF CopyTail, Ready, CopyToBuffer, Buffer
<1>2. Filling /\ Writing /\ Filling' /\ Writing' BY <1>1 DEF Filling, Writing
<1>3. ~atEnd /\ OffsetOf(unit) = 0 BY <1>1 DEF FlashInv, Counted
<1>4. /\ unit \in Nat /\ goal \in FlashUnits /\ Page \in Nat
      /\ c \in Chips /\ r \in Rows /\ DFPageOf(unit) = Page
  BY <1>2, <1>3, Current
<1>5. Page' = Page /\ Buffer' = Buffer /\ Other' = Other BY <1>1 DEF Page, Buffer, Other
<1>6. /\ pageBuf \in [Chips -> [1..2 -> PageContents]] /\ Buffer \in 1..2
      /\ mainMem \in [Chips -> [Rows -> PageContents]]
  BY DEF FlashInv, FlashTypeOK, Buffer
<1>7. pageBuf'[c][Buffer] = mainMem[c][r] /\ \A d \in Chips : d # c => pageBuf'[d] = pageBuf[d]
  BY <1>1, <1>4, <1>6
<1>8. \A u \in FlashUnits : Stored(u)' = Stored(u)
  BY <1>1, <1>7, UnitStored DEF Stored
<1>9. \A u \in FlashUnits : Ours(u)' <=> Ours(u) BY <1>1 DEF Ours
<1>10. pageBuf' \in [Chips -> [1..2 -> PageContents]] BY <1>1, <1>4, <1>6
<1>11. FlashTypeOK' BY <1>1, <1>10 DEF FlashInv, FlashTypeOK
<1>12. Counted' BY <1>1, <1>2, <1>3 DEF FlashInv, Counted
<1>13. OneRow' /\ InTurn' BY <1>1, <1>2, <1>5 DEF FlashInv, OneRow, InTurn
<1>14. BufferGood'
  <2>1. ASSUME NEW u \in FlashUnits, DFPageOf(u) = Page, u \notin unit..goal
        PROVE  Buffered(u)'
    <3>1. pageBuf'[c][Buffer][OffsetOf(u)] = Stored(u) BY <1>1, <1>7, <2>1 DEF Stored
    <3>2. Stored(u) \in allowed[u] BY DEF FlashInv, BlocksKept
    <3>3. ~Ours(u)
      <4>1. SUFFICES ASSUME Ours(u) PROVE FALSE OBVIOUS
      <4>2. u <= goal /\ u \in Nat /\ goal \in Nat
        BY <1>2, <1>4, <4>1 DEF FlashInv, Done, FlashUnits
      <4>3. unit = PAGE_UNITS * Page + 0 BY <1>3, <1>4, UnitPlace
      <4>4. u = PAGE_UNITS * Page + OffsetOf(u) /\ OffsetOf(u) \in Nat BY <2>1, <4>2, UnitPlace
      <4> DEFINE s == PAGE_UNITS * Page
      <4>5. s \in Nat BY <1>4, FlashSizes
      <4> HIDE DEF s
      <4>6. unit <= u BY <4>3, <4>4, <4>5 DEF s
      <4> QED BY <1>4, <2>1, <4>2, <4>6
    <3> QED BY <1>1, <1>5, <1>9, <3>1, <3>2, <3>3 DEF Buffered
  <2> QED BY <1>1, <1>2, <1>5, <2>1 DEF FlashInv, BufferGood
<1>15. Done'
  <2>1. \A u \in unit..goal : u \in FlashUnits BY <1>4, FlashSizes DEF FlashUnits
  <2> QED BY <1>1, <1>2, <1>5, <1>8, <1>9, <2>1 DEF FlashInv, Done
<1>16. BlocksKept' /\ ReadsReturnWrites' BY <1>1, <1>8 DEF FlashInv, BlocksKept, ReadsReturnWrites
<1> QED BY <1>11, <1>12, <1>13, <1>14, <1>15, <1>16 DEF FlashInv

\* A unit goes to the buffer that the chip is not programming.
LEMMA WriteUnitKeeps == FlashInv /\ WriteUnit => FlashInv'
<1> SUFFICES ASSUME FlashInv, WriteUnit PROVE FlashInv' OBVIOUS
<1> DEFINE c == ChipOf(Page)
           o == OffsetOf(unit)
<1>1. /\ op = "write" /\ atEnd = FALSE /\ unitsLeft > 0
      /\ pageBuf' = [pageBuf EXCEPT ![c][writeBuf][o] = <<writes, unit>>]
      /\ unit' = unit + 1 /\ unitsLeft' = unitsLeft - 1
      /\ atEnd' = (OffsetOf(unit + 1) = 0)
      /\ op' = IF unitsLeft' = 0 THEN "last" ELSE "write"
      /\ UNCHANGED <<mainMem, programming, ram, writeBuf, UsingSecondBuffer, goal, writes, allowed, got>>
  BY DEF WriteUnit, CountUnit, FlashInv, FlashTypeOK
<1>2. Filling /\ Writing /\ Filling' /\ Writing' BY <1>1 DEF Filling, Writing
<1>3. /\ unit \in Nat /\ goal \in FlashUnits /\ goal \in Nat /\ Page \in Nat /\ unitsLeft \in Nat
      /\ c \in Chips /\ DFPageOf(unit) = Page /\ writeBuf = Buffer
  BY <1>1, <1>2, Current DEF FlashUnits, FlashInv, FlashTypeOK, BufferGood
<1>4. unit + unitsLeft = goal + 1 /\ unit <= goal /\ unit \in FlashUnits
  BY <1>1, <1>3, FlashSizes DEF FlashInv, Counted, FlashUnits
<1>5. o \in 0..(PAGE_UNITS - 1) BY <1>3, UnitPlace
<1>20. (atEnd' <=> OffsetOf(unit') = 0) /\ unit' = unit + 1 BY <1>1
<1>6. Page' = Page
  <2>1. CASE OffsetOf(unit + 1) = 0
    <3>1. DFPageOf(unit') = Page + 1 BY <1>3, <1>20, <2>1, NextUnit
    <3> QED BY <1>3, <1>20, <2>1, <3>1 DEF Page
  <2>2. CASE OffsetOf(unit + 1) # 0
    <3>1. DFPageOf(unit') = Page BY <1>3, <1>20, <2>2, NextUnit
    <3> QED BY <1>20, <2>2, <3>1 DEF Page
  <2> QED BY <2>1, <2>2
<1>7. Buffer' = Buffer /\ Other' = Other /\ Buffer # Other /\ Buffer \in 1..2
  BY <1>1 DEF Buffer, Other
<1>8. /\ pageBuf \in [Chips -> [1..2 -> PageContents]] /\ writes \in 0..MaxWrites
  BY DEF FlashInv, FlashTypeOK
<1>9. /\ pageBuf'[c][Buffer] = [pageBuf[c][Buffer] EXCEPT ![o] = <<writes, unit>>]
      /\ \A d \in Chips, b \in 1..2 : d # c \/ b # Buffer => pageBuf'[d][b] = pageBuf[d][b]
  BY <1>1, <1>3, <1>7, <1>8
<1>10. pageBuf[c][Buffer] \in PageContents BY <1>3, <1>7, <1>8
<1>11. pageBuf' \in [Chips -> [1..2 -> PageContents]]
  <2>1. [pageBuf[c][Buffer] EXCEPT ![o] = <<writes, unit>>] \in PageContents
    BY <1>4, <1>5, <1>8, <1>10 DEF PageContents
  <2> HIDE DEF c, o
  <2>2. pageBuf' = [pageBuf EXCEPT ![c] = [pageBuf[c] EXCEPT ![Buffer] =
                                             [pageBuf[c][Buffer] EXCEPT ![o] = <<writes, unit>>]]]
    BY <1>1, <1>3
  <2> QED BY <1>3, <1>7, <1>8, <2>1, <2>2
<1>12. \A u \in FlashUnits : Stored(u)' = Stored(u)
  <2> TAKE u \in FlashUnits
  <2> DEFINE d == ChipOf(DFPageOf(u))
  <2>1. d \in Chips /\ d \in Nat BY UnitStored, PagePlace
  <2>2. programming[d] \in {<<>>} \cup ((1..2) \X Rows) BY <2>1 DEF FlashInv, FlashTypeOK
  <2>3. programming[d] # <<>> => programming[d][1] \in 1..2 BY <2>2
  <2>4. programming[d] # <<>> /\ d = c => programming[d][1] = Other
    BY <1>2, <2>1 DEF FlashInv, InTurn
  <2>5. programming[d] # <<>> => pageBuf'[d][programming[d][1]] = pageBuf[d][programming[d][1]]
    BY <1>7, <1>9, <2>1, <2>3, <2>4
  <2> QED BY <1>1, <2>5 DEF Stored
<1>13. \A u \in FlashUnits : Ours(u)' <=> Ours(u) BY <1>1 DEF Ours
<1>14. FlashTypeOK'
  <2>1. unit' \in 0..FLASH_UNITS /\ unitsLeft' \in 0..FLASH_UNITS
    BY <1>1, <1>3, <1>4, FlashSizes DEF FlashUnits, FlashInv, FlashTypeOK
  <2>2. {ram', atEnd', UsingSecondBuffer'} \subseteq BOOLEAN BY <1>1 DEF FlashInv, FlashTypeOK
  <2> QED BY <1>1, <1>11, <2>1, <2>2 DEF FlashInv, FlashTypeOK
<1>15. Counted'
  <2>1. unit' + unitsLeft' = goal + 1 /\ unit' > 0 /\ unitsLeft' \in Nat BY <1>1, <1>3, <1>4
  <2>2. op' \in {"last", "write"} /\ (op' = "last" <=> unitsLeft' = 0) BY <1>1
  <2>3. got = <<>> /\ (PAGE_UNITS <= BLOCK_UNITS => OffsetOf(goal + 1) = 0)
    BY <1>2 DEF FlashInv, Counted
  <2>4. got' = got /\ goal' = goal BY <1>1
  <2> QED BY <1>20, <2>1, <2>2, <2>3, <2>4 DEF Counted
<1>16. OneRow' /\ InTurn' BY <1>1, <1>2, <1>6, <1>7 DEF FlashInv, OneRow, InTurn
<1>17. BufferGood'
  <2>1. ASSUME NEW u \in FlashUnits, DFPageOf(u) = Page, u \notin (unit + 1)..goal
        PROVE  Buffered(u)'
    <3>1. u \in Nat /\ u = PAGE_UNITS * Page + OffsetOf(u) /\ OffsetOf(u) \in 0..(PAGE_UNITS - 1)
      BY <2>1, UnitPlace DEF FlashUnits
    <3>2. unit = PAGE_UNITS * Page + o BY <1>3, UnitPlace
    <3>3. CASE u = unit
      <4>1. pageBuf'[c][Buffer][o] = <<writes, unit>> BY <1>5, <1>9, <1>10 DEF PageContents
      <4>2. Ours(u) BY <1>2, <1>3, <1>4, <3>3 DEF FlashInv, Done
      <4> QED BY <1>1, <1>6, <1>7, <3>3, <4>1, <4>2 DEF Buffered, Ours
    <3>4. CASE u # unit
      <4>1. OffsetOf(u) # o BY <3>1, <3>2, <3>4
      <4>2. u \notin unit..goal BY <1>3, <2>1, <3>1, <3>4
      <4>3. Buffered(u) BY <1>1, <2>1, <4>2 DEF FlashInv, BufferGood
      <4>4. pageBuf'[c][Buffer][OffsetOf(u)] = pageBuf[c][Buffer][OffsetOf(u)]
        BY <1>9, <1>10, <3>1, <4>1 DEF PageContents
      <4> QED BY <1>1, <1>6, <1>7, <1>13, <4>3, <4>4 DEF Buffered
    <3> QED BY <3>3, <3>4
  <2> QED BY <1>1, <1>2, <1>6, <1>7, <2>1 DEF FlashInv, BufferGood
<1>18. Done'
  <2>1. \A u \in unit'..goal : u \in FlashUnits /\ u \in unit..goal BY <1>1, <1>3, FlashSizes DEF FlashUnits
  <2> QED BY <1>1, <1>2, <1>6, <1>12, <1>13, <2>1 DEF FlashInv, Done
<1>19. BlocksKept' /\ ReadsReturnWrites' BY <1>1, <1>12 DEF FlashInv, BlocksKept, ReadsReturnWrites
<1> QED BY <1>14, <1>15, <1>16, <1>17, <1>18, <1>19 DEF FlashInv

\* The last page is programmed too.
LEMMA WriteLastPageKeeps == FlashInv /\ WriteLastPage => FlashInv'
<1> SUFFICES ASSUME FlashInv, WriteLastPage PROVE FlashInv' OBVIOUS
<1> DEFINE c == ChipOf(Page)
           r == RowOf(Page)
<1>1. /\ op = "last" /\ op' = "settle" /\ programming[c] = <<>>
      /\ programming' = [programming EXCEPT ![c] = <<Buffer, r>>]
      /\ UNCHANGED <<mainMem, pageBuf, ram, unit, atEnd, unitsLeft, writeBuf, UsingSecondBuffer,
                     goal, writes, allowed, got>>
  BY DEF WriteLastPage, Ready, WriteBack, Buffer
<1>2. Filling /\ Writing /\ ~Filling' /\ Writing' BY <1>1 DEF Filling, Writing
<1>3. /\ unit \in Nat /\ goal \in Nat /\ Page \in Nat /\ c \in Chips /\ r \in Rows
      /\ \A u \in FlashUnits : u < unit => DFPageOf(u) <= Page
  BY <1>2, Current DEF FlashUnits
<1>4. unit = goal + 1
  <2>1. unitsLeft = 0 /\ unit + unitsLeft = goal + 1 BY <1>1 DEF FlashInv, Counted
  <2> QED BY <1>3, <2>1
<1>5. programming \in [Chips -> {<<>>} \cup ((1..2) \X Rows)] /\ Buffer \in 1..2
  BY DEF FlashInv, FlashTypeOK, Buffer
<1>6. \A d \in Chips : programming'[d] = IF d = c THEN <<Buffer, r>> ELSE programming[d]
  BY <1>1, <1>5
<1>7. \A u \in FlashUnits :
        Stored(u)' = IF DFPageOf(u) = Page THEN pageBuf[c][Buffer][OffsetOf(u)] ELSE Stored(u)
  <2> TAKE u \in FlashUnits
  <2> DEFINE q == DFPageOf(u)
  <2>1. q \in Nat /\ ChipOf(q) \in Chips /\ RowOf(q) \in Rows BY UnitStored
  <2>2. ChipOf(q) = c /\ RowOf(q) = r => q = Page BY <1>3, <2>1, PagePlace
  <2> HIDE DEF q
  <2>3. CASE q = Page
    <3>1. programming'[ChipOf(q)] = <<Buffer, r>> /\ RowOf(q) = r /\ ChipOf(q) = c /\ pageBuf' = pageBuf
      BY <1>1, <1>6, <2>1, <2>3
    <3> HIDE DEF c, r
    <3> QED BY <2>3, <3>1 DEF Stored, q
  <2>4. CASE q # Page /\ ChipOf(q) = c BY <1>1, <1>6, <2>1, <2>2, <2>4 DEF Stored, q
  <2>5. CASE q # Page /\ ChipOf(q) # c BY <1>1, <1>6, <2>1, <2>5 DEF Stored, q
  <2> QED BY <2>3, <2>4, <2>5 DEF q
<1>8. \A u \in FlashUnits : DFPageOf(u) = Page => Buffered(u)
  BY <1>1, <1>3, <1>4 DEF FlashInv, BufferGood
<1>9. \A u \in FlashUnits : Ours(u)' <=> Ours(u) BY <1>1 DEF Ours
<1>10. Page' = Page BY <1>1 DEF Page
<1>11. programming' \in [Chips -> {<<>>} \cup ((1..2) \X Rows)] BY <1>1, <1>3, <1>5
<1>12. FlashTypeOK' BY <1>1, <1>11 DEF FlashInv, FlashTypeOK
<1>13. Counted' BY <1>1, <1>2 DEF FlashInv, Counted
<1>14. OneRow' BY <1>1, <1>2, <1>10 DEF FlashInv, OneRow
<1>15. InTurn' /\ BufferGood' BY <1>1, <1>2 DEF InTurn, BufferGood
<1>16. Done'
  <2>1. ASSUME NEW u \in FlashUnits, Ours(u) PROVE Stored(u)' = <<writes, u>>
    <3>1. u \in Nat /\ DFPageOf(u) \in Nat BY UnitStored DEF FlashUnits
    <3>2. u <= goal BY <1>2, <2>1 DEF FlashInv, Done
    <3>3. DFPageOf(u) <= Page BY <1>3, <1>4, <3>1, <3>2
    <3>4. CASE DFPageOf(u) = Page BY <1>7, <1>8, <2>1, <3>4 DEF Buffered
    <3>5. CASE DFPageOf(u) < Page BY <1>2, <1>3, <1>7, <2>1, <3>1, <3>5 DEF FlashInv, Done
    <3> QED BY <1>3, <3>1, <3>3, <3>4, <3>5
  <2> QED BY <1>1, <1>2, <1>9, <2>1 DEF Done
<1>17. BlocksKept' BY <1>1, <1>7, <1>8 DEF FlashInv, BlocksKept, Buffered
<1>18. ReadsReturnWrites' BY <1>1 DEF FlashInv, ReadsReturnWrites
<1> QED BY <1>12, <1>13, <1>14, <1>15, <1>16, <1>17, <1>18 DEF FlashInv

\* A complete write leaves what it wrote and nothing else.
LEMMA EndWriteKeeps == FlashInv /\ EndWrite => FlashInv'
<1> SUFFICES ASSUME FlashInv, EndWrite PROVE FlashInv' OBVIOUS
<1>1. /\ op = "settle" /\ op' = "idle"
      /\ allowed' = [u \in FlashUnits |-> IF <<writes, u>> \in allowed[u] THEN {<<writes, u>>} ELSE allowed[u]]
      /\ UNCHANGED <<mainMem, pageBuf, programming, ram, unit, atEnd, unitsLeft, writeBuf,
                     UsingSecondBuffer, goal, writes, got>>
  BY DEF EndWrite, chipVars
<1>2. Writing /\ ~Filling' /\ ~Writing' BY <1>1 DEF Filling, Writing
<1>3. writes \in 0..MaxWrites /\ allowed \in [FlashUnits -> SUBSET ((0..writes) \X FlashUnits)]
  BY DEF FlashInv, FlashTypeOK
<1>4. allowed' \in [FlashUnits -> SUBSET ((0..writes) \X FlashUnits)] BY <1>1, <1>3
<1>5. FlashTypeOK' BY <1>1, <1>4 DEF FlashInv, FlashTypeOK
<1>6. Counted' BY <1>1, <1>2 DEF FlashInv, Counted
<1>7. OneRow' /\ InTurn' /\ BufferGood' /\ Done'
  BY <1>1, <1>2 DEF OneRow, InTurn, BufferGood, Done
<1>8. \A u \in FlashUnits : Stored(u)' = Stored(u) BY <1>1 DEF Stored
<1>9. BlocksKept'
  BY <1>1, <1>8 DEF FlashInv, BlocksKept, Done, Ours
<1>10. got = <<>> BY <1>2 DEF FlashInv, Counted
<1> QED BY <1>1, <1>5, <1>6, <1>7, <1>9, <1>10 DEF FlashInv, ReadsReturnWrites

\* The chips go on with what an abandoned command has given them.
LEMMA AbandonKeeps == FlashInv /\ Abandon => FlashInv'
<1> SUFFICES ASSUME FlashInv, Abandon PROVE FlashInv' OBVIOUS
<1>1. /\ op' = "idle" /\ got' = <<>>
      /\ UNCHANGED <<mainMem, pageBuf, programming, ram, unit, atEnd, unitsLeft, writeBuf,
                     UsingSecondBuffer, goal, writes, allowed>>
  BY DEF Abandon, chipVars
<1>2. ~Filling' /\ ~Writing' BY <1>1 DEF Filling, Writing
<1>3. FlashTypeOK' BY <1>1 DEF FlashInv, FlashTypeOK
<1>4. Counted' BY <1>1, <1>2 DEF FlashInv, Counted
<1>5. OneRow' /\ InTurn' /\ BufferGood' /\ Done'
  BY <1>1, <1>2 DEF OneRow, InTurn, BufferGood, Done
<1>6. BlocksKept' BY <1>1 DEF FlashInv, BlocksKept, Stored
<1> QED BY <1>1, <1>3, <1>4, <1>5, <1>6 DEF FlashInv, ReadsReturnWrites

\* What every command begins with.
LEMMA BeginFacts ==
  ASSUME FlashInv, NEW first, NEW n, NEW file \in BOOLEAN, Begin(first, n, file)
  PROVE  /\ op = "idle" /\ \A c \in Chips : programming[c] = <<>>
         /\ ram' = file /\ atEnd' = FALSE /\ UsingSecondBuffer' = FALSE /\ writeBuf' = 1 /\ got' = <<>>
         /\ unit' \in FlashUnits /\ unit' \in Nat /\ goal' \in FlashUnits /\ goal' \in Nat
         /\ unitsLeft' \in 1..FLASH_UNITS /\ unit' + unitsLeft' = goal' + 1
         /\ PAGE_UNITS <= BLOCK_UNITS => OffsetOf(unit') = 0 /\ OffsetOf(goal' + 1) = 0
         /\ file => RowOf(DFPageOf(unit')) = RowOf(DFPageOf(goal'))
         /\ goal' + 1 \in Nat /\ unit' < goal' + 1
         /\ \A u \in Nat : u \in unit'..goal' <=> unit' <= u /\ u < goal' + 1
<1> DEFINE start == first * BLOCK_UNITS
           end   == (first + n) * BLOCK_UNITS
           size  == n * BLOCK_UNITS
<1>1. /\ op = "idle" /\ \A c \in Chips : programming[c] = <<>>
      /\ ram' = file /\ atEnd' = FALSE /\ UsingSecondBuffer' = FALSE /\ writeBuf' = 1 /\ got' = <<>>
      /\ unit' = start /\ goal' = end - 1 /\ unitsLeft' = size
      /\ <<first, n>> \in Commands \cup RamCommands /\ (file => <<first, n>> \in RamCommands)
  BY DEF Begin
<1>2. first \in Nat /\ n \in Nat /\ n > 0 BY <1>1, DataflashConstants
<1>3. end <= FLASH_UNITS
  <2>1. (<<first, n>>[1] + <<first, n>>[2]) * BLOCK_UNITS <= FLASH_UNITS BY <1>1, DataflashConstants
  <2> QED BY <2>1
<1>4. file => RowOf(DFPageOf(start)) = RowOf(DFPageOf(end - 1))
  <2> SUFFICES ASSUME file PROVE RowOf(DFPageOf(start)) = RowOf(DFPageOf(end - 1)) OBVIOUS
  <2> DEFINE cmd == <<first, n>>
  <2>1. RowOf(DFPageOf(cmd[1] * BLOCK_UNITS)) = RowOf(DFPageOf((cmd[1] + cmd[2]) * BLOCK_UNITS - 1))
    <3> HIDE DEF cmd
    <3>1. cmd \in RamCommands BY <1>1 DEF cmd
    <3> QED BY <3>1, DataflashConstants
  <2>2. cmd[1] = first /\ cmd[2] = n OBVIOUS
  <2> HIDE DEF cmd
  <2> QED BY <2>1, <2>2
<1>5. end = start + size /\ start \in Nat /\ size \in Nat BY <1>2, FlashSizes
<1>6. size >= BLOCK_UNITS BY <1>2, FlashSizes
<1>7. PAGE_UNITS <= BLOCK_UNITS => OffsetOf(start) = 0 /\ OffsetOf(end) = 0
  <2>1. first + n \in Nat BY <1>2
  <2> QED BY <1>2, <2>1, WholePages
<1> HIDE DEF start, end, size
<1>8. /\ unit' \in FlashUnits /\ unit' \in Nat /\ goal' \in FlashUnits /\ goal' \in Nat
      /\ unitsLeft' \in 1..FLASH_UNITS /\ unit' + unitsLeft' = goal' + 1 /\ goal' + 1 = end
  BY <1>1, <1>3, <1>5, <1>6, FlashSizes DEF FlashUnits
<1>9. end \in Nat /\ start < end BY <1>5, <1>6, FlashSizes
<1>10. goal' + 1 \in Nat /\ unit' < goal' + 1 BY <1>1, <1>8, <1>9
<1>11. \A u \in Nat : u \in start..(end - 1) <=> start <= u /\ u < end BY <1>5, <1>9
<1>12. \A u \in Nat : u \in unit'..goal' <=> unit' <= u /\ u < goal' + 1 BY <1>1, <1>8, <1>11
<1> QED BY <1>1, <1>4, <1>7, <1>8, <1>10, <1>12

LEMMA BeginWriteKeeps ==
  ASSUME FlashInv, NEW first, NEW n, NEW file \in BOOLEAN, BeginWrite(first, n, file)
  PROVE  FlashInv'
<1> DEFINE p == DFPageOf(unit')
           c == ChipOf(p)
           r == RowOf(p)
<1>1. /\ op = "idle" /\ \A d \in Chips : programming[d] = <<>>
      /\ ram' = file /\ atEnd' = FALSE /\ UsingSecondBuffer' = FALSE /\ writeBuf' = 1 /\ got' = <<>>
      /\ unit' \in FlashUnits /\ unit' \in Nat /\ goal' \in FlashUnits /\ goal' \in Nat
      /\ unitsLeft' \in 1..FLASH_UNITS /\ unit' + unitsLeft' = goal' + 1
      /\ PAGE_UNITS <= BLOCK_UNITS => OffsetOf(unit') = 0 /\ OffsetOf(goal' + 1) = 0
      /\ file => RowOf(DFPageOf(unit')) = RowOf(DFPageOf(goal'))
  BY BeginFacts DEF BeginWrite
<1>21. /\ goal' + 1 \in Nat /\ unit' < goal' + 1
       /\ \A u \in Nat : u \in unit'..goal' <=> unit' <= u /\ u < goal' + 1
  BY BeginFacts DEF BeginWrite
<1>2. /\ writes < MaxWrites /\ writes' = writes + 1 /\ op' = "write"
      /\ allowed' = [u \in FlashUnits |-> IF u \in unit'..goal' THEN allowed[u] \cup {<<writes + 1, u>>}
                                                             ELSE allowed[u]]
      /\ UNCHANGED <<mainMem, programming>>
      /\ IF PAGE_UNITS > BLOCK_UNITS THEN pageBuf' = [pageBuf EXCEPT ![c][1] = mainMem[c][r]]
                                     ELSE pageBuf' = pageBuf
  BY DEF BeginWrite, CopyToBuffer
<1>3. /\ p \in Nat /\ c \in Chips /\ r \in Rows /\ c \in Nat
  BY <1>1, UnitStored, PagePlace
<1>4. /\ Page' = p /\ Buffer' = 1 /\ Other' = 2 /\ Filling' /\ Writing'
  BY <1>1, <1>2 DEF Page, Buffer, Other, Filling, Writing
<1>5. /\ writes \in 0..MaxWrites /\ allowed \in [FlashUnits -> SUBSET ((0..writes) \X FlashUnits)]
      /\ mainMem \in [Chips -> [Rows -> PageContents]] /\ pageBuf \in [Chips -> [1..2 -> PageContents]]
  BY DEF FlashInv, FlashTypeOK
<1>6. writes' \in 0..MaxWrites BY <1>2, <1>5, FlashSizes
<1>7. \A u \in FlashUnits : <<writes + 1, u>> \notin allowed[u]
  <2> TAKE u \in FlashUnits
  <2>1. allowed[u] \subseteq (0..writes) \X FlashUnits BY <1>5
  <2>2. writes + 1 \notin 0..writes BY <1>5, FlashSizes
  <2> QED BY <2>1, <2>2
<1>8. \A u \in FlashUnits : Ours(u)' <=> u \in unit'..goal' BY <1>2, <1>7 DEF Ours
<1>9. \A u \in FlashUnits : allowed[u] \subseteq allowed'[u] BY <1>2
<1>10. allowed' \in [FlashUnits -> SUBSET ((0..writes') \X FlashUnits)]
  <2>1. 0..writes \subseteq 0..writes' /\ writes + 1 \in 0..writes' BY <1>2, <1>5, FlashSizes
  <2>2. \A u \in FlashUnits : allowed'[u] \subseteq (0..writes') \X FlashUnits
    <3> TAKE u \in FlashUnits
    <3>1. allowed[u] \subseteq (0..writes) \X FlashUnits BY <1>5
    <3>2. allowed'[u] \subseteq allowed[u] \cup {<<writes + 1, u>>} BY <1>2
    <3> QED BY <2>1, <3>1, <3>2
  <2> QED BY <1>2, <2>2
<1>11. pageBuf' \in [Chips -> [1..2 -> PageContents]] BY <1>2, <1>3, <1>5
<1>12. FlashTypeOK'
  <2>1. unit' \in 0..FLASH_UNITS /\ unitsLeft' \in 0..FLASH_UNITS BY <1>1, FlashSizes DEF FlashUnits
  <2>2. {ram', atEnd', UsingSecondBuffer'} \subseteq BOOLEAN BY <1>1
  <2>3. FlashTypeOK BY DEF FlashInv
  <2>4. programming' \in [Chips -> {<<>>} \cup ((1..2) \X Rows)] BY <1>2, <2>3 DEF FlashTypeOK
  <2>5. mainMem' \in [Chips -> [Rows -> PageContents]] BY <1>2, <1>5
  <2>6. /\ op' \in {"idle", "write", "copyTail", "last", "settle", "read"} /\ writeBuf' \in 1..2
        /\ goal' \in FlashUnits
        /\ got' \in {<<>>} \cup (FlashUnits \X ((0..MaxWrites) \X FlashUnits))
    BY <1>1, <1>2
  <2> QED BY ONLY <1>6, <1>10, <1>11, <2>1, <2>2, <2>4, <2>5, <2>6, Zenon DEF FlashTypeOK
<1>13. \A u \in FlashUnits : Stored(u) = mainMem[ChipOf(DFPageOf(u))][RowOf(DFPageOf(u))][OffsetOf(u)]
                             /\ Stored(u)' = Stored(u)
  BY <1>1, <1>2, UnitStored DEF Stored
<1>14. Counted' BY <1>1, <1>2, <1>4 DEF Counted
<1>15. OneRow'
  <2>1. SUFFICES ASSUME file, NEW q \in p..(DFPageOf(goal') - 1) PROVE ChipOf(q) # CHIPS - 1
    BY <1>1, <1>2, <1>4 DEF OneRow
  <2>2. DFPageOf(goal') \in Nat BY <1>1, UnitPlace
  <2>3. q \in Nat /\ p <= q /\ q < DFPageOf(goal') BY <1>3, <2>1, <2>2
  <2>4. RowOf(p) = RowOf(DFPageOf(goal')) BY <1>1, <2>1
  <2> HIDE DEF p
  <2> QED BY <1>3, <2>2, <2>3, <2>4, RowsOfPages
<1>16. InTurn' BY <1>1, <1>2 DEF InTurn
<1>17. BufferGood'
  <2>1. ASSUME NEW u \in FlashUnits, DFPageOf(u) = p, u \notin unit'..goal'
        PROVE  Buffered(u)'
    <3>1. u \in Nat BY DEF FlashUnits
    <3>7. ~(unit' <= u /\ u < goal' + 1) BY <1>21, <2>1, <3>1
    <3>2. PAGE_UNITS > BLOCK_UNITS
      <4>1. SUFFICES ASSUME PAGE_UNITS <= BLOCK_UNITS PROVE FALSE BY FlashSizes
      <4>2. OffsetOf(unit') = 0 /\ OffsetOf(goal' + 1) = 0 BY <1>1, <4>1
      <4> QED BY <1>1, <1>21, <2>1, <3>1, <3>7, <4>2, WholePage
    <3>3. pageBuf'[c][1] = mainMem[c][r] BY <1>2, <1>3, <1>5, <3>2
    <3>4. pageBuf'[c][1][OffsetOf(u)] = Stored(u) BY <1>13, <2>1, <3>3
    <3>5. Stored(u) \in allowed'[u] BY <1>9 DEF FlashInv, BlocksKept
    <3>6. ~Ours(u)' BY <1>8, <2>1
    <3> QED BY <1>4, <3>4, <3>5, <3>6 DEF Buffered
  <2> QED BY <1>1, <1>2, <1>4, <2>1 DEF BufferGood
<1>18. Done'
  <2>1. \A u \in unit'..goal' : u \in FlashUnits BY <1>1, FlashSizes DEF FlashUnits
  <2>2. \A u \in FlashUnits : u \in unit'..goal' => u <= goal' /\ ~(DFPageOf(u) < p)
    <3> TAKE u \in FlashUnits
    <3>1. SUFFICES ASSUME u \in unit'..goal' PROVE u <= goal' /\ p <= DFPageOf(u)
      BY <1>3, UnitStored
    <3>2. u \in Nat /\ unit' <= u /\ u <= goal' BY <1>1, <3>1 DEF FlashUnits
    <3> QED BY <1>1, <3>2, PageOrder
  <2>3. op' # "settle" BY <1>2
  <2> QED BY <1>4, <1>8, <2>1, <2>2, <2>3 DEF Done
<1>19. BlocksKept' BY <1>9, <1>13 DEF FlashInv, BlocksKept
<1>20. ReadsReturnWrites' BY <1>1 DEF ReadsReturnWrites
<1> QED BY <1>12, <1>14, <1>15, <1>16, <1>17, <1>18, <1>19, <1>20 DEF FlashInv

LEMMA BeginReadKeeps ==
  ASSUME FlashInv, NEW first, NEW n, NEW file \in BOOLEAN, BeginRead(first, n, file)
  PROVE  FlashInv'
<1>1. /\ op = "idle" /\ \A d \in Chips : programming[d] = <<>>
      /\ ram' = file /\ atEnd' = FALSE /\ UsingSecondBuffer' = FALSE /\ writeBuf' = 1 /\ got' = <<>>
      /\ unit' \in FlashUnits /\ unit' \in Nat /\ goal' \in FlashUnits /\ goal' \in Nat
      /\ unitsLeft' \in 1..FLASH_UNITS /\ unit' + unitsLeft' = goal' + 1
  BY BeginFacts DEF BeginRead
<1>2. op' = "read" /\ UNCHANGED <<mainMem, pageBuf, programming, writes, allowed>>
  BY DEF BeginRead, chipVars
<1>3. ~Filling' /\ ~Writing' BY <1>2 DEF Filling, Writing
<1>4. FlashTypeOK'
  <2>1. unit' \in 0..FLASH_UNITS /\ unitsLeft' \in 0..FLASH_UNITS BY <1>1, FlashSizes DEF FlashUnits
  <2>2. {ram', atEnd', UsingSecondBuffer'} \subseteq BOOLEAN BY <1>1
  <2> QED BY <1>1, <1>2, <2>1, <2>2 DEF FlashInv, FlashTypeOK
<1>5. Counted' BY <1>1, <1>2, <1>3 DEF Counted
<1>6. OneRow' /\ InTurn' /\ BufferGood' /\ Done'
  BY <1>2, <1>3 DEF OneRow, InTurn, BufferGood, Done
<1>7. BlocksKept' BY <1>2 DEF FlashInv, BlocksKept, Stored
<1>8. ReadsReturnWrites' BY <1>1 DEF ReadsReturnWrites
<1> QED BY <1>4, <1>5, <1>6, <1>7, <1>8 DEF FlashInv

\* A unit is read when no chip is programming, from where it is stored.
LEMMA ReadUnitKeeps == FlashInv /\ ReadUnit => FlashInv'
<1> SUFFICES ASSUME FlashInv, ReadUnit PROVE FlashInv' OBVIOUS
<1> DEFINE p == DFPageOf(unit)
<1>1. /\ op = "read" /\ unitsLeft > 0
      /\ got' = <<unit, mainMem[ChipOf(p)][RowOf(p)][OffsetOf(unit)]>>
      /\ unit' = unit + 1 /\ unitsLeft' = unitsLeft - 1
      /\ atEnd' = (OffsetOf(unit + 1) = 0)
      /\ op' \in {"idle", "read"} /\ (op' = "read" => unitsLeft' # 0)
      /\ UNCHANGED <<mainMem, pageBuf, programming, ram, writeBuf, UsingSecondBuffer, goal, writes, allowed>>
  BY DEF ReadUnit, CountUnit, chipVars
<1>2. /\ unit \in Nat /\ unitsLeft \in 0..FLASH_UNITS /\ goal \in FlashUnits
      /\ unit + unitsLeft = goal + 1 /\ \A c \in Chips : programming[c] = <<>>
  BY <1>1 DEF FlashInv, FlashTypeOK, Counted
<1>3. unit \in FlashUnits /\ unit + 1 \in 0..FLASH_UNITS /\ unitsLeft - 1 \in 0..FLASH_UNITS
  BY <1>1, <1>2, FlashSizes DEF FlashUnits
<1>4. Stored(unit) = mainMem[ChipOf(p)][RowOf(p)][OffsetOf(unit)]
  BY <1>2, <1>3, UnitStored DEF Stored
<1>5. Stored(unit) \in allowed[unit] BY <1>3 DEF FlashInv, BlocksKept
<1>6. allowed[unit] \subseteq (0..MaxWrites) \X FlashUnits
  <2>1. allowed[unit] \subseteq (0..writes) \X FlashUnits BY <1>3 DEF FlashInv, FlashTypeOK
  <2>2. 0..writes \subseteq 0..MaxWrites BY FlashSizes DEF FlashInv, FlashTypeOK
  <2> QED BY <2>1, <2>2
<1>7. got' = <<unit, Stored(unit)>> BY <1>1, <1>4
<1>8. (atEnd' <=> OffsetOf(unit') = 0) /\ {ram', atEnd', UsingSecondBuffer'} \subseteq BOOLEAN
  BY <1>1 DEF FlashInv, FlashTypeOK
<1>9. ~Filling' /\ ~Writing' BY <1>1 DEF Filling, Writing
<1>10. FlashTypeOK'
  <2>1. got' \in FlashUnits \X ((0..MaxWrites) \X FlashUnits) BY <1>3, <1>5, <1>6, <1>7
  <2>2. op' \in {"idle", "write", "copyTail", "last", "settle", "read"} BY <1>1
  <2> QED BY <1>1, <1>3, <1>8, <2>1, <2>2 DEF FlashInv, FlashTypeOK
<1>11. Counted'
  <2>1. unit' + unitsLeft' = goal' + 1 /\ unit' > 0 /\ unitsLeft' \in Nat BY <1>1, <1>2, <1>3
  <2>2. \A c \in Chips : programming'[c] = <<>> BY <1>1, <1>2
  <2>4. op' \in {"idle", "read"} /\ (op' = "read" => unitsLeft' # 0) BY <1>1
  <2>3. op' \in {"idle", "read"} /\ (op' = "read" => unitsLeft' > 0) BY <2>1, <2>4
  <2> QED BY <1>8, <1>9, <2>1, <2>2, <2>3 DEF Counted
<1>12. OneRow' /\ InTurn' /\ BufferGood' /\ Done'
  BY <1>1, <1>9 DEF OneRow, InTurn, BufferGood, Done
<1>13. BlocksKept' BY <1>1 DEF FlashInv, BlocksKept, Stored
<1>14. ReadsReturnWrites' BY <1>1, <1>5, <1>7 DEF ReadsReturnWrites
<1> QED BY <1>10, <1>11, <1>12, <1>13, <1>14 DEF FlashInv

LEMMA InvStep == FlashInv /\ [FlashNext]_flashVars => FlashInv'
<1> SUFFICES ASSUME FlashInv, [FlashNext]_flashVars PROVE FlashInv' OBVIOUS
<1>1. CASE \E c \in Chips : ChipDone(c) BY <1>1, ChipDoneKeeps
<1>2. CASE \E cmd \in Commands \cup RamCommands, file \in BOOLEAN :
             BeginWrite(cmd[1], cmd[2], file) \/ BeginRead(cmd[1], cmd[2], file)
  BY <1>2, BeginWriteKeeps, BeginReadKeeps
<1>3. CASE PageEnd BY <1>3, PageEndKeeps
<1>4. CASE CopyTail BY <1>4, CopyTailKeeps
<1>5. CASE WriteUnit BY <1>5, WriteUnitKeeps
<1>6. CASE WriteLastPage BY <1>6, WriteLastPageKeeps
<1>7. CASE EndWrite BY <1>7, EndWriteKeeps
<1>8. CASE Abandon BY <1>8, AbandonKeeps
<1>9. CASE ReadUnit BY <1>9, ReadUnitKeeps
<1>10. CASE UNCHANGED flashVars
  <2> USE <1>10 DEF flashVars, chipVars, opVars
  <2>1. /\ Page' = Page /\ Buffer' = Buffer /\ Other' = Other /\ (Filling' <=> Filling)
        /\ (Writing' <=> Writing)
    BY DEF Page, Buffer, Other, Filling, Writing
  <2>2. FlashTypeOK' /\ Counted' /\ OneRow' /\ InTurn'
    BY <2>1 DEF FlashInv, FlashTypeOK, Counted, OneRow, InTurn
  <2>3. BufferGood' /\ Done'
    BY <2>1 DEF FlashInv, BufferGood, Done, Ours, Buffered, Stored
  <2>4. BlocksKept' /\ ReadsReturnWrites' BY DEF FlashInv, BlocksKept, ReadsReturnWrites, Stored
  <2> QED BY <2>2, <2>3, <2>4 DEF FlashInv
<1> QED BY <1>1, <1>2, <1>3, <1>4, <1>5, <1>6, <1>7, <1>8, <1>9, <1>10 DEF FlashNext

-----------------------------------------------------------------------------
\* The Dataflash manager's variables keep their types, whatever the chips and
\* the blocks are.
THEOREM FlashTypeCorrect == FlashSpec => []FlashTypeOK
<1>1. FlashInv => FlashTypeOK BY DEF FlashInv
<1> QED BY <1>1, InvInit, InvStep, PTL DEF FlashSpec

\* A write changes the units of its blocks and no other, whichever chip and
\* page it begins on, wherever in a page it ends and whenever it is abandoned.
THEOREM BlocksAlwaysKept == FlashSpec => []BlocksKept
<1>1. FlashInv => BlocksKept BY DEF FlashInv
<1> QED BY <1>1, InvInit, InvStep, PTL DEF FlashSpec

\* A unit that is read is the one last written there, or for one of an
\* abandoned write the old or the new.
THEOREM ReadsReturnLastWrite == FlashSpec => []ReadsReturnWrites
<1>1. FlashInv => ReadsReturnWrites BY DEF FlashInv
<1> QED BY <1>1, InvInit, InvStep, PTL DEF FlashSpec

-----------------------------------------------------------------------------
(* The DFU bootloader.                                                     *)

(***************************************************************************)
(* Quotients, remainders and pages.                                        *)
(***************************************************************************)
LEMMA DFUSizes ==
  /\ EPSIZE \in Nat \ {0} /\ SPM_PAGESIZE \in Nat \ {0} /\ HEADER \in Nat \ {0} /\ FILLER \in Nat \ {0}
  /\ BOOT_START_ADDR \in Nat \ {0} /\ EEPROM_SIZE \in Nat \ {0} /\ EEPROM_SIZE <= BOOT_START_ADDR
  /\ SUFFIX \in Nat /\ MaxDownloads \in Nat /\ SECURE_MODE \in BOOLEAN
  /\ EPSIZE % 2 = 0 /\ SPM_PAGESIZE % 2 = 0 /\ HEADER + FILLER = EPSIZE
BY DFUConstants

LEMMA ModOf ==
  ASSUME NEW n \in Nat \ {0}, NEW q \in Nat, NEW x \in 0..(n - 1)
  PROVE  n * q + x \in Nat /\ (n * q + x) % n = x
<1> DEFINE a == n * q + x
           d == a \div n
           m == a % n
<1>1. a \in Nat OBVIOUS
<1>2. d \in Nat /\ m \in 0..(n - 1) /\ a = n * d + m
  <2> HIDE DEF a
  <2> QED BY <1>1, DivMod
<1>3. n * q + x = n * d + m BY <1>2
<1> HIDE DEF d, m
<1>4. x = m BY <1>2, <1>3, DivModUnique
<1> QED BY <1>1, <1>4 DEF m

\* One multiple further.
LEMMA ModNext ==
  ASSUME NEW n \in Nat \ {0}, NEW a \in Nat, a % n = 0
  PROVE  (a + n) % n = 0
<1> DEFINE q == a \div n
<1>1. q \in Nat /\ a = n * q BY DivMod
<1> HIDE DEF q
<1>2. a + n = n * (q + 1) + 0 BY <1>1
<1>3. (n * (q + 1) + 0) % n = 0 BY <1>1, ModOf
<1> QED BY <1>2, <1>3

\* A multiple of an even number is even.
LEMMA EvenMultiple ==
  ASSUME NEW n \in Nat \ {0}, NEW a \in Nat, n % 2 = 0, a % n = 0
  PROVE  a % 2 = 0
<1>1. PICK q \in Nat : a = n * q BY DivMod
<1>2. PICK k \in Nat : n = 2 * k
  <2> WITNESS n \div 2 \in Nat
  <2> QED OBVIOUS
<1> DEFINE e == k * q
<1>3. a = 2 * e BY <1>1, <1>2
<1>4. e \in Nat OBVIOUS
<1> HIDE DEF e
<1> QED BY <1>3, <1>4

\* A page is the addresses with one quotient.
LEMMA PageIs ==
  ASSUME NEW a \in Nat
  PROVE  \E q \in Nat : /\ PageOf(a) = (SPM_PAGESIZE * q)..(SPM_PAGESIZE * q + SPM_PAGESIZE - 1)
                        /\ a = SPM_PAGESIZE * q + (a % SPM_PAGESIZE)
                        /\ a % SPM_PAGESIZE \in 0..(SPM_PAGESIZE - 1)
<1>1. SPM_PAGESIZE \in Nat \ {0} BY DFUSizes
<1> DEFINE q == a \div SPM_PAGESIZE
           m == a % SPM_PAGESIZE
<1>2. q \in Nat /\ m \in 0..(SPM_PAGESIZE - 1) /\ a = SPM_PAGESIZE * q + m BY <1>1, DivMod
<1>3. PageOf(a) = (a - m)..((a - m) + SPM_PAGESIZE - 1) BY DEF PageOf
<1> HIDE DEF q, m
<1>4. a - m = SPM_PAGESIZE * q BY <1>1, <1>2
<1>5. PageOf(a) = (SPM_PAGESIZE * q)..(SPM_PAGESIZE * q + SPM_PAGESIZE - 1) BY <1>3, <1>4
<1> QED BY <1>2, <1>5 DEF m

\* An address lies in its page, and every address of the page has that page;
\* the remainder tells the addresses of a page apart.
LEMMA PageOfOwn ==
  ASSUME NEW a \in Nat
  PROVE  a \in PageOf(a) /\ PageOf(a) \subseteq Nat
<1>1. SPM_PAGESIZE \in Nat \ {0} BY DFUSizes
<1>2. PICK q \in Nat : /\ PageOf(a) = (SPM_PAGESIZE * q)..(SPM_PAGESIZE * q + SPM_PAGESIZE - 1)
                       /\ a = SPM_PAGESIZE * q + (a % SPM_PAGESIZE)
                       /\ a % SPM_PAGESIZE \in 0..(SPM_PAGESIZE - 1)
  BY PageIs
<1> QED BY <1>1, <1>2

LEMMA SamePage ==
  ASSUME NEW a \in Nat, NEW b \in PageOf(a)
  PROVE  PageOf(b) = PageOf(a)
<1>1. SPM_PAGESIZE \in Nat \ {0} BY DFUSizes
<1>2. PICK q \in Nat : PageOf(a) = (SPM_PAGESIZE * q)..(SPM_PAGESIZE * q + SPM_PAGESIZE - 1)
  BY PageIs
<1>3. b \in Nat BY PageOfOwn
<1>4. PICK p \in Nat : /\ PageOf(b) = (SPM_PAGESIZE * p)..(SPM_PAGESIZE * p + SPM_PAGESIZE - 1)
                       /\ b = SPM_PAGESIZE * p + (b % SPM_PAGESIZE)
                       /\ b % SPM_PAGESIZE \in 0..(SPM_PAGESIZE - 1)
  BY <1>3, PageIs
<1> DEFINE x == b - SPM_PAGESIZE * q
           y == b % SPM_PAGESIZE
<1>5. x \in 0..(SPM_PAGESIZE - 1) /\ SPM_PAGESIZE * q + x = b BY <1>1, <1>2, <1>3
<1>6. y \in 0..(SPM_PAGESIZE - 1) /\ SPM_PAGESIZE * p + y = b BY <1>4
<1> HIDE DEF x, y
<1>7. q = p BY <1>1, <1>5, <1>6, DivModUnique
<1> QED BY <1>2, <1>4, <1>7

LEMMA OffsetsDiffer ==
  ASSUME NEW a \in Nat, NEW b \in PageOf(a), NEW c \in PageOf(a), b # c
  PROVE  b % SPM_PAGESIZE # c % SPM_PAGESIZE
<1>1. SPM_PAGESIZE \in Nat \ {0} BY DFUSizes
<1>2. PICK q \in Nat : PageOf(a) = (SPM_PAGESIZE * q)..(SPM_PAGESIZE * q + SPM_PAGESIZE - 1)
  BY PageIs
<1> DEFINE x == b - SPM_PAGESIZE * q
           y == c - SPM_PAGESIZE * q
<1>3. x \in 0..(SPM_PAGESIZE - 1) /\ y \in 0..(SPM_PAGESIZE - 1) /\ x # y
      /\ SPM_PAGESIZE * q + x = b /\ SPM_PAGESIZE * q + y = c BY <1>1, <1>2
<1> HIDE DEF x, y
<1>4. b % SPM_PAGESIZE = x /\ c % SPM_PAGESIZE = y BY <1>1, <1>3, ModOf
<1> QED BY <1>3, <1>4

LEMMA PageFromStart ==
  ASSUME NEW a \in Nat, a % SPM_PAGESIZE = 0
  PROVE  PageOf(a) = a..(a + SPM_PAGESIZE - 1)
BY DFUSizes DEF PageOf

\* Pages are intervals, shorter than their size.
LEMMA PageConvex ==
  ASSUME NEW a \in Nat, NEW b \in PageOf(a), NEW c \in PageOf(a)
  PROVE  b..c \subseteq PageOf(a) /\ c - b < SPM_PAGESIZE
<1>1. SPM_PAGESIZE \in Nat \ {0} BY DFUSizes
<1>2. PICK q \in Nat : PageOf(a) = (SPM_PAGESIZE * q)..(SPM_PAGESIZE * q + SPM_PAGESIZE - 1)
  BY PageIs
<1> QED BY <1>1, <1>2

\* A word at an even address lies in one page.
LEMMA WordInPage ==
  ASSUME NEW a \in Nat, a % 2 = 0
  PROVE  /\ a + 1 \in PageOf(a)
         /\ (a + 1) % SPM_PAGESIZE = (a % SPM_PAGESIZE) + 1
<1>1. SPM_PAGESIZE \in Nat \ {0} BY DFUSizes
<1>2. PICK q \in Nat : /\ PageOf(a) = (SPM_PAGESIZE * q)..(SPM_PAGESIZE * q + SPM_PAGESIZE - 1)
                       /\ a = SPM_PAGESIZE * q + (a % SPM_PAGESIZE)
                       /\ a % SPM_PAGESIZE \in 0..(SPM_PAGESIZE - 1)
  BY PageIs
<1>3. PICK k \in Nat : SPM_PAGESIZE = 2 * k
  <2>1. SPM_PAGESIZE \div 2 \in Nat /\ SPM_PAGESIZE = 2 * (SPM_PAGESIZE \div 2) BY DFUSizes
  <2> QED BY <2>1
<1> DEFINE m == a % SPM_PAGESIZE
           e == k * q
<1>4. SPM_PAGESIZE * q = 2 * e /\ e \in Nat BY <1>3
<1>5. a = 2 * e + m /\ m \in 0..(SPM_PAGESIZE - 1) BY <1>2, <1>4
<1> HIDE DEF m, e
<1>6. m + 1 \in 0..(SPM_PAGESIZE - 1)
  <2>1. m % 2 = 0 BY <1>4, <1>5
  <2> QED BY <1>1, <1>3, <1>5, <2>1
<1>7. a + 1 = SPM_PAGESIZE * q + (m + 1) BY <1>4, <1>5, <1>6
<1>8. (a + 1) % SPM_PAGESIZE = m + 1
  <2>1. (SPM_PAGESIZE * q + (m + 1)) % SPM_PAGESIZE = m + 1 BY <1>1, <1>6, ModOf
  <2> QED BY <1>7, <2>1
<1>9. a + 1 \in PageOf(a)
  <2> DEFINE s == SPM_PAGESIZE * q
  <2>1. s \in Nat /\ PageOf(a) = s..(s + SPM_PAGESIZE - 1) /\ a + 1 = s + (m + 1)
    BY <1>1, <1>2, <1>7
  <2> HIDE DEF s
  <2> QED BY <1>1, <1>6, <2>1
<1> QED BY <1>8, <1>9 DEF m
-----------------------------------------------------------------------------
(***************************************************************************)
(* The invariant.                                                          *)
(***************************************************************************)
\* The range a request names stands while its firmware comes in: what is
\* left of it begins at the cursor.  What an upload will read is flash.
RangesKept ==
  /\ target \in Ranges \cup {<<>>}
  /\ step # "idle" => target # <<>> /\ DFU_State = "dfuDNLOAD_IDLE"
  /\ step \in {"filler", "align"} =>
       cursor = target[2] /\ pageStart = target[2] /\ StartAddr = target[2]
  /\ step \in {"filler", "align", "data"} =>
       /\ cursor \in target[2]..target[3] /\ bytesLeft = target[3] + 1 - cursor
       /\ target[1] = "flash" => cursor % 2 = 0 /\ bytesLeft % 2 = 0
  /\ DFU_State = "dfuUPLOAD_IDLE" => StartAddr..EndAddr \subseteq FlashAddrs

\* Where an aligned download stands in its packets: the filler ends with the
\* first of them, and every packet but the last is full.
PacketsKept ==
  /\ step = "filler" => banked = discard /\ taken + banked = EPSIZE
  /\ step = "align"  => banked = 0 /\ discard = 0 /\ taken = EPSIZE
  /\ step = "data"   => /\ taken = EPSIZE + (cursor - target[2])
                        /\ (taken + banked) % EPSIZE = 0 \/ taken + banked = Total(target)

\* What such a download has done to flash.  The page it fills has been
\* erased, the buffer holds the words from the page's start to the cursor.
Sent(a) == <<downloads, a>>
PageUnderWay ==
  /\ pageStart \in target[2]..cursor /\ pageStart % 2 = 0
  /\ cursor \in PageOf(pageStart) /\ cursor - pageStart < SPM_PAGESIZE
  /\ pageStart % SPM_PAGESIZE = 0 \/ (pageStart = target[2] /\ target[3] \in PageOf(pageStart))
  /\ \A a \in PageOf(pageStart) :
       pageFill[a % SPM_PAGESIZE] = IF a \in pageStart..(cursor - 1) THEN Sent(a) ELSE Blank
  /\ \A a \in PageOf(pageStart) \cap FlashAddrs : flash[a] = Blank
PagesDone ==
  /\ \A a \in target[2]..(pageStart - 1) : flash[a] = Sent(a)
  /\ \A a \in FlashAddrs \ PagesOf(target) : flash[a] = before[a]

DownloadSoFar ==
  target # <<>> /\ Aligned(target) /\ fresh =>
    /\ PacketsKept
    /\ step \in {"filler", "align", "data"} =>
         /\ target[1] = "flash"  => PageUnderWay /\ PagesDone
         /\ target[1] = "eeprom" => /\ flash = before
                                    /\ \A a \in target[2]..(cursor - 1) : eeprom[a] = Sent(a)
    /\ step \in {"suffix", "idle"} => Landed(target)

\* Secure mode: nothing is selected or received until an erase, and then no
\* memory holds what was there when the bootloader started.
Old(b) == b \in {<<d, a>> : d \in 0..since, a \in FlashAddrs}
Secrets ==
  /\ since \in 0..downloads
  /\ SECURE_MODE =>
       /\ IsSecure => DFU_State # "dfuUPLOAD_IDLE" /\ step = "idle"
       /\ ~IsSecure => \A a \in FlashAddrs : ~Old(flash[a])
       /\ \A o \in 0..(SPM_PAGESIZE - 1) : ~Old(pageFill[o])
       /\ step # "idle" => since < downloads
       /\ \A b \in read : ~Old(b)

DFUInv == DFUTypeOK /\ RangesKept /\ DownloadSoFar /\ Secrets
-----------------------------------------------------------------------------
(***************************************************************************)
(* Types.                                                                  *)
(***************************************************************************)
LEMMA RangeFacts ==
  ASSUME NEW r \in Ranges
  PROVE  /\ r # <<>> /\ r[1] \in {"flash", "eeprom"}
         /\ r[2] \in FlashAddrs /\ r[3] \in FlashAddrs /\ r[2] <= r[3]
         /\ r[1] = "flash" => r[2] % 2 = 0 /\ Length(r) % 2 = 0
         /\ r[1] = "eeprom" => r[2] \in EEPROMAddrs /\ r[3] \in EEPROMAddrs
<1>1. r \in ({"flash"} \X FlashAddrs \X FlashAddrs) \cup ({"eeprom"} \X EEPROMAddrs \X EEPROMAddrs)
  BY RangesExist
<1>2. r[2] <= r[3] /\ (r[1] = "flash" => r[2] % 2 = 0 /\ Length(r) % 2 = 0) BY RangesExist
<1>3. EEPROMAddrs \subseteq FlashAddrs BY DFUSizes DEF EEPROMAddrs, FlashAddrs
<1>4. CASE r \in {"flash"} \X FlashAddrs \X FlashAddrs
  <2>1. PICK a \in FlashAddrs, b \in FlashAddrs : r = <<"flash", a, b>> BY <1>4
  <2>2. r # <<>> /\ r[1] = "flash" /\ r[2] = a /\ r[3] = b BY <2>1
  <2> QED BY <1>2, <2>2
<1>5. CASE r \in {"eeprom"} \X EEPROMAddrs \X EEPROMAddrs
  <2>1. PICK a \in EEPROMAddrs, b \in EEPROMAddrs : r = <<"eeprom", a, b>> BY <1>5
  <2>2. r # <<>> /\ r[1] = "eeprom" /\ r[2] = a /\ r[3] = b BY <2>1
  <2> QED BY <1>2, <1>3, <2>2
<1> QED BY <1>1, <1>4, <1>5

LEMMA ByteKinds ==
  /\ Blank # Filler /\ Blank \in Bytes /\ Filler \in Bytes
  /\ \A d, a \in Nat : <<d, a>> # Blank /\ <<d, a>> # Filler
  /\ \A d \in 0..MaxDownloads, a \in FlashAddrs : <<d, a>> \in Bytes
BY DFUSizes DEF Blank, Filler, Bytes, FlashAddrs

LEMMA TotalIs ==
  ASSUME NEW r \in Ranges
  PROVE  /\ Lead(r) \in Nat /\ Lead(r) = EPSIZE + (r[2] % EPSIZE) /\ r[2] % EPSIZE \in Nat
         /\ Total(r) \in Nat /\ Total(r) = Lead(r) + Length(r) + SUFFIX
         /\ Length(r) \in Nat \ {0} /\ EPSIZE <= Lead(r) /\ EPSIZE <= Total(r)
<1>1. r[2] \in Nat /\ r[3] \in Nat /\ r[2] <= r[3] BY RangeFacts DEF FlashAddrs
<1>2. r[2] % EPSIZE \in Nat
  <2>1. EPSIZE \in Nat \ {0} BY DFUSizes
  <2>2. \A a \in Nat : a % EPSIZE \in Nat BY <2>1, DivMod
  <2> QED BY <1>1, <2>2
<1>3. Lead(r) = EPSIZE + (r[2] % EPSIZE) BY DFUSizes, <1>2 DEF Lead
<1>4. Length(r) \in Nat \ {0} BY <1>1 DEF Length
<1> DEFINE l == Lead(r)
           n == Length(r)
<1>5. l \in Nat /\ EPSIZE <= l BY <1>2, <1>3, DFUSizes
<1>6. Total(r) = l + n + SUFFIX BY DEF Total
<1>7. n \in Nat \ {0} BY <1>4
<1> HIDE DEF l, n
<1>8. Total(r) \in Nat /\ EPSIZE <= Total(r) BY <1>5, <1>6, <1>7, DFUSizes
<1> QED BY <1>2, <1>3, <1>4, <1>5, <1>6, <1>8 DEF l, n

\* What the host sends is a byte.
LEMMA StreamTyped ==
  ASSUME NEW p, target \in Ranges, downloads \in 0..MaxDownloads
  PROVE  StreamByte(p) \in Bytes
<1>1. CASE p \in Lead(target)..(Lead(target) + Length(target) - 1)
  <2>1. target[2] + p - Lead(target) \in FlashAddrs
    <3>1. /\ target[2] \in Nat /\ target[3] \in 0..(BOOT_START_ADDR - 1)
          /\ target[2] <= target[3] /\ Lead(target) \in Nat
      BY TotalIs, RangeFacts DEF FlashAddrs
    <3>2. p \in Lead(target)..(Lead(target) + (target[3] - target[2])) BY <1>1, <3>1 DEF Length
    <3> QED BY <3>1, <3>2, DFUSizes DEF FlashAddrs
  <2> QED BY <1>1, <2>1, ByteKinds DEF StreamByte
<1>2. CASE p \notin Lead(target)..(Lead(target) + Length(target) - 1)
  BY <1>2, ByteKinds DEF StreamByte
<1> QED BY <1>1, <1>2

LEMMA BufferTyped ==
  /\ BlankFill \in [0..(SPM_PAGESIZE - 1) -> Bytes]
  /\ \A o \in 0..(SPM_PAGESIZE - 1) : BlankFill[o] = Blank
BY ByteKinds DEF BlankFill

LEMMA LoadedTyped ==
  ASSUME pageFill \in [0..(SPM_PAGESIZE - 1) -> Bytes], NEW i, NEW low \in Bytes, NEW high \in Bytes
  PROVE  Loaded(i, low, high) \in [0..(SPM_PAGESIZE - 1) -> Bytes]
BY DEF Loaded

LEMMA FlashTyped ==
  ASSUME NEW mem \in [FlashAddrs -> Bytes], NEW fill \in [0..(SPM_PAGESIZE - 1) -> Bytes], NEW a
  PROVE  /\ Erased(mem, a) \in [FlashAddrs -> Bytes]
         /\ Programmed(mem, fill, a) \in [FlashAddrs -> Bytes]
<1>1. \A b \in FlashAddrs : fill[b % SPM_PAGESIZE] \in Bytes
  BY DFUSizes DEF FlashAddrs
<1> QED BY <1>1, ByteKinds DEF Erased, Programmed

USE DEF stateVars, cmdVars, recvVars, history, receiving

LEMMA PacketTyped ==
  ASSUME target \in Ranges, taken \in Nat, NextPacket
  PROVE  banked' \in 0..EPSIZE
<1>1. Total(target) \in Nat /\ EPSIZE \in Nat BY TotalIs, DFUSizes
<1> QED BY <1>1 DEF NextPacket, Least

LEMMA TypesInit == DFUInit => DFUTypeOK /\ RangesKept
<1> SUFFICES ASSUME DFUInit PROVE DFUTypeOK /\ RangesKept OBVIOUS
<1> USE DEF DFUInit
<1>1. flash \in [FlashAddrs -> Bytes] /\ eeprom \in [EEPROMAddrs -> Bytes]
  BY ByteKinds, DFUSizes DEF EEPROMAddrs, FlashAddrs
<1>2. IsSecure \in BOOLEAN /\ RunBootloader \in BOOLEAN /\ WaitForExit \in BOOLEAN BY DFUSizes
<1>3. banked \in 0..EPSIZE /\ downloads \in 0..MaxDownloads /\ read \subseteq Bytes BY DFUSizes
<1>4. DFUTypeOK
  <2> USE DEF DFUTypeOK
  <2> QED BY <1>1, <1>2, <1>3, BufferTyped
<1>5. RangesKept BY DEF RangesKept
<1> QED BY <1>4, <1>5

LEMMA TypesNext == DFUTypeOK /\ RangesKept /\ [DFUNext]_dfuVars => DFUTypeOK' /\ RangesKept'
<1> SUFFICES ASSUME DFUTypeOK, RangesKept, [DFUNext]_dfuVars PROVE DFUTypeOK' /\ RangesKept'
  OBVIOUS
<1> USE DEF DFUTypeOK, RangesKept
<1>1. CASE \E c \in StartCommands : StartApplication(c)
  BY <1>1 DEF StartApplication, Command, StateAfter, Serving
<1>2. CASE \E c \in InfoCommands : GetInfo(c)
  BY <1>2 DEF GetInfo, Command, StateAfter, Serving
<1>3. ASSUME NEW c, Refuse(c) PROVE DFUTypeOK' /\ RangesKept'
  BY <1>3 DEF Refuse, Command, Serving
<1>4. ASSUME NEW r \in Ranges, SelectRead(r) PROVE DFUTypeOK' /\ RangesKept'
  <2>1. StartAddr' = r[2] /\ EndAddr' = r[3] BY <1>4 DEF SelectRead
  <2>2. r[2]..r[3] \subseteq FlashAddrs BY RangeFacts, DFUSizes DEF FlashAddrs
  <2>3. (StartAddr..EndAddr \subseteq FlashAddrs)' BY <2>1, <2>2
  <2> QED BY <1>4, <2>3 DEF SelectRead, Command, Serving
<1>5. ASSUME NEW r \in Ranges, BeginDownload(r) PROVE DFUTypeOK' /\ RangesKept'
  <2>1. target' = r /\ r # <<>> /\ r[2] \in Nat /\ r[3] \in Nat /\ r[2] <= r[3]
    BY <1>5, RangeFacts DEF BeginDownload, FlashAddrs
  <2>2. flash' \in [FlashAddrs -> Bytes] BY <1>5, <2>1, FlashTyped DEF BeginDownload
  <2>3. banked' \in 0..EPSIZE
    <3>1. banked' = Least(EPSIZE, Total(r)) - HEADER BY <1>5 DEF BeginDownload
    <3>2. EPSIZE <= Total(r) /\ Total(r) \in Nat BY TotalIs
    <3> QED BY <3>1, <3>2, DFUSizes DEF Least
  <2>4. DFUTypeOK'
    <3>1. /\ DFU_State' = "dfuDNLOAD_IDLE" /\ step' = "filler" /\ WaitForExit' = FALSE
          /\ UNCHANGED <<DFU_Status, IsSecure, RunBootloader, eeprom, pageFill, read>>
          /\ taken' = HEADER /\ bytesLeft' = Length(r) /\ discard' = FILLER
          /\ downloads' = downloads + 1 /\ downloads < MaxDownloads
      BY <1>5 DEF BeginDownload
    <3>2. downloads' \in 0..MaxDownloads BY <3>1, DFUSizes
    <3>3. taken' \in Nat /\ bytesLeft' \in Nat /\ discard' \in Nat
      BY <3>1, <2>1, DFUSizes DEF Length
    <3> QED BY <2>2, <2>3, <3>1, <3>2, <3>3
  <2>5. r[1] = "flash" => r[2] % 2 = 0 /\ Length(r) % 2 = 0 BY RangeFacts
  <2>6. Length(r) = r[3] + 1 - r[2] /\ Length(r) \in Nat BY <2>1 DEF Length
  <2>7. RangesKept' BY <1>5, <2>1, <2>5, <2>6 DEF BeginDownload
  <2> QED BY <2>4, <2>7
<1>6. CASE CheckBlank
  <2>1. CASE {a \in FlashAddrs : flash[a] # Blank} = {}
    BY <1>6, <2>1 DEF CheckBlank, Command, StateAfter, Serving
  <2>2. CASE {a \in FlashAddrs : flash[a] # Blank} # {}
    <3>1. DFU_State' = "dfuERROR" /\ DFU_Status' = "errCHECK_ERASED" BY <1>6, <2>2 DEF CheckBlank
    <3>2. /\ UNCHANGED <<IsSecure, RunBootloader, EndAddr, flash, pageFill, target, recvVars, eeprom,
                        downloads, since, before, fresh, read>>
          /\ WaitForExit' = FALSE /\ step = "idle"
      BY <1>6 DEF CheckBlank, Command, Serving
    <3> QED BY <3>1, <3>2
  <2> QED BY <2>1, <2>2
<1>7. CASE Erase
  <2>1. flash' \in [FlashAddrs -> Bytes] /\ pageFill' \in [0..(SPM_PAGESIZE - 1) -> Bytes]
    BY <1>7, FlashTyped, BufferTyped, ByteKinds DEF Erase
  <2> QED BY <1>7, <2>1 DEF Erase, Command, StateAfter, Serving
<1>8. CASE EmptyDownload BY <1>8 DEF EmptyDownload, StateAfter, Serving
<1>9. CASE DiscardByte
  <2>1. target \in Ranges BY <1>9 DEF DiscardByte
  <2>2. banked' \in 0..EPSIZE /\ taken' \in Nat
    BY <1>9, <2>1, PacketTyped, DFUSizes DEF DiscardByte
  <2> QED BY <1>9, <2>2 DEF DiscardByte
<1>10. CASE Discarded
  <2>1. target \in Ranges BY <1>10 DEF Discarded
  <2>2. discard' \in Nat BY <1>10, <2>1, TotalIs, DFUSizes DEF Discarded
  <2> QED BY <1>10, <2>2 DEF Discarded
<1>11. CASE DataPacket
  <2>1. target \in Ranges BY <1>11 DEF DataPacket
  <2>2. banked' \in 0..EPSIZE
    BY <1>11, <2>1, PacketTyped DEF DataPacket
  <2> QED BY <1>11, <2>2 DEF DataPacket
<1>12. CASE WriteWord
  <2>1. target \in Ranges /\ target # <<>> /\ target[1] = "flash" /\ step = "data" BY <1>12 DEF WriteWord
  <2>2. \A p : StreamByte(p) \in Bytes BY <2>1, StreamTyped
  <2> DEFINE high == IF banked > 1 THEN StreamByte(taken + 1) ELSE Filler
             fill == Loaded(cursor % SPM_PAGESIZE, StreamByte(taken), high)
             commit == cursor + 2 - pageStart = SPM_PAGESIZE \/ bytesLeft' < 2
             page == IF commit THEN Programmed(flash, fill, pageStart) ELSE flash
  <2>3. high \in Bytes BY <2>2, ByteKinds
  <2>4. fill \in [0..(SPM_PAGESIZE - 1) -> Bytes] BY <2>2, <2>3, LoadedTyped
  <2>5. pageFill' = IF commit THEN BlankFill ELSE fill BY <1>12 DEF WriteWord
  <2>6. flash' = IF commit /\ bytesLeft' >= 2 THEN Erased(page, cursor') ELSE page
    BY <1>12 DEF WriteWord
  <2>7. /\ bytesLeft' = bytesLeft - 2 /\ cursor' = cursor + 2
        /\ taken' = taken + Least(2, banked) /\ banked' = banked - Least(2, banked) /\ banked > 0
        /\ IF bytesLeft' < 2 THEN step' = "suffix" /\ discard' = SUFFIX /\ StartAddr' = EndAddr
                             ELSE UNCHANGED <<step, discard, StartAddr>>
        /\ UNCHANGED <<stateVars, EndAddr, eeprom, history>>
    BY <1>12 DEF WriteWord
  <2> HIDE DEF high, fill, commit, page
  <2>8. pageFill' \in [0..(SPM_PAGESIZE - 1) -> Bytes] BY <2>4, <2>5, BufferTyped
  <2>9. target[2] \in Nat /\ target[3] \in Nat BY <2>1, RangeFacts DEF FlashAddrs
  <2>10. /\ cursor \in target[2]..target[3] /\ bytesLeft = target[3] + 1 - cursor
         /\ cursor % 2 = 0 /\ bytesLeft % 2 = 0 BY <2>1
  <2>11. /\ bytesLeft' \in Nat /\ cursor' \in Nat
         /\ bytesLeft' >= 2 => cursor' \in target[2]..target[3]
         /\ bytesLeft' = target[3] + 1 - cursor' /\ cursor' % 2 = 0 /\ bytesLeft' % 2 = 0
    <3>1. bytesLeft' = bytesLeft - 2 /\ cursor' = cursor + 2 BY <2>7
    <3>2. cursor \in Nat /\ bytesLeft \in Nat /\ bytesLeft >= 2 BY <2>9, <2>10
    <3>3. cursor' % 2 = 0 /\ bytesLeft' % 2 = 0 BY <2>10, <3>1, <3>2
    <3> DEFINE a == target[2]
               b == target[3]
    <3>4. /\ a \in Nat /\ b \in Nat /\ cursor \in a..b /\ bytesLeft = b + 1 - cursor
      BY <2>9, <2>10
    <3> HIDE DEF a, b
    <3>5. /\ bytesLeft' \in Nat /\ cursor' \in Nat /\ bytesLeft' = b + 1 - cursor'
          /\ bytesLeft' >= 2 => cursor' \in a..b
      BY <3>1, <3>2, <3>4
    <3> QED BY <3>3, <3>5 DEF a, b
  <2>12. page \in [FlashAddrs -> Bytes] /\ flash' \in [FlashAddrs -> Bytes]
    <3>1. page \in [FlashAddrs -> Bytes] BY <2>4, FlashTyped DEF page
    <3> QED BY <2>6, <3>1, FlashTyped
  <2>13. taken' \in Nat /\ banked' \in 0..EPSIZE BY <2>7, DFUSizes DEF Least
  <2>14. discard' \in Nat /\ step' \in {"data", "suffix"} /\ (step' = "data" <=> bytesLeft' >= 2)
    <3>1. CASE bytesLeft' < 2 BY <2>7, <2>11, <3>1, DFUSizes
    <3>2. CASE bytesLeft' >= 2
      <4>1. ~(bytesLeft' < 2) BY <2>11, <3>2
      <4>2. step' = step /\ discard' = discard BY <2>7, <4>1
      <4> QED BY <2>1, <3>2, <4>2
    <3> QED BY <2>11, <3>1, <3>2
  <2>15. DFUTypeOK' BY <2>7, <2>8, <2>11, <2>12, <2>13, <2>14
  <2>16. RangesKept'
    <3>1. target' = target BY <2>7
    <3>2. ~(step' \in {"filler", "align"}) /\ (step' = "data" => bytesLeft' >= 2) BY <2>14
    <3>3. DFU_State' = DFU_State /\ EndAddr' = EndAddr BY <2>7
    <3> QED BY <2>1, <2>11, <3>1, <3>2, <3>3
  <2> QED BY <2>15, <2>16
<1>13. CASE WriteByte
  <2>1. target \in Ranges /\ target # <<>> /\ target[1] = "eeprom" /\ step = "data" BY <1>13 DEF WriteByte
  <2>2. StreamByte(taken) \in Bytes BY <2>1, StreamTyped
  <2>3. /\ eeprom' = [eeprom EXCEPT ![cursor] = StreamByte(taken)]
        /\ taken' = taken + 1 /\ banked' = banked - 1 /\ banked > 0
        /\ bytesLeft' = bytesLeft - 1 /\ cursor' = cursor + 1 /\ pageFill' = BlankFill
        /\ IF bytesLeft' = 0 THEN step' = "suffix" /\ discard' = SUFFIX
                             ELSE UNCHANGED <<step, discard>>
        /\ UNCHANGED <<stateVars, EndAddr, flash, history>>
    BY <1>13 DEF WriteByte
  <2>4. target[2] \in Nat /\ target[3] \in Nat BY <2>1, RangeFacts DEF FlashAddrs
  <2>5. cursor \in target[2]..target[3] /\ bytesLeft = target[3] + 1 - cursor BY <2>1
  <2>6. /\ bytesLeft' \in Nat
        /\ bytesLeft' # 0 => cursor' \in target[2]..target[3]
        /\ bytesLeft' = target[3] + 1 - cursor'
    <3>1. bytesLeft' = bytesLeft - 1 /\ cursor' = cursor + 1 BY <2>3
    <3> DEFINE a == target[2]
               b == target[3]
    <3>2. a \in Nat /\ b \in Nat /\ cursor \in a..b /\ bytesLeft = b + 1 - cursor BY <2>4, <2>5
    <3> HIDE DEF a, b
    <3>3. /\ bytesLeft' \in Nat /\ bytesLeft' = b + 1 - cursor'
          /\ bytesLeft' # 0 => cursor' \in a..b
      BY <3>1, <3>2
    <3> QED BY <3>3 DEF a, b
  <2>7. banked' \in 0..EPSIZE /\ taken' \in Nat /\ eeprom' \in [EEPROMAddrs -> Bytes]
        /\ step' \in {"data", "suffix"} /\ discard' \in Nat
    <3>1. banked' \in 0..EPSIZE /\ taken' \in Nat BY <2>3, DFUSizes
    <3>2. eeprom' \in [EEPROMAddrs -> Bytes] BY <2>2, <2>3
    <3>3. step' \in {"data", "suffix"} /\ discard' \in Nat BY <2>1, <2>3, DFUSizes
    <3> QED BY <3>1, <3>2, <3>3
  <2>8. DFUTypeOK'
    <3>1. UNCHANGED <<stateVars, flash, downloads, read>> BY <2>3
    <3>2. pageFill' \in [0..(SPM_PAGESIZE - 1) -> Bytes] BY <2>3, BufferTyped
    <3>3. /\ DFU_State' = DFU_State /\ DFU_Status' = DFU_Status /\ IsSecure' = IsSecure
          /\ RunBootloader' = RunBootloader /\ WaitForExit' = WaitForExit
          /\ flash' = flash /\ downloads' = downloads /\ read' = read /\ bytesLeft' \in Nat
      BY <3>1, <2>6
    <3> QED BY <2>7, <3>2, <3>3
  <2>9. RangesKept'
    <3>1. step' = "data" => bytesLeft' # 0 BY <2>1, <2>3
    <3>2. /\ target' = target /\ DFU_State' = "dfuDNLOAD_IDLE" /\ target # <<>>
          /\ step' \in {"data", "suffix"} /\ target[1] # "flash"
      BY <2>1, <2>3, <2>7
    <3>3. step' = "data" => cursor' \in target'[2]..target'[3] /\ bytesLeft' = target'[3] + 1 - cursor'
      BY <2>6, <3>1, <3>2
    <3>4. target' \in Ranges BY <2>1, <3>2
    <3> QED BY <3>2, <3>3, <3>4
  <2> QED BY <2>8, <2>9
<1>14. CASE EndDownload BY <1>14, DFUSizes DEF EndDownload, Return
<1>15. CASE Unattached BY <1>15, DFUSizes DEF Unattached, Return
<1>16. CASE Upload
  <2>1. read' \subseteq Bytes BY <1>16 DEF Upload
  <2> QED BY <1>16, <2>1 DEF Upload, Serving
<1>17. CASE ClearStatus BY <1>17 DEF ClearStatus, Serving
<1>18. CASE Abort BY <1>18 DEF Abort, Serving
<1>19. CASE Restart
  <2>1. IsSecure' \in BOOLEAN /\ RunBootloader' \in BOOLEAN /\ WaitForExit' \in BOOLEAN
    BY <1>19, DFUSizes DEF Restart
  <2>2. banked' \in 0..EPSIZE /\ pageFill' \in [0..(SPM_PAGESIZE - 1) -> Bytes]
    BY <1>19, BufferTyped, DFUSizes DEF Restart
  <2>3. DFUTypeOK' BY <1>19, <2>1, <2>2 DEF Restart
  <2>4. RangesKept' BY <1>19 DEF Restart
  <2> QED BY <2>3, <2>4
<1>20. CASE UNCHANGED dfuVars BY <1>20 DEF dfuVars
<1> QED
  BY <1>1, <1>2, <1>3, <1>4, <1>5, <1>6, <1>7, <1>8, <1>9, <1>10, <1>11, <1>12, <1>13, <1>14,
     <1>15, <1>16, <1>17, <1>18, <1>19, <1>20 DEF DFUNext

-----------------------------------------------------------------------------
(***************************************************************************)
(* Secure mode.                                                            *)
(***************************************************************************)
\* Neither blank memory nor filler is firmware, and the bytes of a download
\* begun since are not what was there.
LEMMA NewBytes ==
  ASSUME since \in Nat
  PROVE  /\ ~Old(Blank) /\ ~Old(Filler)
         /\ \A d \in Nat : \A a : since < d => ~Old(<<d, a>>)
<1>1. ~Old(Blank) BY ByteKinds, DFUSizes DEF Old, FlashAddrs
<1>2. ~Old(Filler) BY ByteKinds, DFUSizes DEF Old, FlashAddrs
<1>3. ASSUME NEW d \in Nat, NEW a, since < d PROVE ~Old(<<d, a>>)
  BY <1>3 DEF Old
<1> QED BY <1>1, <1>2, <1>3

LEMMA NewStream ==
  ASSUME NEW p, since \in Nat, downloads \in Nat, since < downloads
  PROVE  ~Old(StreamByte(p))
BY NewBytes DEF StreamByte

LEMMA NewFlash ==
  ASSUME NEW mem \in [FlashAddrs -> Bytes], NEW fill \in [0..(SPM_PAGESIZE - 1) -> Bytes], NEW a,
         since \in Nat,
         \A b \in FlashAddrs : ~Old(mem[b]), \A o \in 0..(SPM_PAGESIZE - 1) : ~Old(fill[o])
  PROVE  /\ \A b \in FlashAddrs : ~Old(Erased(mem, a)[b])
         /\ \A b \in FlashAddrs : ~Old(Programmed(mem, fill, a)[b])
<1>1. \A b \in FlashAddrs : b % SPM_PAGESIZE \in 0..(SPM_PAGESIZE - 1) BY DFUSizes DEF FlashAddrs
<1>2. \A b \in FlashAddrs : ~Old(Erased(mem, a)[b]) BY NewBytes DEF Erased
<1>3. ASSUME NEW b \in FlashAddrs PROVE ~Old(Programmed(mem, fill, a)[b])
  <2>1. Programmed(mem, fill, a)[b] \in {mem[b], fill[b % SPM_PAGESIZE], Filler} BY DEF Programmed
  <2> QED BY <1>1, <2>1, NewBytes
<1> QED BY <1>2, <1>3

LEMMA SecretsInit == DFUInit => Secrets
<1> SUFFICES ASSUME DFUInit PROVE Secrets OBVIOUS
<1>1. \A o \in 0..(SPM_PAGESIZE - 1) : ~Old(pageFill[o])
  BY BufferTyped, NewBytes DEF DFUInit
<1> QED BY <1>1 DEF DFUInit, Secrets

LEMMA SecretsNext ==
  DFUTypeOK /\ RangesKept /\ Secrets /\ [DFUNext]_dfuVars => Secrets'
<1> SUFFICES ASSUME DFUTypeOK, RangesKept, Secrets, [DFUNext]_dfuVars PROVE Secrets'
  OBVIOUS
<1> USE DEF Secrets
<1>0. since \in Nat /\ downloads \in Nat BY DEF DFUTypeOK
<1>s. CASE ~SECURE_MODE
  <2>1. (since \in 0..downloads)'
    <3>1. CASE UNCHANGED <<since, downloads>> BY <3>1
    <3>2. CASE since' = since /\ downloads' = downloads + 1 BY <1>0, <3>2
    <3>3. CASE since' = downloads /\ downloads' = downloads BY <1>0, <3>3
    <3> QED
      BY <3>1, <3>2, <3>3 DEF DFUNext, StartApplication, GetInfo, Refuse, SelectRead, BeginDownload,
         CheckBlank, Erase, EmptyDownload, DiscardByte, Discarded, DataPacket, WriteWord, WriteByte,
         EndDownload, Unattached, Upload, ClearStatus, Abort, Restart, Command, Return, dfuVars
  <2> QED BY <1>s, <2>1
<1> SUFFICES ASSUME SECURE_MODE PROVE Secrets' BY <1>s
<1> USE <1>0
<1>1. CASE \E c \in StartCommands : StartApplication(c)
  BY <1>1 DEF StartApplication, Command, StateAfter, Old
<1>2. CASE \E c \in InfoCommands : GetInfo(c)
  BY <1>2 DEF GetInfo, Command, StateAfter, Old
<1>3. ASSUME NEW c, Refuse(c) PROVE Secrets'
  BY <1>3 DEF Refuse, Command, Old
<1>4. ASSUME NEW r \in Ranges, SelectRead(r) PROVE Secrets'
  <2>1. ~IsSecure BY <1>4 DEF SelectRead, Refused, DispData, EraseFlash, Cmd
  <2> QED BY <1>4, <2>1 DEF SelectRead, Command, Old
<1>5. ASSUME NEW r \in Ranges, BeginDownload(r) PROVE Secrets'
  <2>1. ~IsSecure BY <1>5 DEF BeginDownload, Refused, ProgStart, EraseFlash, Cmd
  <2>2. \A a \in FlashAddrs : ~Old(flash'[a])
    BY <1>5, <2>1, NewFlash DEF BeginDownload, DFUTypeOK
  <2>3. UNCHANGED <<IsSecure, since, pageFill, read>> /\ downloads' = downloads + 1
    BY <1>5 DEF BeginDownload
  <2>4. \A b : Old(b)' <=> Old(b) BY <2>3 DEF Old
  <2> QED BY <2>1, <2>2, <2>3, <2>4
<1>6. CASE CheckBlank
  <2>1. DFU_State' \in {StateAfter(DFU_State), "dfuERROR"} BY <1>6 DEF CheckBlank
  <2>2. UNCHANGED <<IsSecure, since, pageFill, read, flash, downloads, step>>
    BY <1>6 DEF CheckBlank, Command
  <2>3. DFU_State' = "dfuUPLOAD_IDLE" => DFU_State = "dfuUPLOAD_IDLE" BY <2>1 DEF StateAfter
  <2> QED BY <2>2, <2>3 DEF Old
<1>7. CASE Erase
  <2>1. flash' = Programmed([a \in FlashAddrs |-> Blank], pageFill, 0) /\ pageFill' = BlankFill
    BY <1>7 DEF Erase
  <2>2. [a \in FlashAddrs |-> Blank] \in [FlashAddrs -> Bytes] BY ByteKinds
  <2>3. \A a \in FlashAddrs : ~Old([b \in FlashAddrs |-> Blank][a]) BY NewBytes
  <2>4. pageFill \in [0..(SPM_PAGESIZE - 1) -> Bytes] BY DEF DFUTypeOK
  <2>5. \A a \in FlashAddrs : ~Old(flash'[a]) BY <2>1, <2>2, <2>3, <2>4, NewFlash
  <2>6. \A o \in 0..(SPM_PAGESIZE - 1) : ~Old(pageFill'[o]) BY <2>1, BufferTyped, NewBytes
  <2>7. UNCHANGED <<since, downloads, step, read>> /\ IsSecure' = FALSE /\ step = "idle"
    BY <1>7 DEF Erase, Command, Serving
  <2>8. \A b : Old(b)' <=> Old(b) BY <2>7 DEF Old
  <2> QED BY <2>5, <2>6, <2>7, <2>8
<1>8. CASE EmptyDownload BY <1>8 DEF EmptyDownload, StateAfter, Old
<1>9. CASE DiscardByte BY <1>9 DEF DiscardByte, Old
<1>10. CASE Discarded BY <1>10 DEF Discarded, Old
<1>11. CASE DataPacket BY <1>11 DEF DataPacket, Old
<1>12. CASE WriteWord
  <2> DEFINE high == IF banked > 1 THEN StreamByte(taken + 1) ELSE Filler
             fill == Loaded(cursor % SPM_PAGESIZE, StreamByte(taken), high)
             commit == cursor + 2 - pageStart = SPM_PAGESIZE \/ bytesLeft' < 2
             page == IF commit THEN Programmed(flash, fill, pageStart) ELSE flash
  <2>1. /\ pageFill' = IF commit THEN BlankFill ELSE fill
        /\ flash' = IF commit /\ bytesLeft' >= 2 THEN Erased(page, cursor') ELSE page
        /\ UNCHANGED <<IsSecure, since, downloads, read, DFU_State>>
        /\ step = "data" /\ step' \in {"data", "suffix"}
    BY <1>12 DEF WriteWord
  <2>2. ~IsSecure /\ since < downloads /\ target \in Ranges BY <2>1 DEF RangesKept
  <2>3. \A p : StreamByte(p) \in Bytes /\ ~Old(StreamByte(p))
    BY <2>2, StreamTyped, NewStream DEF DFUTypeOK
  <2>4. high \in Bytes /\ ~Old(high) BY <2>3, ByteKinds, NewBytes
  <2> HIDE DEF high
  <2>5. fill \in [0..(SPM_PAGESIZE - 1) -> Bytes] BY <2>3, <2>4, LoadedTyped DEF DFUTypeOK
  <2>6. \A o \in 0..(SPM_PAGESIZE - 1) : ~Old(fill[o])
    BY <2>3, <2>4 DEF Loaded, DFUTypeOK
  <2> HIDE DEF fill, commit
  <2>7. page \in [FlashAddrs -> Bytes] /\ \A a \in FlashAddrs : ~Old(page[a])
    BY <2>2, <2>5, <2>6, NewFlash, FlashTyped DEF DFUTypeOK
  <2> HIDE DEF page
  <2>8. \A a \in FlashAddrs : ~Old(flash'[a]) BY <2>1, <2>5, <2>6, <2>7, NewFlash
  <2>9. \A o \in 0..(SPM_PAGESIZE - 1) : ~Old(pageFill'[o]) BY <2>1, <2>6, BufferTyped, NewBytes
  <2>10. \A b : Old(b)' <=> Old(b) BY <2>1 DEF Old
  <2> QED BY <2>1, <2>2, <2>8, <2>9, <2>10
<1>13. CASE WriteByte
  <2>1. UNCHANGED <<IsSecure, since, downloads, read, flash, DFU_State>> /\ pageFill' = BlankFill
        /\ step # "idle"
    BY <1>13 DEF WriteByte
  <2>2. \A b : Old(b)' <=> Old(b) BY <2>1 DEF Old
  <2>3. \A o \in 0..(SPM_PAGESIZE - 1) : ~Old(pageFill'[o]) BY <2>1, BufferTyped, NewBytes
  <2> QED BY <2>1, <2>2, <2>3
<1>14. CASE EndDownload BY <1>14 DEF EndDownload, Return, Old
<1>15. CASE Unattached BY <1>15 DEF Unattached, Return, Old
<1>16. CASE Upload
  <2>1. UNCHANGED <<IsSecure, since, downloads, flash, pageFill, step>> /\ step = "idle"
        /\ (DFU_State' = "dfuUPLOAD_IDLE" => DFU_State = "dfuUPLOAD_IDLE")
    BY <1>16 DEF Upload, Serving
  <2>2. \A b : Old(b)' <=> Old(b) BY <2>1 DEF Old
  <2>3. \A b \in read' : ~Old(b)
    <3>1. CASE read' = read BY <3>1
    <3>2. CASE DFU_State = "dfuUPLOAD_IDLE" /\ read' = read \cup {flash[a] : a \in StartAddr..EndAddr}
      <4>1. ~IsSecure /\ StartAddr..EndAddr \subseteq FlashAddrs BY <3>2 DEF RangesKept
      <4> QED BY <3>2, <4>1
    <3> QED BY <1>16, <3>1, <3>2 DEF Upload
  <2> QED BY <2>1, <2>2, <2>3
<1>17. CASE ClearStatus BY <1>17 DEF ClearStatus, Old
<1>18. CASE Abort BY <1>18 DEF Abort, Old
<1>19. CASE Restart
  <2>1. IsSecure' /\ DFU_State' = "dfuIDLE" /\ step' = "idle" /\ since' = downloads
        /\ downloads' = downloads /\ read' = {} /\ pageFill' = BlankFill
    BY <1>19 DEF Restart
  <2>2. \A o \in 0..(SPM_PAGESIZE - 1) : ~Old(Blank)' /\ pageFill'[o] = Blank
    <3>1. since' \in Nat BY <2>1
    <3>2. ~Old(Blank)' BY <3>1, ByteKinds, DFUSizes DEF Old, FlashAddrs
    <3> QED BY <2>1, <3>2, BufferTyped
  <2>3. \A o \in 0..(SPM_PAGESIZE - 1) : ~Old(pageFill[o])' BY <2>1, <2>2 DEF Old
  <2> QED BY <2>1, <2>3
<1>20. CASE UNCHANGED dfuVars BY <1>20 DEF dfuVars, Old
<1> QED
  BY <1>1, <1>2, <1>3, <1>4, <1>5, <1>6, <1>7, <1>8, <1>9, <1>10, <1>11, <1>12, <1>13, <1>14,
     <1>15, <1>16, <1>17, <1>18, <1>19, <1>20 DEF DFUNext

-----------------------------------------------------------------------------
(***************************************************************************)
(* Downloads.                                                              *)
(***************************************************************************)
downloadVars == <<target, fresh, step, banked, discard, taken, cursor, pageStart, pageFill, flash,
                  eeprom, downloads, before>>

LEMMA DownloadInit == DFUInit => DownloadSoFar
BY DEF DFUInit, DownloadSoFar

LEMMA DownloadStands == DownloadSoFar /\ UNCHANGED downloadVars => DownloadSoFar'
BY DEF downloadVars, DownloadSoFar, PacketsKept, PageUnderWay, PagesDone, Sent, Landed, Total, Lead

\* The data of an aligned download begin with a packet.
LEMMA AlignedLead ==
  ASSUME NEW r \in Ranges, Aligned(r)
  PROVE  Lead(r) = EPSIZE /\ Total(r) = EPSIZE + Length(r) + SUFFIX
<1>1. r[2] % EPSIZE = 0 BY DEF Aligned
<1>2. Lead(r) = EPSIZE BY <1>1, TotalIs, DFUSizes
<1> QED BY <1>2, TotalIs

\* A byte of such a download is the one for the cursor's address.
LEMMA StreamAligned ==
  ASSUME target \in Ranges, Aligned(target), NEW a \in target[2]..target[3]
  PROVE  StreamByte(EPSIZE + (a - target[2])) = Sent(a)
<1>1. target[2] \in Nat /\ target[3] \in Nat BY RangeFacts DEF FlashAddrs
<1>2. Lead(target) = EPSIZE /\ EPSIZE \in Nat BY AlignedLead, DFUSizes
<1> DEFINE p == EPSIZE + (a - target[2])
<1>3. p \in EPSIZE..(EPSIZE + Length(target) - 1) /\ target[2] + p - EPSIZE = a
  BY <1>1, <1>2 DEF Length
<1> HIDE DEF p
<1>4. StreamByte(p) = <<downloads, target[2] + p - EPSIZE>> BY <1>2, <1>3 DEF StreamByte
<1> QED BY <1>3, <1>4 DEF Sent, p

LEMMA DownloadBegins ==
  ASSUME NEW r \in Ranges, BeginDownload(r), DFUTypeOK, RangesKept
  PROVE  DownloadSoFar'
<1> SUFFICES ASSUME Aligned(r), fresh'
             PROVE  /\ PacketsKept'
                    /\ r[1] = "flash"  => PageUnderWay' /\ PagesDone'
                    /\ r[1] = "eeprom" => flash' = before' /\ cursor' = r[2]
  <2>1. target' = r /\ step' = "filler" /\ r[2] \in Nat BY RangeFacts DEF BeginDownload, FlashAddrs
  <2>2. (\A a \in target[2]..(cursor - 1) : eeprom[a] = Sent(a))' \/ cursor' # r[2] BY <2>1
  <2> QED BY <2>1, <2>2 DEF DownloadSoFar, Aligned
<1>1. /\ target' = r /\ step' = "filler" /\ cursor' = r[2] /\ pageStart' = r[2]
      /\ taken' = HEADER /\ banked' = Least(EPSIZE, Total(r)) - HEADER /\ discard' = FILLER
      /\ before' = flash /\ pageFill' = pageFill /\ pageFill = BlankFill
      /\ flash' = IF r[1] = "flash" THEN Erased(flash, r[2]) ELSE flash
  BY DEF BeginDownload
<1>2. r[2] \in Nat /\ r[3] \in Nat /\ r[2] <= r[3] BY RangeFacts DEF FlashAddrs
<1>3. PacketsKept'
  <2>1. EPSIZE <= Total(r) /\ Total(r) \in Nat BY TotalIs
  <2>2. banked' = FILLER BY <1>1, <2>1, DFUSizes DEF Least
  <2> QED BY <1>1, <2>2, DFUSizes DEF PacketsKept
<1>4. ASSUME r[1] = "flash" PROVE PageUnderWay' /\ PagesDone'
  <2>1. r[2] % 2 = 0 /\ r[2] \in PageOf(r[2]) BY <1>2, <1>4, RangeFacts, PageOfOwn
  <2>2. \A a \in PageOf(r[2]) : pageFill'[a % SPM_PAGESIZE] = Blank
    <3>1. \A a \in Nat : a % SPM_PAGESIZE \in 0..(SPM_PAGESIZE - 1) BY DFUSizes
    <3> QED BY <1>1, <1>2, <3>1, PageOfOwn, BufferTyped
  <2>3. \A a \in PageOf(r[2]) \cap FlashAddrs : flash'[a] = Blank BY <1>1, <1>4 DEF Erased
  <2>4. r[2] % SPM_PAGESIZE = 0 \/ r[3] \in PageOf(r[2]) BY <1>4 DEF Aligned
  <2>5. PageUnderWay' BY <1>1, <1>2, <2>1, <2>2, <2>3, <2>4, DFUSizes DEF PageUnderWay
  <2>6. \A a \in FlashAddrs \ PagesOf(r) : flash'[a] = flash[a]
    <3>1. PageOf(r[2]) \subseteq PagesOf(r) BY <1>2, <1>4 DEF PagesOf
    <3> QED BY <1>1, <1>4, <3>1 DEF Erased
  <2>7. PagesDone' BY <1>1, <1>2, <2>6 DEF PagesDone
  <2> QED BY <2>5, <2>7
<1> QED BY <1>1, <1>3, <1>4

\* The filler ends with the packet, and the data begin with the next.
LEMMA DownloadSkips ==
  ASSUME DFUTypeOK, RangesKept, DownloadSoFar, DiscardByte \/ Discarded \/ DataPacket
  PROVE  DownloadSoFar'
<1>1. /\ UNCHANGED <<target, fresh, cursor, pageStart, pageFill, flash, eeprom, downloads, before>>
      /\ target \in Ranges /\ step # "idle"
  BY DEF DiscardByte, Discarded, DataPacket, RangesKept
<1>2. \/ step' \in {"filler", "align", "data"} /\ step \in {"filler", "align", "data"}
      \/ step' = "suffix" /\ step = "suffix"
  BY DEF DiscardByte, Discarded, DataPacket, DFUTypeOK
<1>3. ASSUME Aligned(target), fresh PROVE PacketsKept'
  <2>1. PacketsKept BY <1>1, <1>3, RangeFacts DEF DownloadSoFar
  <2>2. /\ EPSIZE \in Nat \ {0} /\ Total(target) = EPSIZE + Length(target) + SUFFIX
        /\ Total(target) \in Nat /\ banked \in Nat /\ taken \in Nat /\ discard \in Nat
    BY <1>1, <1>3, AlignedLead, TotalIs, DFUSizes DEF DFUTypeOK
  <2>3. CASE DiscardByte
    <3>1. step' = step /\ discard' = discard - 1 /\ discard > 0 /\ step \in {"filler", "align", "suffix"}
      BY <2>3 DEF DiscardByte
    <3>2. CASE step = "filler"
      <4>1. banked' = banked - 1 /\ taken' = taken + 1
        BY <2>1, <2>2, <2>3, <3>1, <3>2 DEF PacketsKept, DiscardByte, NextPacket
      <4> QED BY <2>1, <2>2, <3>1, <3>2, <4>1 DEF PacketsKept
    <3>3. step # "align" BY <2>1, <3>1 DEF PacketsKept
    <3> QED BY <3>1, <3>2, <3>3 DEF PacketsKept
  <2>4. CASE Discarded
    <3>1. discard = 0 /\ UNCHANGED <<taken, banked>> BY <2>4 DEF Discarded
    <3>2. CASE step = "filler"
      <4>1. StartAddr % EPSIZE = 0 BY <1>3, <3>2 DEF RangesKept, Aligned
      <4>2. step' = "align" /\ discard' = 0 BY <2>4, <3>2, <4>1 DEF Discarded
      <4> QED BY <2>1, <2>2, <3>1, <3>2, <4>2 DEF PacketsKept
    <3>3. CASE step = "align"
      <4>1. step' = "data" BY <2>4, <3>3 DEF Discarded
      <4>2. cursor = target[2] /\ target[2] \in Nat BY <1>1, <3>3, RangeFacts DEF RangesKept, FlashAddrs
      <4>3. taken' = EPSIZE /\ banked' = 0 BY <2>1, <3>1, <3>3 DEF PacketsKept
      <4>4. EPSIZE + (cursor' - target'[2]) = EPSIZE /\ (EPSIZE + 0) % EPSIZE = 0
        <5>1. (0 + EPSIZE) % EPSIZE = 0 BY <2>2, ModNext
        <5> QED BY <1>1, <2>2, <4>2, <5>1
      <4> QED BY <4>1, <4>3, <4>4 DEF PacketsKept
    <3> QED BY <2>4, <3>2, <3>3 DEF Discarded
  <2>5. CASE DataPacket
    <3>1. /\ step = "data" /\ step' = "data" /\ taken' = taken /\ banked = 0 /\ taken < Total(target)
          /\ banked' = Least(EPSIZE, Total(target) - taken)
      BY <2>5 DEF DataPacket, NextPacket
    <3>2. taken = EPSIZE + (cursor - target[2]) /\ taken % EPSIZE = 0
      BY <2>1, <2>2, <3>1 DEF PacketsKept
    <3>3. (taken + EPSIZE) % EPSIZE = 0 BY <2>2, <3>2, ModNext
    <3>4. banked' = EPSIZE \/ taken + banked' = Total(target) BY <2>2, <3>1 DEF Least
    <3>5. Total(target)' = Total(target) BY <1>1 DEF Total, Lead, Length
    <3> QED BY <1>1, <3>1, <3>2, <3>3, <3>4, <3>5 DEF PacketsKept
  <2> QED BY <2>3, <2>4, <2>5
<1>4. ASSUME Aligned(target), fresh, step \in {"filler", "align", "data"}
      PROVE  /\ (target[1] = "flash"  => PageUnderWay /\ PagesDone)'
             /\ (target[1] = "eeprom" => /\ flash = before
                                         /\ \A a \in target[2]..(cursor - 1) : eeprom[a] = Sent(a))'
  <2>1. /\ (target[1] = "flash"  => PageUnderWay /\ PagesDone)
        /\ (target[1] = "eeprom" => /\ flash = before
                                    /\ \A a \in target[2]..(cursor - 1) : eeprom[a] = Sent(a))
    BY <1>1, <1>4, RangeFacts DEF DownloadSoFar
  <2> QED BY <1>1, <2>1 DEF PageUnderWay, PagesDone, Sent
<1>5. ASSUME Aligned(target), fresh, step = "suffix" PROVE Landed(target)'
  <2>1. Landed(target) BY <1>1, <1>5, RangeFacts DEF DownloadSoFar
  <2> QED BY <1>1, <2>1 DEF Landed
<1>6. Aligned(target)' <=> Aligned(target) BY <1>1 DEF Aligned
<1> QED BY <1>1, <1>2, <1>3, <1>4, <1>5, <1>6 DEF DownloadSoFar

\* In an aligned download to flash every word is whole in its packet.
LEMMA WholeWord ==
  ASSUME DFUTypeOK, RangesKept, PacketsKept, target \in Ranges, target[1] = "flash",
         Aligned(target), step = "data", banked > 0
  PROVE  /\ taken = EPSIZE + (cursor - target[2]) /\ banked >= 2
         /\ cursor \in target[2]..target[3] /\ cursor + 1 \in target[2]..target[3]
         /\ cursor % 2 = 0 /\ bytesLeft = target[3] + 1 - cursor /\ bytesLeft % 2 = 0
<1>1. /\ target[2] \in Nat /\ target[3] \in Nat /\ target[2] % 2 = 0
      /\ taken \in Nat /\ banked \in Nat /\ bytesLeft \in Nat
  BY RangeFacts DEF FlashAddrs, DFUTypeOK
<1>2. /\ cursor \in target[2]..target[3] /\ bytesLeft = target[3] + 1 - cursor
      /\ cursor % 2 = 0 /\ bytesLeft % 2 = 0
  BY DEF RangesKept
<1>3. /\ taken = EPSIZE + (cursor - target[2])
      /\ (taken + banked) % EPSIZE = 0 \/ taken + banked = Total(target)
  BY DEF PacketsKept
<1>4. EPSIZE \in Nat \ {0} /\ EPSIZE % 2 = 0 /\ SUFFIX \in Nat BY DFUSizes
<1> DEFINE s == target[2]
           e == target[3]
<1>5. s \in Nat /\ e \in Nat /\ s % 2 = 0 /\ cursor \in s..e /\ bytesLeft = e + 1 - cursor
      /\ taken = EPSIZE + (cursor - s)
  BY <1>1, <1>2, <1>3
<1>6. Total(target) = EPSIZE + (e + 1 - s) + SUFFIX BY <1>1, AlignedLead DEF Length
<1>7. taken + banked = Total(target) => banked = bytesLeft + SUFFIX
  <2> HIDE DEF s, e
  <2> QED BY <1>1, <1>4, <1>5, <1>6
<1> HIDE DEF s, e
<1>8. bytesLeft >= 2 /\ cursor + 1 \in s..e BY <1>2, <1>5
<1>9. taken % 2 = 0 BY <1>2, <1>4, <1>5
<1>10. banked >= 2
  <2>1. CASE (taken + banked) % EPSIZE = 0
    <3>1. taken + banked \in Nat BY <1>1
    <3>2. (taken + banked) % 2 = 0 BY <1>4, <2>1, <3>1, EvenMultiple
    <3> QED BY <1>1, <1>9, <3>2
  <2>2. CASE taken + banked = Total(target) BY <1>1, <1>4, <1>7, <1>8, <2>2
  <2> QED BY <1>3, <2>1, <2>2
<1> QED BY <1>2, <1>3, <1>8, <1>10 DEF s, e

\* A word goes to its place in the page buffer.
LEMMA WordLoaded ==
  ASSUME DFUTypeOK, PageUnderWay, target \in Ranges, cursor \in Nat, cursor % 2 = 0
  PROVE  LET fill == Loaded(cursor % SPM_PAGESIZE, Sent(cursor), Sent(cursor + 1))
         IN  \A a \in PageOf(pageStart) :
               fill[a % SPM_PAGESIZE] = IF a \in pageStart..(cursor + 1) THEN Sent(a) ELSE Blank
<1> DEFINE at == cursor % SPM_PAGESIZE
           fill == Loaded(at, Sent(cursor), Sent(cursor + 1))
<1>1. pageStart \in Nat /\ pageStart <= cursor /\ cursor \in PageOf(pageStart)
  <2>1. target[2] \in Nat BY RangeFacts DEF FlashAddrs
  <2> QED BY <2>1 DEF PageUnderWay
<1>2. cursor + 1 \in PageOf(pageStart) /\ (cursor + 1) % SPM_PAGESIZE = at + 1
  BY <1>1, WordInPage, SamePage
<1>3. \A a \in PageOf(pageStart) : a \in Nat /\ a % SPM_PAGESIZE \in 0..(SPM_PAGESIZE - 1)
  BY <1>1, PageOfOwn, DFUSizes
<1>4. \A a \in PageOf(pageStart) :
        pageFill[a % SPM_PAGESIZE] = IF a \in pageStart..(cursor - 1) THEN Sent(a) ELSE Blank
  BY DEF PageUnderWay
<1>5. pageFill[at] = Blank BY <1>1, <1>4
<1>6. fill = [pageFill EXCEPT ![at] = Sent(cursor), ![at + 1] = Sent(cursor + 1)]
  BY <1>5 DEF Loaded
<1>7. at \in 0..(SPM_PAGESIZE - 1) /\ at + 1 \in 0..(SPM_PAGESIZE - 1) BY <1>1, <1>2, <1>3
<1>8. DOMAIN pageFill = 0..(SPM_PAGESIZE - 1) BY DEF DFUTypeOK
<1>9. ASSUME NEW a \in PageOf(pageStart)
      PROVE  fill[a % SPM_PAGESIZE] = IF a \in pageStart..(cursor + 1) THEN Sent(a) ELSE Blank
  <2>1. CASE a = cursor
    <3>1. at # at + 1 BY <1>7
    <3>2. fill[at] = Sent(cursor) BY <1>6, <1>7, <1>8, <3>1
    <3>3. a \in pageStart..(cursor + 1) BY <1>1, <2>1
    <3> QED BY <2>1, <3>2, <3>3
  <2>2. CASE a = cursor + 1
    <3>1. fill[at + 1] = Sent(cursor + 1) BY <1>6, <1>7, <1>8
    <3> QED BY <1>1, <1>2, <2>2, <3>1
  <2>3. CASE a # cursor /\ a # cursor + 1
    <3>1. a % SPM_PAGESIZE # at /\ a % SPM_PAGESIZE # at + 1
      BY <1>1, <1>2, <2>3, OffsetsDiffer
    <3>2. fill[a % SPM_PAGESIZE] = pageFill[a % SPM_PAGESIZE] BY <1>3, <1>6, <1>8, <3>1
    <3>3. a \in pageStart..(cursor + 1) <=> a \in pageStart..(cursor - 1)
      BY <1>1, <1>3, <2>3
    <3> QED BY <1>4, <3>2, <3>3
  <2> QED BY <2>1, <2>2, <2>3
<1> QED BY <1>9

\* The page is written: what the buffer holds is in flash, and the pages
\* before it, and those that the download leaves alone, are as they were.
LEMMA PageWritten ==
  ASSUME DFUTypeOK, PageUnderWay, PagesDone, target \in Ranges, target[1] = "flash",
         cursor \in target[2]..target[3], cursor + 1 \in target[2]..target[3], cursor % 2 = 0,
         NEW fill \in [0..(SPM_PAGESIZE - 1) -> Bytes],
         \A a \in PageOf(pageStart) :
           fill[a % SPM_PAGESIZE] = IF a \in pageStart..(cursor + 1) THEN Sent(a) ELSE Blank
  PROVE  /\ \A a \in target[2]..(cursor + 1) : Programmed(flash, fill, pageStart)[a] = Sent(a)
         /\ \A a \in FlashAddrs \ PagesOf(target) : Programmed(flash, fill, pageStart)[a] = before[a]
<1> DEFINE page == Programmed(flash, fill, pageStart)
<1>1. target[2] \in Nat /\ target[3] \in FlashAddrs BY RangeFacts DEF FlashAddrs
<1>2. pageStart \in target[2]..cursor /\ pageStart \in Nat BY <1>1 DEF PageUnderWay
<1>3. \A a \in Nat : Sent(a) # Blank BY ByteKinds DEF Sent, DFUTypeOK
<1>4. target[2]..(cursor + 1) \subseteq FlashAddrs
  <2>1. cursor + 1 <= target[3] BY <1>1
  <2>2. target[3] \in 0..(BOOT_START_ADDR - 1) /\ BOOT_START_ADDR \in Nat
    BY <1>1, DFUSizes DEF FlashAddrs
  <2>3. \A a \in target[2]..(cursor + 1) : a \in 0..(BOOT_START_ADDR - 1) BY <1>1, <2>1, <2>2
  <2> QED BY <2>3 DEF FlashAddrs
<1>5. ASSUME NEW a \in target[2]..(cursor + 1) PROVE page[a] = Sent(a)
  <2>1. a \in FlashAddrs /\ a \in Nat BY <1>1, <1>4
  <2>2. CASE a < pageStart
    <3>1. a \notin PageOf(pageStart)
      <4>1. pageStart % SPM_PAGESIZE = 0 BY <1>1, <1>2, <2>2 DEF PageUnderWay
      <4>2. PageOf(pageStart) = pageStart..(pageStart + SPM_PAGESIZE - 1) BY <1>2, <4>1, PageFromStart
      <4> QED BY <1>2, <2>1, <2>2, <4>2
    <3>2. flash[a] = Sent(a) BY <1>1, <1>2, <2>1, <2>2 DEF PagesDone
    <3> QED BY <2>1, <3>1, <3>2 DEF Programmed
  <2>3. CASE a >= pageStart
    <3>1. a \in PageOf(pageStart)
      <4>1. cursor + 1 \in PageOf(pageStart)
        <5>1. cursor \in Nat BY <1>1
        <5> QED BY <1>2, <5>1, WordInPage, SamePage DEF PageUnderWay
      <4>2. pageStart \in PageOf(pageStart) BY <1>2, PageOfOwn
      <4>3. pageStart..(cursor + 1) \subseteq PageOf(pageStart) BY <1>2, <4>1, <4>2, PageConvex
      <4> QED BY <1>1, <1>2, <2>1, <2>3, <4>3
    <3>2. fill[a % SPM_PAGESIZE] = Sent(a) BY <1>1, <1>2, <2>1, <2>3, <3>1
    <3>3. flash[a] = Blank BY <2>1, <3>1 DEF PageUnderWay
    <3> QED BY <1>3, <2>1, <3>1, <3>2, <3>3 DEF Programmed
  <2> QED BY <1>2, <2>1, <2>2, <2>3
<1>6. ASSUME NEW a \in FlashAddrs \ PagesOf(target) PROVE page[a] = before[a]
  <2>1. pageStart \in target[2]..target[3] BY <1>1, <1>2 DEF FlashAddrs
  <2>2. PageOf(pageStart) \subseteq PagesOf(target) BY <2>1 DEF PagesOf
  <2> QED BY <2>2 DEF Programmed, PagesDone
<1> QED BY <1>5, <1>6

LEMMA DownloadWrites ==
  ASSUME DFUTypeOK, RangesKept, DownloadSoFar, WriteWord
  PROVE  DownloadSoFar'
<1> SUFFICES ASSUME Aligned(target), fresh PROVE DownloadSoFar'
  <2>1. target' = target /\ fresh' = fresh BY DEF WriteWord
  <2> QED BY <2>1 DEF DownloadSoFar, Aligned
<1> DEFINE high == IF banked > 1 THEN StreamByte(taken + 1) ELSE Filler
           fill == Loaded(cursor % SPM_PAGESIZE, StreamByte(taken), high)
           commit == cursor + 2 - pageStart = SPM_PAGESIZE \/ bytesLeft' < 2
           page == IF commit THEN Programmed(flash, fill, pageStart) ELSE flash
<1>1. /\ step = "data" /\ target[1] = "flash" /\ banked > 0
      /\ bytesLeft' = bytesLeft - 2 /\ cursor' = cursor + 2
      /\ taken' = taken + Least(2, banked) /\ banked' = banked - Least(2, banked)
      /\ pageFill' = IF commit THEN BlankFill ELSE fill
      /\ pageStart' = IF commit THEN cursor' ELSE pageStart
      /\ flash' = IF commit /\ bytesLeft' >= 2 THEN Erased(page, cursor') ELSE page
      /\ step' = IF bytesLeft' < 2 THEN "suffix" ELSE "data"
      /\ UNCHANGED <<target, fresh, eeprom, downloads, before>>
  BY DEF WriteWord
<1>2. target \in Ranges /\ target # <<>> BY <1>1 DEF RangesKept
<1>3. PacketsKept /\ PageUnderWay /\ PagesDone BY <1>1, <1>2 DEF DownloadSoFar
<1>4. /\ taken = EPSIZE + (cursor - target[2]) /\ banked >= 2
      /\ cursor \in target[2]..target[3] /\ cursor + 1 \in target[2]..target[3]
      /\ cursor % 2 = 0 /\ bytesLeft = target[3] + 1 - cursor /\ bytesLeft % 2 = 0
  BY <1>1, <1>2, <1>3, WholeWord
<1>5. /\ target[2] \in Nat /\ target[3] \in FlashAddrs /\ target[3] \in Nat /\ cursor \in Nat
      /\ EPSIZE \in Nat \ {0} /\ SPM_PAGESIZE \in Nat \ {0} /\ SPM_PAGESIZE % 2 = 0
      /\ banked \in Nat /\ taken \in Nat
  BY <1>2, <1>4, RangeFacts, DFUSizes DEF FlashAddrs, DFUTypeOK
<1>6. StreamByte(taken) = Sent(cursor) /\ StreamByte(taken + 1) = Sent(cursor + 1)
  <2>1. taken + 1 = EPSIZE + ((cursor + 1) - target[2]) BY <1>4, <1>5
  <2> QED BY <1>2, <1>4, <2>1, StreamAligned
<1>7. high = Sent(cursor + 1) /\ high \in Bytes
  <2>1. banked > 1 BY <1>4, <1>5
  <2> QED BY <1>2, <1>6, <2>1, StreamTyped DEF DFUTypeOK
<1>8. \A a \in PageOf(pageStart) :
        fill[a % SPM_PAGESIZE] = IF a \in pageStart..(cursor + 1) THEN Sent(a) ELSE Blank
  BY <1>2, <1>3, <1>4, <1>5, <1>6, <1>7, WordLoaded
<1>9. fill \in [0..(SPM_PAGESIZE - 1) -> Bytes]
  BY <1>2, <1>7, StreamTyped, LoadedTyped DEF DFUTypeOK
<1> HIDE DEF high, fill
<1>10. /\ pageStart \in target[2]..cursor /\ pageStart \in Nat /\ pageStart % 2 = 0
       /\ cursor \in PageOf(pageStart) /\ cursor - pageStart < SPM_PAGESIZE
       /\ pageStart % SPM_PAGESIZE = 0 \/ (pageStart = target[2] /\ target[3] \in PageOf(pageStart))
  BY <1>3, <1>5 DEF PageUnderWay
<1>11. taken' = taken + 2 /\ banked' = banked - 2 BY <1>1, <1>4, <1>5 DEF Least
<1>12. PacketsKept'
  <2>1. taken' = EPSIZE + (cursor' - target[2]) BY <1>1, <1>4, <1>5, <1>11
  <2>2. taken' + banked' = taken + banked BY <1>5, <1>11
  <2>3. (taken + banked) % EPSIZE = 0 \/ taken + banked = Total(target)
    BY <1>1, <1>3 DEF PacketsKept
  <2>4. Total(target)' = Total(target) BY <1>1 DEF Total, Lead, Length
  <2>5. step' \in {"suffix", "data"} BY <1>1
  <2> QED BY <1>1, <2>1, <2>2, <2>3, <2>4, <2>5 DEF PacketsKept
<1>13. \A a : Sent(a)' = Sent(a) BY <1>1 DEF Sent
<1>14. bytesLeft' >= 2 => cursor + 2 \in target[2]..target[3]
  BY <1>1, <1>4, <1>5
<1>15. CASE ~commit
  <2>1. pageFill' = fill /\ pageStart' = pageStart /\ flash' = flash /\ step' = "data"
        /\ cursor' = cursor + 2 /\ bytesLeft' >= 2 /\ cursor + 2 - pageStart # SPM_PAGESIZE
    <3>1. bytesLeft' \in Nat BY <1>1, <1>4, <1>5
    <3> QED BY <1>1, <1>15, <3>1
  <2>2. cursor + 2 - pageStart < SPM_PAGESIZE BY <1>4, <1>5, <1>10, <2>1
  <2>3. cursor + 2 \in PageOf(pageStart)
    <3>1. CASE pageStart % SPM_PAGESIZE = 0 BY <1>5, <1>10, <2>2, <3>1, PageFromStart
    <3>2. CASE pageStart = target[2] /\ target[3] \in PageOf(pageStart)
      BY <1>5, <1>10, <1>14, <2>1, <3>2, PageOfOwn, PageConvex
    <3> QED BY <1>10, <3>1, <3>2
  <2>4. \A a \in PageOf(pageStart) :
          fill[a % SPM_PAGESIZE] = IF a \in pageStart..((cursor + 2) - 1) THEN Sent(a) ELSE Blank
    <3>1. (cursor + 2) - 1 = cursor + 1 BY <1>5
    <3> QED BY <1>8, <3>1
  <2>5. PageUnderWay'
    <3>1. pageStart' \in target'[2]..cursor'
      <4>1. target'[2] = target[2] /\ cursor' = cursor + 2 /\ pageStart' = pageStart BY <1>1, <2>1
      <4>2. pageStart \in target[2]..(cursor + 2) BY <1>5, <1>10
      <4> QED BY <4>1, <4>2
    <3>2. \A a \in PageOf(pageStart) \cap FlashAddrs : flash'[a] = Blank
      BY <1>3, <2>1 DEF PageUnderWay
    <3>3. \A a \in PageOf(pageStart') :
            pageFill'[a % SPM_PAGESIZE] = IF a \in pageStart'..(cursor' - 1) THEN Sent(a)' ELSE Blank
      BY <1>13, <2>1, <2>4
    <3>4. pageStart' % 2 = 0 /\ cursor' \in PageOf(pageStart') /\ cursor' - pageStart' < SPM_PAGESIZE
      <4>1. cursor' = cursor + 2 /\ pageStart' = pageStart BY <2>1
      <4>2. cursor' - pageStart' < SPM_PAGESIZE BY <1>5, <1>10, <2>2, <4>1
      <4>3. cursor' \in PageOf(pageStart') BY <2>3, <4>1
      <4> QED BY <1>10, <4>1, <4>2, <4>3
    <3>5. \/ pageStart' % SPM_PAGESIZE = 0
          \/ (pageStart' = target'[2] /\ target'[3] \in PageOf(pageStart'))
      BY <1>1, <1>10, <2>1
    <3>6. \A a \in PageOf(pageStart') \cap FlashAddrs : flash'[a] = Blank BY <2>1, <3>2
    <3> QED BY <3>1, <3>3, <3>4, <3>5, <3>6 DEF PageUnderWay
  <2>6. PagesDone' BY <1>1, <1>3, <1>13, <2>1 DEF PagesDone
  <2> QED BY <1>1, <1>12, <2>1, <2>5, <2>6 DEF DownloadSoFar
<1>16. CASE commit
  <2>1. pageFill' = BlankFill /\ pageStart' = cursor + 2 /\ page = Programmed(flash, fill, pageStart)
    BY <1>1, <1>16
  <2>2. /\ \A a \in target[2]..(cursor + 1) : page[a] = Sent(a)
        /\ \A a \in FlashAddrs \ PagesOf(target) : page[a] = before[a]
    <3>1. page = Programmed(flash, fill, pageStart) BY <2>1
    <3> HIDE DEF page, commit
    <3>2. target[1] = "flash" BY <1>1
    <3>3. /\ \A a \in target[2]..(cursor + 1) : Programmed(flash, fill, pageStart)[a] = Sent(a)
          /\ \A a \in FlashAddrs \ PagesOf(target) :
               Programmed(flash, fill, pageStart)[a] = before[a]
      BY ONLY DFUTypeOK, <1>2, <1>3, <1>4, <1>8, <1>9, <3>2, PageWritten
    <3> QED BY ONLY <3>1, <3>3
  <2> HIDE DEF page
  <2>3. CASE bytesLeft' < 2
    <3>1. step' = "suffix" /\ flash' = page
      <4>1. ~(bytesLeft' >= 2) BY <1>1, <1>4, <1>5, <2>3
      <4> QED BY <1>1, <2>3, <4>1
    <3>2. cursor + 1 = target[3] BY <1>1, <1>4, <1>5, <2>3
    <3>3. Landed(target)' BY <1>1, <2>2, <3>1, <3>2 DEF Landed, Sent
    <3> QED BY <1>1, <1>12, <3>1, <3>3 DEF DownloadSoFar
  <2>4. CASE bytesLeft' >= 2
    <3>1. step' = "data" /\ flash' = Erased(page, cursor + 2) /\ cursor + 2 - pageStart = SPM_PAGESIZE
      <4>1. ~(bytesLeft' < 2) BY <1>1, <1>4, <1>5, <2>4
      <4> QED BY <1>1, <1>16, <2>4, <4>1
    <3>2. pageStart % SPM_PAGESIZE = 0
      <4>1. target[3] \notin PageOf(pageStart)
        BY <1>5, <1>10, <1>14, <2>4, <3>1, PageOfOwn, PageConvex
      <4> QED BY <1>10, <4>1
    <3>3. (cursor + 2) % SPM_PAGESIZE = 0
      <4>1. cursor + 2 = pageStart + SPM_PAGESIZE BY <1>5, <1>10, <3>1
      <4> QED BY <1>5, <1>10, <3>2, <4>1, ModNext
    <3>4. PageOf(cursor + 2) = (cursor + 2)..(cursor + 2 + SPM_PAGESIZE - 1)
      BY <1>5, <3>3, PageFromStart
    <3>5. cursor + 2 \in target[2]..target[3] BY <1>14, <2>4
    <3>6. PageOf(cursor + 2) \subseteq PagesOf(target) BY <1>1, <3>5 DEF PagesOf
    <3>7. PageUnderWay'
      <4>1. \A a \in PageOf(cursor + 2) : pageFill'[a % SPM_PAGESIZE] = Blank
        <5>1. \A a \in Nat : a % SPM_PAGESIZE \in 0..(SPM_PAGESIZE - 1) BY <1>5
        <5>2. PageOf(cursor + 2) \subseteq Nat
          <6>1. cursor + 2 \in Nat BY <1>5
          <6> QED BY <6>1, PageOfOwn
        <5> QED BY <2>1, <5>1, <5>2, BufferTyped
      <4>2. \A a \in PageOf(cursor + 2) \cap FlashAddrs : flash'[a] = Blank
        BY <3>1 DEF Erased
      <4>3. cursor + 2 \in PageOf(cursor + 2) /\ (cursor + 2) - (cursor + 2) < SPM_PAGESIZE
        BY <1>5, PageOfOwn
      <4>4. (cursor + 2) % 2 = 0 /\ cursor + 2 \in target[2]..(cursor + 2) BY <1>4, <1>5
      <4>5. (cursor + 2)..(cursor + 2 - 1) = {} BY <1>5
      <4> QED BY <1>1, <2>1, <3>3, <4>1, <4>2, <4>3, <4>4, <4>5 DEF PageUnderWay
    <3>8. PagesDone'
      <4>1. ASSUME NEW a \in target[2]..((cursor + 2) - 1) PROVE flash'[a] = Sent(a)
        <5>1. a \in target[2]..(cursor + 1) /\ a \notin PageOf(cursor + 2) BY <1>5, <3>4
        <5>2. a \in FlashAddrs BY <1>4, <1>5, <5>1, DFUSizes DEF FlashAddrs
        <5> QED BY <2>2, <3>1, <5>1, <5>2 DEF Erased
      <4>2. \A a \in FlashAddrs \ PagesOf(target) : flash'[a] = before[a]
        BY <2>2, <3>1, <3>6 DEF Erased
      <4> QED BY <1>1, <1>13, <2>1, <4>1, <4>2 DEF PagesDone
    <3> QED BY <1>1, <1>12, <3>1, <3>7, <3>8 DEF DownloadSoFar
  <2>5. bytesLeft' \in Nat BY <1>1, <1>4, <1>5
  <2> QED BY <2>3, <2>4, <2>5
<1> QED BY <1>15, <1>16

LEMMA DownloadWritesByte ==
  ASSUME DFUTypeOK, RangesKept, DownloadSoFar, WriteByte
  PROVE  DownloadSoFar'
<1> SUFFICES ASSUME Aligned(target), fresh PROVE DownloadSoFar'
  <2>1. target' = target /\ fresh' = fresh BY DEF WriteByte
  <2> QED BY <2>1 DEF DownloadSoFar, Aligned
<1>1. /\ step = "data" /\ target[1] = "eeprom" /\ banked > 0
      /\ eeprom' = [eeprom EXCEPT ![cursor] = StreamByte(taken)]
      /\ bytesLeft' = bytesLeft - 1 /\ cursor' = cursor + 1
      /\ taken' = taken + 1 /\ banked' = banked - 1
      /\ step' = IF bytesLeft' = 0 THEN "suffix" ELSE "data"
      /\ UNCHANGED <<target, fresh, flash, downloads, before>>
  BY DEF WriteByte
<1>2. target \in Ranges /\ target # <<>> BY <1>1 DEF RangesKept
<1>3. PacketsKept /\ flash = before /\ (\A a \in target[2]..(cursor - 1) : eeprom[a] = Sent(a))
  BY <1>1, <1>2 DEF DownloadSoFar
<1>4. /\ taken = EPSIZE + (cursor - target[2])
      /\ (taken + banked) % EPSIZE = 0 \/ taken + banked = Total(target)
      /\ cursor \in target[2]..target[3] /\ bytesLeft = target[3] + 1 - cursor
  BY <1>1, <1>3 DEF PacketsKept, RangesKept
<1>5. /\ target[2] \in Nat /\ target[3] \in EEPROMAddrs /\ target[3] \in Nat /\ cursor \in Nat
      /\ EPSIZE \in Nat \ {0} /\ banked \in Nat /\ taken \in Nat
  <2>1. target[2] \in EEPROMAddrs /\ target[3] \in EEPROMAddrs BY <1>1, <1>2, RangeFacts
  <2>2. target[2] \in Nat /\ target[3] \in Nat BY <2>1 DEF EEPROMAddrs
  <2>3. banked \in Nat /\ taken \in Nat BY DFUSizes DEF DFUTypeOK
  <2> QED BY <1>4, <2>1, <2>2, <2>3, DFUSizes
<1>6. StreamByte(taken) = Sent(cursor) BY <1>2, <1>4, StreamAligned
<1>7. \A a \in target[2]..cursor : eeprom'[a] = Sent(a)
  <2>1. cursor \in EEPROMAddrs /\ DOMAIN eeprom = EEPROMAddrs
    BY <1>4, <1>5, DFUSizes DEF EEPROMAddrs, DFUTypeOK
  <2> QED BY <1>1, <1>3, <1>5, <1>6, <2>1
<1>8. \A a : Sent(a)' = Sent(a) BY <1>1 DEF Sent
<1>9. PacketsKept'
  <2>1. taken' = EPSIZE + (cursor' - target[2]) /\ taken' + banked' = taken + banked
    BY <1>1, <1>4, <1>5
  <2>2. Total(target)' = Total(target) BY <1>1 DEF Total, Lead, Length
  <2>3. step' \in {"suffix", "data"} BY <1>1
  <2> QED BY <1>1, <1>4, <2>1, <2>2, <2>3 DEF PacketsKept
<1>10. CASE bytesLeft' = 0
  <2>3. bytesLeft = 1 \/ bytesLeft' # 0 BY <1>1, <1>4, <1>5
  <2>4. cursor = target[3] BY <1>4, <1>5, <1>10, <2>3
  <2>1. cursor = target[3] /\ step' = "suffix" BY <1>1, <1>10, <2>4
  <2>2. Landed(target)' BY <1>1, <1>3, <1>7, <2>1 DEF Landed, Sent
  <2> QED BY <1>1, <1>9, <2>1, <2>2 DEF DownloadSoFar
<1>11. CASE bytesLeft' # 0
  <2>1. step' = "data" BY <1>1, <1>11
  <2>2. \A a \in target[2]..(cursor' - 1) : eeprom'[a] = Sent(a)
    <3>1. cursor' - 1 = cursor BY <1>1, <1>5
    <3> QED BY <1>7, <3>1
  <2> QED BY <1>1, <1>3, <1>8, <1>9, <2>1, <2>2 DEF DownloadSoFar
<1> QED BY <1>10, <1>11

LEMMA DownloadNext ==
  DFUTypeOK /\ RangesKept /\ DownloadSoFar /\ [DFUNext]_dfuVars => DownloadSoFar'
<1> SUFFICES ASSUME DFUTypeOK, RangesKept, DownloadSoFar, [DFUNext]_dfuVars PROVE DownloadSoFar'
  OBVIOUS
<1>1. CASE UNCHANGED downloadVars BY <1>1, DownloadStands
<1>2. CASE Erase \/ Restart \/ Unattached
  BY <1>2 DEF Erase, Restart, Unattached, DownloadSoFar
<1>3. CASE EndDownload
  <2>1. /\ UNCHANGED <<target, fresh, flash, eeprom, downloads, before>>
        /\ step = "suffix" /\ step' = "idle"
    BY <1>3 DEF EndDownload, Return
  <2> QED BY <2>1 DEF DownloadSoFar, PacketsKept, Landed, Aligned
<1>4. CASE \E r \in Ranges : BeginDownload(r) BY <1>4, DownloadBegins
<1>5. CASE DiscardByte \/ Discarded \/ DataPacket BY <1>5, DownloadSkips
<1>6. CASE WriteWord BY <1>6, DownloadWrites
<1>7. CASE WriteByte BY <1>7, DownloadWritesByte
<1>8. CASE \/ \E c \in StartCommands : StartApplication(c)
           \/ \E c \in InfoCommands : GetInfo(c)
           \/ \E c : Refuse(c)
           \/ \E r \in Ranges : SelectRead(r)
           \/ CheckBlank \/ EmptyDownload \/ Upload \/ ClearStatus \/ Abort
           \/ UNCHANGED dfuVars
  <2>1. UNCHANGED downloadVars
    BY <1>8 DEF StartApplication, GetInfo, Refuse, SelectRead, CheckBlank, EmptyDownload, Upload,
       ClearStatus, Abort, Command, downloadVars, dfuVars
  <2> QED BY <1>1, <2>1
<1> QED BY <1>2, <1>3, <1>4, <1>5, <1>6, <1>7, <1>8 DEF DFUNext

-----------------------------------------------------------------------------
(***************************************************************************)
(* Theorems.                                                               *)
(***************************************************************************)
LEMMA Invariant == DFUSpec => []DFUInv
<1>1. DFUInit => DFUInv BY TypesInit, DownloadInit, SecretsInit DEF DFUInv
<1>2. DFUInv /\ [DFUNext]_dfuVars => DFUInv' BY TypesNext, DownloadNext, SecretsNext DEF DFUInv
<1> QED BY <1>1, <1>2, PTL DEF DFUSpec

\* The variables of the bootloader keep their types: the counters of a
\* download run out together, and nothing is written outside the memories.
THEOREM BootloaderTypeCorrect == DFUSpec => []DFUTypeOK
BY Invariant, PTL DEF DFUInv

\* A download that begins with a page, or stays in one, and finds the page
\* buffer empty puts every byte at its address and leaves the other pages
\* alone, however its packets and pages fall and whatever the requests before
\* it were.
THEOREM DownloadsComplete == DFUSpec => []AlignedDownloadsLand
<1>1. DFUInv => AlignedDownloadsLand
  BY DEF DFUInv, DownloadSoFar, AlignedDownloadsLand
<1> QED BY <1>1, Invariant, PTL

\* In secure mode no order of requests, errors, lost connections and resets
\* lets the firmware out that the bootloader found when it started.
THEOREM SecureModeHolds == DFUSpec => []FirmwareStaysSecret
<1>1. DFUInv => FirmwareStaysSecret
  BY DEF DFUInv, Secrets, Old, FirmwareStaysSecret
<1> QED BY <1>1, Invariant, PTL
=============================================================================
