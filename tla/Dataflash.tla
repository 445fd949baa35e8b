------------------------------ MODULE Dataflash ------------------------------
(***************************************************************************)
(* The Dataflash manager of the mass storage demos and projects            *)
(* (Lib/DataflashManager.c) over the Dataflash driver of the USBKEY board. *)
(* Blocks of the host lie in pages that alternate between the chips; each  *)
(* chip has two page buffers, and programs one into its memory by itself   *)
(* while the manager fills another.                                        *)
(*                                                                         *)
(* A unit is what the manager moves in one turn of its inner loop.  The    *)
(* value of a unit names the write it comes from (0: the old contents) and *)
(* the place it was sent for, so that a unit that lands elsewhere shows.   *)
(***************************************************************************)
EXTENDS Naturals, Sequences

CONSTANTS
  CHIPS,        \* DATAFLASH_TOTALCHIPS
  ROWS,         \* DATAFLASH_PAGES
  PAGE_UNITS,   \* units of a page, DATAFLASH_PAGE_SIZE
  BLOCK_UNITS,  \* units of a block, VIRTUAL_MEMORY_BLOCK_SIZE
  Commands,     \* the <<BlockAddress, TotalBlocks>> of the host
  RamCommands,  \* those of the file system on the device
  MaxWrites     \* bound: write commands

FLASH_UNITS == ROWS * CHIPS * PAGE_UNITS
Chips == 0..(CHIPS - 1)
Rows  == 0..(ROWS - 1)
FlashUnits == 0..(FLASH_UNITS - 1)

\* The place of a unit: Dataflash_SelectChipFromPage and
\* Dataflash_SendAddressBytes.
ChipOf(page) == page % CHIPS
RowOf(page)  == page \div CHIPS
DFPageOf(u) == u \div PAGE_UNITS
OffsetOf(u) == u % PAGE_UNITS

\* Pages and blocks end together (512 or 1024 bytes, or the 256 of the XPLAIN
\* board, and blocks of 512), so that at the end of a page TotalBlocks counts
\* what is left.  Commands are within the memory.  Those of the file system stay
\* in one row of pages: WriteCommand says what becomes of the others.
ASSUME DataflashConstants ==
  /\ {CHIPS, ROWS, PAGE_UNITS, BLOCK_UNITS} \subseteq Nat \ {0} /\ MaxWrites \in Nat
  /\ PAGE_UNITS % BLOCK_UNITS = 0 \/ BLOCK_UNITS % PAGE_UNITS = 0
  /\ Commands \cup RamCommands \subseteq Nat \X (Nat \ {0})
  /\ \A cmd \in Commands \cup RamCommands : (cmd[1] + cmd[2]) * BLOCK_UNITS <= FLASH_UNITS
  /\ \A cmd \in RamCommands : RowOf(DFPageOf(cmd[1] * BLOCK_UNITS)) =
                               RowOf(DFPageOf((cmd[1] + cmd[2]) * BLOCK_UNITS - 1))

PageContents == [0..(PAGE_UNITS - 1) -> (0..MaxWrites) \X FlashUnits]

VARIABLES
  \* The chips.
  mainMem,       \* mainMem[c][row], main memory of chip c
  pageBuf,     \* pageBuf[c][b], its buffers 1 and 2
  programming, \* programming[c], the <<b, row>> being programmed, or <<>>
  \* The manager.
  op,          \* "idle", "write", "copyTail", "last", "settle" or "read"
  ram,         \* the command is one of the _RAM functions
  unit,        \* next unit, CurrDFPage and CurrDFPageByteDiv16
  atEnd,       \* CurrDFPageByteDiv16 has reached the end of the page
  unitsLeft,   \* TotalBlocks and BytesInBlockDiv16
  writeBuf,    \* the buffer of the BUFFnWRITE command last sent
  UsingSecondBuffer,
  \* History.
  writes,      \* write commands so far
  goal,        \* last unit of the command
  allowed,     \* allowed[u], the values unit u may have
  got          \* the unit read last and its value, or <<>>

chipVars  == <<mainMem, pageBuf, programming>>
opVars    == <<op, ram, unit, atEnd, unitsLeft, writeBuf, UsingSecondBuffer, goal>>
flashVars == <<chipVars, opVars, writes, allowed, got>>

FlashTypeOK ==
  /\ mainMem \in [Chips -> [Rows -> PageContents]]
  /\ pageBuf \in [Chips -> [1..2 -> PageContents]]
  /\ programming \in [Chips -> {<<>>} \cup ((1..2) \X Rows)]
  /\ op \in {"idle", "write", "copyTail", "last", "settle", "read"}
  /\ unit \in 0..FLASH_UNITS /\ unitsLeft \in 0..FLASH_UNITS /\ goal \in FlashUnits
  /\ writeBuf \in 1..2 /\ {ram, atEnd, UsingSecondBuffer} \subseteq BOOLEAN
  /\ writes \in 0..MaxWrites
  /\ allowed \in [FlashUnits -> SUBSET ((0..writes) \X FlashUnits)]
  /\ got \in {<<>>} \cup (FlashUnits \X ((0..MaxWrites) \X FlashUnits))

FlashInit ==
  /\ mainMem = [c \in Chips |-> [row \in Rows |->
               [o \in 0..(PAGE_UNITS - 1) |-> <<0, (row * CHIPS + c) * PAGE_UNITS + o>>]]]
  /\ pageBuf = [c \in Chips |-> [b \in 1..2 |-> [o \in 0..(PAGE_UNITS - 1) |-> <<0, 0>>]]]
  /\ programming = [c \in Chips |-> <<>>]
  /\ op = "idle" /\ ram = FALSE /\ unit = 0 /\ atEnd = FALSE /\ unitsLeft = 0
  /\ writeBuf = 1 /\ UsingSecondBuffer = FALSE
  /\ writes = 0 /\ goal = 0
  /\ allowed = [u \in FlashUnits |-> {<<0, u>>}]
  /\ got = <<>>

-----------------------------------------------------------------------------
Page == IF atEnd THEN DFPageOf(unit) - 1 ELSE DFPageOf(unit)   \* CurrDFPage
Ready(page) == programming[ChipOf(page)] = <<>>            \* Dataflash_WaitWhileBusy

\* MAINMEMTOBUFFn: the page's contents into buffer b.
CopyToBuffer(page, b) ==
  pageBuf' = [pageBuf EXCEPT ![ChipOf(page)][b] = mainMem[ChipOf(page)][RowOf(page)]]

\* BUFFnTOMAINMEMWITHERASE, which the chip carries out by itself.
WriteBack(page) ==
  programming' = [programming EXCEPT ![ChipOf(page)] =
                    <<IF UsingSecondBuffer THEN 2 ELSE 1, RowOf(page)>>]

\* The chip is done: ChipDone is the only step that changes its memory.
ChipDone(c) ==
  /\ programming[c] # <<>>
  /\ mainMem' = [mainMem EXCEPT ![c][programming[c][2]] = pageBuf[c][programming[c][1]]]
  /\ programming' = [programming EXCEPT ![c] = <<>>]
  /\ UNCHANGED <<pageBuf, opVars, writes, allowed, got>>

\* A command comes when the chips have done with the last one (up to 40 ms).
Begin(first, n, file) ==
  /\ op = "idle" /\ \A c \in Chips : programming[c] = <<>>
  /\ <<first, n>> \in (IF file THEN RamCommands ELSE Commands)
  /\ ram' = file
  /\ unit' = first * BLOCK_UNITS /\ atEnd' = FALSE
  /\ unitsLeft' = n * BLOCK_UNITS
  /\ goal' = (first + n) * BLOCK_UNITS - 1
  /\ UsingSecondBuffer' = FALSE /\ writeBuf' = 1
  /\ got' = <<>>

\* DataflashManager_WriteBlocks and _RAM up to their loops.
BeginWrite(first, n, file) ==
  /\ writes < MaxWrites
  /\ Begin(first, n, file)
  /\ op' = "write" /\ writes' = writes + 1
  /\ allowed' = [u \in FlashUnits |-> IF u \in unit'..goal' THEN allowed[u] \cup {<<writes', u>>}
                                                      ELSE allowed[u]]
  /\ IF PAGE_UNITS > BLOCK_UNITS THEN CopyToBuffer(DFPageOf(unit'), 1) ELSE UNCHANGED pageBuf
  /\ UNCHANGED <<mainMem, programming>>

\* Mutant: one buffer of each chip serves all its pages.
NextBufferNever == UsingSecondBuffer

\* After a page: the buffers are switched once every chip has used its first.
NextBuffer == IF ChipOf(Page) = CHIPS - 1 THEN ~UsingSecondBuffer ELSE UsingSecondBuffer

\* BUFFnWRITE after a page: the _RAM function names buffer 1 whichever is in use.
WriteCommand(second) == IF second /\ ~ram THEN 2 ELSE 1

\* The end of a page within a command.  What remains of the command may end
\* inside the next page, whose tail must then be kept.
PageEnd ==
  /\ op = "write" /\ atEnd /\ unitsLeft > 0
  /\ Ready(Page)
  /\ WriteBack(Page)
  /\ atEnd' = FALSE
  /\ UsingSecondBuffer' = NextBuffer
  /\ writeBuf' = WriteCommand(NextBuffer)
  /\ op' = IF PAGE_UNITS > BLOCK_UNITS /\ unitsLeft < PAGE_UNITS THEN "copyTail" ELSE "write"
  /\ UNCHANGED <<mainMem, pageBuf, ram, unit, unitsLeft, goal, writes, allowed, got>>

CopyTail ==
  /\ op = "copyTail" /\ op' = "write"
  /\ Ready(Page)
  /\ CopyToBuffer(Page, IF UsingSecondBuffer THEN 2 ELSE 1)
  /\ UNCHANGED <<mainMem, programming, ram, unit, atEnd, unitsLeft, writeBuf,
                 UsingSecondBuffer, goal, writes, allowed, got>>

\* One unit moved on: the counters of both loops.
CountUnit ==
  /\ unit' = unit + 1 /\ unitsLeft' = unitsLeft - 1
  /\ atEnd' = (OffsetOf(unit') = 0)

WriteUnit ==
  /\ op = "write" /\ ~atEnd /\ unitsLeft > 0
  /\ pageBuf' = [pageBuf EXCEPT ![ChipOf(Page)][writeBuf][OffsetOf(unit)] = <<writes, unit>>]
  /\ CountUnit
  /\ op' = IF unitsLeft' = 0 THEN "last" ELSE "write"
  /\ UNCHANGED <<mainMem, programming, ram, writeBuf, UsingSecondBuffer, goal, writes, allowed, got>>

WriteLastPage ==
  /\ op = "last" /\ op' = "settle"
  /\ Ready(Page)
  /\ WriteBack(Page)
  /\ UNCHANGED <<mainMem, pageBuf, ram, unit, atEnd, unitsLeft, writeBuf, UsingSecondBuffer,
                 goal, writes, allowed, got>>

\* The wait for the last page, and the write is complete.
EndWrite ==
  /\ op = "settle" /\ op' = "idle"
  /\ Ready(Page)
  /\ allowed' = [u \in FlashUnits |-> IF <<writes, u>> \in allowed[u] THEN {<<writes, u>>} ELSE allowed[u]]
  /\ UNCHANGED <<chipVars, ram, unit, atEnd, unitsLeft, writeBuf, UsingSecondBuffer, goal,
                 writes, got>>

\* Endpoint_WaitUntilReady fails, or a reset is seen after a unit.
Abandon ==
  /\ op \in {"write", "last", "read"} /\ ~ram /\ op' = "idle"
  /\ got' = <<>>
  /\ UNCHANGED <<chipVars, ram, unit, atEnd, unitsLeft, writeBuf, UsingSecondBuffer, goal,
                 writes, allowed>>

\* DataflashManager_ReadBlocks and _RAM up to their loops.
BeginRead(first, n, file) ==
  /\ Begin(first, n, file)
  /\ op' = "read"
  /\ UNCHANGED <<chipVars, writes, allowed>>

\* Mutant: at the end of a page the next chip is selected, and the page not
\* sent: the chip reads on where it was.
ReadUnitStale ==
  /\ op = "read" /\ unitsLeft > 0
  /\ got' = <<unit, mainMem[ChipOf(DFPageOf(unit))][RowOf(Page)][OffsetOf(unit)]>>
  /\ CountUnit
  /\ op' = IF unitsLeft' = 0 THEN "idle" ELSE "read"
  /\ UNCHANGED <<chipVars, ram, writeBuf, UsingSecondBuffer, goal, writes, allowed>>

\* A unit of main memory read by MAINMEMPAGEREAD, sent again for each page.
ReadUnit ==
  /\ op = "read" /\ unitsLeft > 0
  /\ LET page == DFPageOf(unit)
     IN  got' = <<unit, mainMem[ChipOf(page)][RowOf(page)][OffsetOf(unit)]>>
  /\ CountUnit
  /\ op' = IF unitsLeft' = 0 THEN "idle" ELSE "read"
  /\ UNCHANGED <<chipVars, ram, writeBuf, UsingSecondBuffer, goal, writes, allowed>>

FlashNext ==
  \/ \E c \in Chips : ChipDone(c)
  \/ \E cmd \in Commands \cup RamCommands, file \in BOOLEAN :
       BeginWrite(cmd[1], cmd[2], file) \/ BeginRead(cmd[1], cmd[2], file)
  \/ PageEnd \/ CopyTail \/ WriteUnit \/ WriteLastPage \/ EndWrite \/ Abandon \/ ReadUnit

FlashSpec == FlashInit /\ [][FlashNext]_flashVars

-----------------------------------------------------------------------------
\* What the memory holds, or will when the chips are done.
Stored(u) ==
  LET c == ChipOf(DFPageOf(u))
      row == RowOf(DFPageOf(u))
      at  == programming[c]
  IN  IF at # <<>> /\ at[2] = row THEN pageBuf[c][at[1]][OffsetOf(u)] ELSE mainMem[c][row][OffsetOf(u)]

\* A write changes the units of its blocks and no other, whichever page and
\* chip it starts on and wherever in a page it ends; a complete one has
\* changed them all, and one the host abandons leaves each old or new.
BlocksKept == \A u \in FlashUnits : Stored(u) \in allowed[u]

\* What is read for a unit is what was last written to it.
ReadsReturnWrites == got # <<>> => got[2] \in allowed[got[1]]
=============================================================================
