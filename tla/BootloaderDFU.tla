---------------------------- MODULE BootloaderDFU ----------------------------
(***************************************************************************)
(* The DFU bootloader (Bootloaders/DFU/BootloaderDFU.c): the state machine *)
(* the DFU requests drive, the commands DFU_DNLOAD carries, and the stream *)
(* of packets out of which a download takes its firmware.                  *)
(*                                                                         *)
(* A byte of memory is blank, or names the download it comes from (0:    *)
(* what was there at first) and the address it was sent for; every other     *)
(* byte the host sends is filler.  One 64 KB page of flash is modelled,  *)
(* and the answers that carry no memory are left out.                      *)
(***************************************************************************)
EXTENDS Naturals

CONSTANTS
  EPSIZE,        \* FIXED_CONTROL_ENDPOINT_SIZE
  HEADER,        \* sizeof(DFU_Command_t) without DataSize
  FILLER,        \* DFU_FILLER_BYTES_SIZE
  SUFFIX,        \* DFU_FILE_SUFFIX_SIZE
  SPM_PAGESIZE,
  BOOT_START_ADDR, EEPROM_SIZE,
  SECURE_MODE,
  Ranges,        \* the <<memory, StartAddr, EndAddr>> of the host's commands
  MaxDownloads   \* bound

FlashAddrs  == 0..(BOOT_START_ADDR - 1)
EEPROMAddrs == 0..(EEPROM_SIZE - 1)

Length(r) == r[3] - r[2] + 1

\* The command and the filler take the first packet; packets and pages hold
\* whole words; EEPROM is smaller than the flash of the application.
ASSUME DFUConstants ==
  /\ {EPSIZE, HEADER, FILLER, SPM_PAGESIZE, BOOT_START_ADDR, EEPROM_SIZE} \subseteq Nat \ {0}
  /\ {SUFFIX, MaxDownloads} \subseteq Nat /\ SECURE_MODE \in BOOLEAN
  /\ HEADER + FILLER = EPSIZE
  /\ EPSIZE % 2 = 0 /\ SPM_PAGESIZE % 2 = 0
  /\ EEPROM_SIZE <= BOOT_START_ADDR

\* The host names ranges that exist, and whole words of flash.
ASSUME RangesExist ==
  /\ Ranges \subseteq ({"flash"} \X FlashAddrs \X FlashAddrs) \cup
                     ({"eeprom"} \X EEPROMAddrs \X EEPROMAddrs)
  /\ \A r \in Ranges : r[2] <= r[3] /\ (r[1] = "flash" => r[2] % 2 = 0 /\ Length(r) % 2 = 0)

\* A command: SentCommand.Command and the first two bytes of SentCommand.Data.
Cmd(c, d0, d1) == [Command |-> c, d0 |-> d0, d1 |-> d1]
EraseFlash     == Cmd("WRITE", 0, 255)
StartCommands  == {Cmd("WRITE", 3, 0), Cmd("WRITE", 3, 1)}   \* watchdog, jump
ProgStart(mem) == Cmd("PROG_START", IF mem = "flash" THEN 0 ELSE 1, 0)
DispData(mem)  == Cmd("DISP_DATA", IF mem = "flash" THEN 0 ELSE 2, 0)
BlankCheck     == Cmd("DISP_DATA", 1, 0)
InfoCommands   == {Cmd("READ", 0, 0), Cmd("READ", 1, 48)}    \* version, signature
NoCommand      == Cmd("none", 0, 0)

VARIABLES
  DFU_State, DFU_Status, IsSecure, RunBootloader, WaitForExit,
  SentCommand, StartAddr, EndAddr,
  flash, eeprom,
  pageFill,    \* the controller's page buffer
  \* The download being received.
  step,        \* "idle" between requests, else where the handler is
  taken,       \* bytes of the data stage taken
  banked,      \* bytes left in the endpoint's bank
  discard,     \* NumberOfBytes of DiscardFillerBytes
  bytesLeft,   \* BytesRemaining, or twice WordsRemaining
  pageStart,   \* CurrFlashPageStartAddress
  cursor,      \* CurrFlashAddress, or StartAddr of an EEPROM write
  \* History.
  downloads,   \* downloads begun
  since,     \* downloads begun before the bootloader last started
  target,      \* range of the last download while it stands, or <<>>
  before,      \* flash when that download began
  fresh,       \* the page buffer was empty then
  read         \* bytes of flash sent to the host

stateVars == <<DFU_State, DFU_Status, IsSecure, RunBootloader, WaitForExit>>
cmdVars   == <<SentCommand, StartAddr, EndAddr>>
recvVars  == <<step, taken, banked, discard, bytesLeft, pageStart, cursor>>
history   == <<downloads, since, target, before, fresh, read>>
dfuVars   == <<stateVars, cmdVars, flash, eeprom, pageFill, recvVars, history>>

Blank  == <<>>
Filler == <<0>>
Bytes  == {Blank, Filler} \cup
         (0..MaxDownloads) \X (0..(BOOT_START_ADDR + EEPROM_SIZE))

DFUTypeOK ==
  /\ DFU_State \in {"dfuIDLE", "dfuDNLOAD_IDLE", "dfuUPLOAD_IDLE", "dfuERROR"}
  /\ DFU_Status \in {"OK", "errWRITE", "errCHECK_ERASED"}
  /\ IsSecure \in BOOLEAN /\ RunBootloader \in BOOLEAN /\ WaitForExit \in BOOLEAN
  /\ flash \in [FlashAddrs -> Bytes] /\ eeprom \in [EEPROMAddrs -> Bytes]
  /\ pageFill \in [0..(SPM_PAGESIZE - 1) -> Bytes]
  /\ step \in {"idle", "filler", "align", "data", "suffix"}
  /\ banked \in 0..EPSIZE /\ taken \in Nat /\ bytesLeft \in Nat /\ discard \in Nat
  /\ downloads \in 0..MaxDownloads /\ read \subseteq Bytes

BlankFill == [o \in 0..(SPM_PAGESIZE - 1) |-> Blank]

\* What the bootloader's own state starts from.
DFUInit ==
  /\ DFU_State = "dfuIDLE" /\ DFU_Status = "OK"
  /\ IsSecure = SECURE_MODE /\ RunBootloader = TRUE /\ WaitForExit = FALSE
  /\ SentCommand = NoCommand /\ StartAddr = 0 /\ EndAddr = 0
  /\ flash = [a \in FlashAddrs |-> <<0, a>>] /\ eeprom = [a \in EEPROMAddrs |-> <<0, a>>]
  /\ step = "idle" /\ taken = 0 /\ banked = 0 /\ discard = 0 /\ bytesLeft = 0
  /\ pageFill = BlankFill /\ pageStart = 0 /\ cursor = 0
  /\ downloads = 0 /\ since = 0 /\ target = <<>> /\ before = flash /\ fresh = TRUE /\ read = {}

-----------------------------------------------------------------------------
PageOf(a) == LET first == a - (a % SPM_PAGESIZE) IN first..(first + SPM_PAGESIZE - 1)
Erased(mem, a) == [b \in FlashAddrs |-> IF b \in PageOf(a) THEN Blank ELSE mem[b]]

\* boot_page_write: cells that were not erased do not take the new value.
Programmed(mem, fill, a) ==
  [b \in FlashAddrs |->
    IF b \notin PageOf(a) \/ fill[b % SPM_PAGESIZE] = Blank THEN mem[b]
    ELSE IF mem[b] = Blank THEN fill[b % SPM_PAGESIZE] ELSE Filler]

\* Mutant: secure mode refuses commands that write and lets memory be read.
RefusedWritesOnly(c) == IsSecure /\ c # EraseFlash /\ c.Command \in {"PROG_START", "WRITE"}

\* The test of ProcessBootloaderCommand.
Refused(c) == IsSecure /\ c # EraseFlash /\ c.Command # "READ"

\* A request is served: the bootloader runs and none is being served.
Serving == step = "idle" /\ (RunBootloader \/ WaitForExit)

\* DFU_DNLOAD with a command that has all its data in its first packet.
\* A start pending is forgotten (it asks for an empty request next).
Command(c) ==
  /\ Serving /\ SentCommand' = c
  /\ UNCHANGED <<recvVars, eeprom, downloads, since, before, fresh, read>>

Refuse(c) ==
  /\ Refused(c) /\ Command(c)
  /\ DFU_State' = "dfuERROR" /\ DFU_Status' = "errWRITE" /\ WaitForExit' = FALSE
  /\ UNCHANGED <<IsSecure, RunBootloader, StartAddr, EndAddr, flash, pageFill, target>>

\* After the command a download that was waiting for firmware is over.
StateAfter(s) == IF s = "dfuDNLOAD_IDLE" THEN "dfuIDLE" ELSE s

\* ProcessMemReadCommand for a range: the next upload reads it.
SelectRead(r) ==
  /\ ~Refused(DispData(r[1])) /\ Command(DispData(r[1]))
  /\ StartAddr' = r[2] /\ EndAddr' = r[3]
  /\ DFU_State' = "dfuUPLOAD_IDLE" /\ WaitForExit' = FALSE
  /\ UNCHANGED <<DFU_Status, IsSecure, RunBootloader, flash, pageFill, target>>

\* ProcessMemReadCommand, blank check.
CheckBlank ==
  /\ ~Refused(BlankCheck) /\ Command(BlankCheck)
  /\ LET used == {a \in FlashAddrs : flash[a] # Blank}
     IN  IF used = {}
         THEN DFU_State' = StateAfter(DFU_State) /\ UNCHANGED <<DFU_Status, StartAddr>>
         ELSE /\ DFU_State' = "dfuERROR" /\ DFU_Status' = "errCHECK_ERASED"
              /\ StartAddr' = CHOOSE a \in used : \A b \in used : a <= b
  /\ WaitForExit' = FALSE
  /\ UNCHANGED <<IsSecure, RunBootloader, EndAddr, flash, pageFill, target>>

\* ProcessReadCommand: only the response byte.
GetInfo(c) ==
  /\ Command(c)
  /\ DFU_State' = StateAfter(DFU_State) /\ WaitForExit' = FALSE
  /\ UNCHANGED <<DFU_Status, IsSecure, RunBootloader, StartAddr, EndAddr, flash, pageFill, target>>

\* ProcessWriteCommand, erase: every page is erased and written, the first
\* one with what the page buffer holds.
Erase ==
  /\ Command(EraseFlash)
  /\ flash' = Programmed([a \in FlashAddrs |-> Blank], pageFill, 0) /\ pageFill' = BlankFill
  /\ IsSecure' = FALSE
  /\ DFU_State' = StateAfter(DFU_State) /\ WaitForExit' = FALSE
  /\ target' = <<>>
  /\ UNCHANGED <<DFU_Status, RunBootloader, StartAddr, EndAddr>>

\* ProcessWriteCommand, start application: the bootloader waits for the
\* empty request (the watchdog, once started, resets the chip: Restart).
StartApplication(c) ==
  /\ ~Refused(c) /\ Command(c)
  /\ WaitForExit' = TRUE /\ RunBootloader' = (RunBootloader /\ c.d1 = 0)
  /\ DFU_State' = StateAfter(DFU_State)
  /\ UNCHANGED <<DFU_Status, IsSecure, StartAddr, EndAddr, flash, pageFill, target>>

\* DFU_DNLOAD without data: ends a download, and confirms a start.
EmptyDownload ==
  /\ Serving
  /\ RunBootloader' = (RunBootloader /\ ~(WaitForExit /\ SentCommand.d1 = 1))
  /\ WaitForExit' = FALSE
  /\ DFU_State' = StateAfter(DFU_State)
  /\ UNCHANGED <<DFU_Status, IsSecure, cmdVars, flash, eeprom, pageFill, recvVars, history>>

-----------------------------------------------------------------------------
(***************************************************************************)
(* A download: DFU_DNLOAD with ProgStart, whose data stage holds the       *)
(* command, filler, filler up to the start address within a packet, the    *)
(* firmware, and the suffix of the file.                                   *)
(***************************************************************************)
Lead(r)   == HEADER + FILLER + (r[2] % EPSIZE)
Total(r)  == Lead(r) + Length(r) + SUFFIX
Least(a, b) == IF a < b THEN a ELSE b

\* The byte of the data stage at place p, for the download under way.
StreamByte(p) ==
  IF p \in Lead(target)..(Lead(target) + Length(target) - 1)
  THEN <<downloads, target[2] + p - Lead(target)>> ELSE Filler

\* ProcessMemProgCommand; the first page is erased before its data come.
BeginDownload(r) ==
  /\ Serving /\ ~Refused(ProgStart(r[1])) /\ downloads < MaxDownloads
  /\ SentCommand' = ProgStart(r[1]) /\ StartAddr' = r[2] /\ EndAddr' = r[3]
  /\ DFU_State' = "dfuDNLOAD_IDLE" /\ WaitForExit' = FALSE
  /\ flash' = IF r[1] = "flash" THEN Erased(flash, r[2]) ELSE flash
  /\ taken' = HEADER /\ banked' = Least(EPSIZE, Total(r)) - HEADER
  /\ step' = "filler" /\ discard' = FILLER
  /\ bytesLeft' = Length(r) /\ pageStart' = r[2] /\ cursor' = r[2]
  /\ downloads' = downloads + 1 /\ target' = r /\ before' = flash
  /\ fresh' = (pageFill = BlankFill)
  /\ UNCHANGED <<DFU_Status, IsSecure, RunBootloader, eeprom, pageFill, since, read>>

receiving == <<stateVars, cmdVars, history>>

\* Endpoint_ClearOUT and the wait for the next packet.
NextPacket ==
  /\ banked = 0 /\ taken < Total(target)
  /\ banked' = Least(EPSIZE, Total(target) - taken)

\* One turn of DiscardFillerBytes: a turn that waits discards nothing.
DiscardByte ==
  /\ step \in {"filler", "align", "suffix"} /\ discard > 0
  /\ discard' = discard - 1
  /\ \/ NextPacket /\ UNCHANGED taken
     \/ banked > 0 /\ banked' = banked - 1 /\ taken' = taken + 1
  /\ UNCHANGED <<receiving, flash, eeprom, pageFill, step, bytesLeft, pageStart, cursor>>

\* DiscardFillerBytes returns.
Discarded ==
  /\ discard = 0
  /\ \/ step = "filler" /\ step' = "align" /\ discard' = StartAddr % EPSIZE
     \/ step = "align" /\ step' = "data" /\ UNCHANGED discard
  /\ UNCHANGED <<receiving, flash, eeprom, pageFill, taken, banked, bytesLeft, pageStart, cursor>>

\* The handler returns, and its variables are gone.
Return ==
  /\ step' = "idle" /\ taken' = 0 /\ banked' = 0 /\ discard' = 0
  /\ bytesLeft' = 0 /\ pageStart' = 0 /\ cursor' = 0
  /\ UNCHANGED <<stateVars, cmdVars, flash, eeprom, pageFill, downloads, since, before, fresh, read>>

EndDownload == step = "suffix" /\ discard = 0 /\ Return /\ UNCHANGED target

DataPacket ==
  /\ step = "data" /\ NextPacket
  /\ UNCHANGED <<receiving, flash, eeprom, pageFill, step, taken, discard, bytesLeft,
                 pageStart, cursor>>

\* boot_page_fill: a word the buffer holds already does not take the new value.
Loaded(at, low, high) ==
  IF pageFill[at] # Blank THEN pageFill
  ELSE [pageFill EXCEPT ![at] = low, ![at + 1] = high]

\* Mutant: after the last word the page that follows is erased too.
WriteWordErasesOn ==
  /\ step = "data" /\ target[1] = "flash" /\ banked > 0
  /\ LET high == IF banked > 1 THEN StreamByte(taken + 1) ELSE Filler
         at   == cursor % SPM_PAGESIZE
         fill == Loaded(at, StreamByte(taken), high)
         commit == cursor + 2 - pageStart = SPM_PAGESIZE \/ bytesLeft' < 2
     IN  /\ bytesLeft' = bytesLeft - 2 /\ cursor' = cursor + 2
         /\ taken' = taken + Least(2, banked) /\ banked' = banked - Least(2, banked)
         /\ pageFill' = IF commit THEN BlankFill ELSE fill
         /\ pageStart' = IF commit THEN cursor' ELSE pageStart
         /\ flash' = IF ~commit THEN flash ELSE Erased(Programmed(flash, fill, pageStart), cursor')
         /\ IF bytesLeft' < 2 THEN step' = "suffix" /\ discard' = SUFFIX /\ StartAddr' = EndAddr
                              ELSE UNCHANGED <<step, discard, StartAddr>>
  /\ UNCHANGED <<stateVars, SentCommand, EndAddr, eeprom, history>>

\* A word into the page buffer; a page that is full, or the last, is written,
\* and the page that follows erased if there is more to come.
WriteWord ==
  /\ step = "data" /\ target[1] = "flash" /\ banked > 0
  /\ LET high == IF banked > 1 THEN StreamByte(taken + 1) ELSE Filler
         at   == cursor % SPM_PAGESIZE
         fill == Loaded(at, StreamByte(taken), high)
         commit == cursor + 2 - pageStart = SPM_PAGESIZE \/ bytesLeft' < 2
         page == IF commit THEN Programmed(flash, fill, pageStart) ELSE flash
     IN  /\ bytesLeft' = bytesLeft - 2 /\ cursor' = cursor + 2
         /\ taken' = taken + Least(2, banked) /\ banked' = banked - Least(2, banked)
         /\ pageFill' = IF commit THEN BlankFill ELSE fill
         /\ pageStart' = IF commit THEN cursor' ELSE pageStart
         /\ flash' = IF commit /\ bytesLeft' >= 2 THEN Erased(page, cursor') ELSE page
         /\ IF bytesLeft' < 2 THEN step' = "suffix" /\ discard' = SUFFIX /\ StartAddr' = EndAddr
                              ELSE UNCHANGED <<step, discard, StartAddr>>
  /\ UNCHANGED <<stateVars, SentCommand, EndAddr, eeprom, history>>

\* A byte into EEPROM; the page buffer loses what it holds.
WriteByte ==
  /\ step = "data" /\ target[1] = "eeprom" /\ banked > 0
  /\ eeprom' = [eeprom EXCEPT ![cursor] = StreamByte(taken)]
  /\ taken' = taken + 1 /\ banked' = banked - 1
  /\ bytesLeft' = bytesLeft - 1 /\ cursor' = cursor + 1 /\ StartAddr' = cursor' /\ pageFill' = BlankFill
  /\ IF bytesLeft' = 0 THEN step' = "suffix" /\ discard' = SUFFIX
                       ELSE UNCHANGED <<step, discard>>
  /\ UNCHANGED <<stateVars, SentCommand, EndAddr, flash, pageStart, history>>

\* The cable is pulled while the handler waits for a packet (the board has
\* its own supply): it returns, its state as it stands.
Unattached ==
  /\ step # "idle" /\ banked = 0
  /\ Return /\ target' = <<>>

-----------------------------------------------------------------------------
\* DFU_UPLOAD: the range selected, or a response byte.
Upload ==
  /\ Serving
  /\ IF DFU_State = "dfuUPLOAD_IDLE"
     THEN /\ DFU_State' = "dfuIDLE"
          /\ read' = IF SentCommand.d0 = 0 THEN read \cup {flash[a] : a \in StartAddr..EndAddr} ELSE read
          /\ StartAddr' = IF SentCommand.d0 = 0 THEN EndAddr
                          ELSE IF SentCommand.d0 = 2 THEN EndAddr + 1 ELSE StartAddr
     ELSE UNCHANGED <<DFU_State, read, StartAddr>>
  /\ UNCHANGED <<DFU_Status, IsSecure, RunBootloader, WaitForExit, SentCommand, EndAddr,
                 flash, eeprom, pageFill, recvVars, downloads, since, target, before, fresh>>

ClearStatus ==   \* DFU_CLRSTATUS, which leaves dfuERROR as it is
  /\ Serving /\ DFU_Status' = "OK"
  /\ UNCHANGED <<DFU_State, IsSecure, RunBootloader, WaitForExit, cmdVars, flash, eeprom,
                 pageFill, recvVars, history>>

Abort ==         \* DFU_ABORT
  /\ Serving /\ DFU_State' = "dfuIDLE"
  /\ UNCHANGED <<DFU_Status, IsSecure, RunBootloader, WaitForExit, cmdVars, flash, eeprom,
                 pageFill, recvVars, history>>

\* A reset, a loss of power, or the application's start and a later return:
\* the bootloader starts anew and finds the memories as they are.
Restart ==
  /\ DFU_State' = "dfuIDLE" /\ DFU_Status' = "OK"
  /\ IsSecure' = SECURE_MODE /\ RunBootloader' = TRUE /\ WaitForExit' = FALSE
  /\ SentCommand' = NoCommand /\ StartAddr' = 0 /\ EndAddr' = 0
  /\ step' = "idle" /\ taken' = 0 /\ banked' = 0 /\ discard' = 0 /\ bytesLeft' = 0
  /\ pageFill' = BlankFill /\ pageStart' = 0 /\ cursor' = 0
  /\ since' = downloads /\ target' = <<>> /\ read' = {}
  /\ UNCHANGED <<flash, eeprom, downloads, before, fresh>>

DFUNext ==
  \/ \E c \in StartCommands : StartApplication(c)
  \/ \E c \in InfoCommands : GetInfo(c)
  \/ \E c \in StartCommands \cup {BlankCheck} \cup {DispData(r[1]) : r \in Ranges}
                \cup {ProgStart(r[1]) : r \in Ranges} : Refuse(c)
  \/ \E r \in Ranges : SelectRead(r) \/ BeginDownload(r)
  \/ CheckBlank \/ Erase \/ EmptyDownload
  \/ DiscardByte \/ Discarded \/ DataPacket \/ WriteWord \/ WriteByte
  \/ EndDownload \/ Unattached
  \/ Upload \/ ClearStatus \/ Abort \/ Restart

DFUSpec == DFUInit /\ [][DFUNext]_dfuVars

-----------------------------------------------------------------------------
\* The pages a range touches.
PagesOf(r) == IF r[1] = "flash" THEN UNION {PageOf(a) : a \in r[2]..r[3]} ELSE {}

Landed(r) ==
  /\ \A a \in r[2]..r[3] : (IF r[1] = "flash" THEN flash[a] ELSE eeprom[a]) = <<downloads, a>>
  /\ \A a \in FlashAddrs \ PagesOf(r) : flash[a] = before[a]

\* A download that is over has put every byte at the address it was sent for
\* and left the flash pages around it alone.
DownloadsLand == step = "idle" /\ target # <<>> => Landed(target)

\* It begins where a packet does, and in flash with a page or within one.
Aligned(r) ==
  /\ r[2] % EPSIZE = 0
  /\ r[1] = "flash" => r[2] % SPM_PAGESIZE = 0 \/ r[3] \in PageOf(r[2])

\* The same for a download that is aligned, and found the page buffer empty.
AlignedDownloadsLand ==
  step = "idle" /\ target # <<>> /\ Aligned(target) /\ fresh => Landed(target)

\* In secure mode no sequence of requests, interrupted downloads and resets
\* reads firmware that was there when the bootloader started.
FirmwareStaysSecret ==
  SECURE_MODE => \A b \in read : b \notin {<<d, a>> : d \in 0..since, a \in FlashAddrs}
=============================================================================
