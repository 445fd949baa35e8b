------------------------------ MODULE MCParts ------------------------------
(***************************************************************************)
(* The components that work by themselves, each on a small instance, in    *)
(* one run: `part' is the one a behaviour is about, and the others rest in *)
(* an initial state of theirs.                                             *)
(***************************************************************************)
EXTENDS RingBuff, Scheduler, USBHost, HIDParser, BootloaderDFU, Dataflash, Magstripe,
        RNDISEthernet

VARIABLE part

\* A write from one page on chip 2 to the last page, one inside a page, and
\* one of the file system that fills the first page and starts the second.
MCCommands    == {<<1, 10>>, <<2, 1>>}
MCRamCommands == {<<0, 3>>}

\* A page and a part of the next, and EEPROM over two packets.
MCRanges == {<<"flash", 8, 17>>, <<"eeprom", 0, 4>>}
\* EEPROM that does not start where a packet does.
MCUnaligned == {<<"eeprom", 3, 5>>}

MCGroups == <<1, 1>>

\* Report descriptors about the layout of two reports, about PUSH and POP,
\* about usages, and about collections.
MCRepertoires == {
  [items |-> {"REPORT SIZE", "REPORT COUNT", "REPORT ID", "MAIN"}, fields |-> 3],
  [items |-> {"REPORT SIZE", "REPORT COUNT", "PUSH", "POP", "MAIN"}, fields |-> 2],
  [items |-> {"REPORT COUNT", "USAGE", "USAGE RANGE", "MAIN"}, fields |-> 3],
  [items |-> {"REPORT COUNT", "USAGE", "PUSH", "MAIN"}, fields |-> 1],
  [items |-> {"REPORT COUNT", "USAGE", "COLLECTION", "MAIN"}, fields |-> 1] }

\* Cards with equal bits in a row and across tracks, with an empty track, and
\* of lengths that wrap the buffer at different bits.
MCCards == {<<<<TRUE, TRUE>>, <<FALSE>>>>, <<<<FALSE, TRUE, FALSE>>, <<>>>>,
            <<<<FALSE>>, <<TRUE, FALSE>>>>}

partVars == <<vars, schedVars, hostVars, hidVars, flashVars, dfuVars, magVars, ethVars, part>>

PartsInit ==
  /\ part \in {"ring", "scheduler", "host", "parser", "dataflash", "bootloader", "magstripe",
              "web server"}
  /\ Init /\ SchedInit /\ HostInit /\ HIDInit /\ FlashInit /\ DFUInit /\ MagInit /\ EthInit
  /\ part # "parser" => scope = CHOOSE r \in Repertoires : TRUE
  /\ part # "web server" => MAX_TCP_CONNECTIONS = CHOOSE n \in TableSizes : TRUE
  /\ part # "scheduler" => Scheduler_TickCounter = 0 /\ \A t \in Tasks : Delay[t] = TASK_MAX_DELAY - 1

PartsNext ==
  /\ UNCHANGED part
  /\ \/ part = "ring"       /\ Next
     \/ part # "ring"       /\ UNCHANGED vars
  /\ \/ part = "scheduler"  /\ SchedNext
     \/ part # "scheduler"  /\ UNCHANGED schedVars
  /\ \/ part = "host"       /\ HostNext
     \/ part # "host"       /\ UNCHANGED hostVars
  /\ \/ part = "parser"     /\ HIDNext
     \/ part # "parser"     /\ UNCHANGED hidVars
  /\ \/ part = "dataflash"  /\ FlashNext
     \/ part # "dataflash"  /\ UNCHANGED flashVars
  /\ \/ part = "bootloader" /\ DFUNext
     \/ part # "bootloader" /\ UNCHANGED dfuVars
  /\ \/ part = "magstripe"  /\ MagNext
     \/ part # "magstripe"  /\ UNCHANGED magVars
  /\ \/ part = "web server" /\ EthNext
     \/ part # "web server" /\ UNCHANGED ethVars

\* HostFairness, for the behaviours that are about the host.
PartsFairness ==
  /\ WF_hostVars(part = "host" /\ MainStep) /\ WF_hostVars(part = "host" /\ ISRStep)
  /\ SF_hostVars(part = "host" /\ (Connect \/ NoConnection))

PartsSpec == PartsInit /\ [][PartsNext]_partVars /\ PartsFairness

-----------------------------------------------------------------------------
\* The type invariant of the part that moves.
PartsTypeOK ==
  CASE part = "ring"            -> TypeOK
    [] part = "scheduler"       -> SchedTypeOK
    [] part = "host"            -> HostTypeOK
    [] part = "parser"          -> HIDTypeOK
    [] part = "dataflash"       -> FlashTypeOK
    [] part = "bootloader"      -> DFUTypeOK
    [] part = "magstripe"       -> MagTypeOK
    [] part = "web server"      -> EthTypeOK
=============================================================================
