------------------------------ MODULE HIDParser ------------------------------
(***************************************************************************)
(* The HID report parser of the host class driver (Class/Host/             *)
(* HIDParser.c): USB_ProcessHIDReport turns a device's report descriptor   *)
(* into a list of report items, and USB_GetHIDReportItemInfo reads their   *)
(* values out of the reports the device sends afterwards.                  *)
(*                                                                         *)
(* A step is one item of the descriptor, or one field of a main item.  Of  *)
(* the attributes that an item takes from the state table only its size is *)
(* kept: the others are copied with it.  A report is a sequence of bits,   *)
(* each named by the field it belongs to and its place in that field.      *)
(***************************************************************************)
EXTENDS Naturals, Sequences

CONSTANTS
  HID_STATETABLE_STACK_DEPTH, HID_USAGE_STACK_DEPTH, HID_MAX_COLLECTIONS,
  HID_MAX_REPORTITEMS, HID_MAX_REPORT_IDS,
  ItemTypes,          \* REPORT_ITEM_TYPE_In, _Out and _Feature
  ReportIDs, Usages, BitSizes, Counts,   \* data of the descriptor's items
  Descriptors,        \* "plain": one top level collection, PUSH only where no
                      \* usage waits for its item, and POP only where the
                      \* report ID is what it was at the PUSH; or "any"
  Repertoires         \* bounds: the kinds of items that a descriptor uses,
                      \* and the most fields it has

ItemKinds == {"PUSH", "POP", "REPORT SIZE", "REPORT COUNT", "REPORT ID", "USAGE",
              "USAGE RANGE", "COLLECTION", "MAIN"}

ASSUME HIDParserAssumption ==
  /\ {HID_STATETABLE_STACK_DEPTH, HID_USAGE_STACK_DEPTH, HID_MAX_REPORTITEMS,
      HID_MAX_REPORT_IDS} \subseteq Nat \ {0}
  /\ HID_MAX_COLLECTIONS \in Nat \ {0, 1}
  /\ ReportIDs \subseteq Nat \ {0} /\ Usages \subseteq Nat \ {0} /\ BitSizes \subseteq Nat
  /\ Counts \subseteq Nat /\ Descriptors \in {"plain", "any"}
  /\ Repertoires \subseteq [items : SUBSET ItemKinds, fields : Nat]

VARIABLES
  StateTable,         \* the entries up to CurrStateTable
  CollectionPaths, CurrCollectionPath,    \* index of a path, 0 for NULL
  ReportIDSizes, UsingReportIDs, CurrReportIDInfo,
  UsageList, UsageMinMax,
  ReportItems,
  scope,              \* the repertoire of this descriptor
  main,               \* the main item whose fields are being added
  result,
  \* History: what the descriptor says.
  laid,               \* the bits of each report
  fields,             \* fields so far
  open,               \* usages of the collections that are open
  declared,           \* usages since the last main item
  meant               \* of each stored item: its field, usage and collections

itemVars == <<StateTable, CollectionPaths, CurrCollectionPath, ReportIDSizes, UsingReportIDs,
              CurrReportIDInfo>>
localVars == <<UsageList, UsageMinMax>>
hidVars == <<itemVars, localVars, ReportItems, scope, main, result, laid, fields, open, declared, meant>>

Top      == StateTable[Len(StateTable)]
NoRange  == [Minimum |-> 0, Maximum |-> 0]
NoUsages == [list |-> <<>>, range |-> NoRange]
NoMain   == [type |-> "none"]
IDs      == ReportIDs \cup {0}
Errors == {"HIDStackOverflow", "HIDStackUnderflow", "InsufficientReportItems",
           "UnexpectedEndCollection", "InsufficientCollectionPaths", "UsageListOverflow",
           "InsufficientReportIDItems", "NoUnfilteredReportItems"}

Entry    == [BitSize : BitSizes \cup {0}, ReportCount : Counts \cup {0}, ReportID : IDs]
Path     == [Usage : Nat, Parent : 0..HID_MAX_COLLECTIONS]
SizeInfo == [ReportID : IDs, ReportSizeBits : [ItemTypes -> Nat]]
HID_MinMax_t    == [Minimum : Nat, Maximum : Nat]
ReportItem == [ReportID : IDs, ItemType : ItemTypes, BitOffset : Nat, BitSize : BitSizes \cup {0},
               Usage : Nat, CollectionPath : 0..HID_MAX_COLLECTIONS]

TableOK ==
  StateTable \in Seq(Entry) /\ Len(StateTable) \in 1..HID_STATETABLE_STACK_DEPTH
PathsOK ==
  /\ CollectionPaths \in [1..HID_MAX_COLLECTIONS -> Path]
  /\ CurrCollectionPath \in 0..HID_MAX_COLLECTIONS
SizesOK ==
  /\ ReportIDSizes \in Seq(SizeInfo) /\ Len(ReportIDSizes) \in 1..HID_MAX_REPORT_IDS
  /\ UsingReportIDs \in BOOLEAN /\ CurrReportIDInfo \in 1..Len(ReportIDSizes)
LocalsOK ==
  /\ UsageList \in Seq(Usages) /\ Len(UsageList) <= HID_USAGE_STACK_DEPTH
  /\ UsageMinMax \in HID_MinMax_t
  /\ declared \in [list : Seq(Usages), range : HID_MinMax_t]
ControlOK ==
  /\ scope \in Repertoires
  /\ main \in {NoMain} \cup [type : ItemTypes, constant : BOOLEAN, num : Nat]
  /\ result \in {"parsing", "Successful"} \cup Errors
ItemsOK ==
  /\ ReportItems \in Seq(ReportItem) /\ Len(ReportItems) <= HID_MAX_REPORTITEMS
  /\ meant \in Seq([field : Nat, usage : SUBSET Nat, within : Seq(Nat)])
  /\ Len(meant) = Len(ReportItems)
LaidOK ==
  laid \in [IDs \X ItemTypes -> Seq(Nat \X Nat)] /\ fields \in Nat /\ open \in Seq(Nat)

HIDTypeOK ==
  TableOK /\ PathsOK /\ SizesOK /\ LocalsOK /\ ControlOK /\ ItemsOK /\ LaidOK

Fresh(table, paths, curr, sizes, using, info, list, range, items, k, m, r, l, f, o, d, w) ==
  /\ k \in Repertoires
  /\ table = <<[BitSize |-> 0, ReportCount |-> 0, ReportID |-> 0]>>
  /\ paths = [i \in 1..HID_MAX_COLLECTIONS |-> [Usage |-> 0, Parent |-> 0]] /\ curr = 0
  /\ sizes = <<[ReportID |-> 0, ReportSizeBits |-> [t \in ItemTypes |-> 0]]>>
  /\ using = FALSE /\ info = 1
  /\ list = <<>> /\ range = NoRange
  /\ items = <<>> /\ m = NoMain /\ r = "parsing"
  /\ l = [x \in IDs \X ItemTypes |-> <<>>] /\ f = 0 /\ o = <<>>
  /\ d = NoUsages /\ w = <<>>

HIDInit == Fresh(StateTable, CollectionPaths, CurrCollectionPath, ReportIDSizes, UsingReportIDs,
              CurrReportIDInfo, UsageList, UsageMinMax, ReportItems, scope, main, result,
              laid, fields, open, declared, meant)

-----------------------------------------------------------------------------
(* Items of the descriptor.                                                *)

Item(k) == result = "parsing" /\ main = NoMain /\ k \in scope.items
Done    == result = "parsing" /\ main = NoMain
ParseError(e) == result' = e /\ UNCHANGED <<itemVars, localVars, ReportItems, scope, main, laid, fields, open, declared, meant>>
KeepsItems    == UNCHANGED <<ReportItems, scope, laid, fields, meant>>

SetTop(entry) ==
  /\ StateTable' = [StateTable EXCEPT ![Len(StateTable)] = entry]
  /\ UNCHANGED <<CollectionPaths, CurrCollectionPath, localVars, main, result, open, declared>> /\ KeepsItems

KeepsReports == UNCHANGED <<CollectionPaths, CurrCollectionPath, ReportIDSizes, UsingReportIDs,
                            CurrReportIDInfo, main, result, open, declared>> /\ KeepsItems

\* PUSH copies sizeof(HID_ReportItem_t), which is more than an entry.  Behind
\* the last entry the rest lands on a variable that the build has put there:
\* here one that is not in use, or the usages.
Overrun ==
  \/ UNCHANGED localVars
  \/ /\ Len(StateTable) + 1 = HID_STATETABLE_STACK_DEPTH
     /\ \E u \in Usages : /\ UsageList' = [i \in DOMAIN UsageList |-> u]
                          /\ UsageMinMax' = [Minimum |-> u, Maximum |-> u]

Push ==
  /\ Item("PUSH")
  /\ Descriptors = "plain" => declared = NoUsages
  /\ IF Len(StateTable) = HID_STATETABLE_STACK_DEPTH
     THEN ParseError("HIDStackOverflow")
     ELSE StateTable' = Append(StateTable, Top) /\ Overrun /\ KeepsReports

\* CurrReportIDInfo stays at the report of the last REPORT ID item, although
\* the ID in force is that of the table's entry.
Pop ==
  /\ Item("POP")
  /\ IF Len(StateTable) = 1
     THEN ParseError("HIDStackUnderflow")
     ELSE LET below == SubSeq(StateTable, 1, Len(StateTable) - 1)
          IN  /\ Descriptors = "plain" => below[Len(below)].ReportID = Top.ReportID
              /\ StateTable' = below
              /\ UNCHANGED localVars /\ KeepsReports

ReportSize == Item("REPORT SIZE") /\ \E n \in BitSizes : SetTop([Top EXCEPT !.BitSize = n])
                      /\ UNCHANGED <<ReportIDSizes, UsingReportIDs, CurrReportIDInfo>>
ReportCount == Item("REPORT COUNT") /\ \E n \in Counts : SetTop([Top EXCEPT !.ReportCount = n])
                       /\ UNCHANGED <<ReportIDSizes, UsingReportIDs, CurrReportIDInfo>>

\* A descriptor that uses report IDs has one before its first field.
Known(id) == {i \in DOMAIN ReportIDSizes : ReportIDSizes[i].ReportID = id}

FirstMatch(S) == CHOOSE i \in S : \A j \in S : i <= j

\* A bug to compare with: a known report is taken for a new one.
ReportIDAlwaysNew ==
  /\ Item("REPORT ID")
  /\ UsingReportIDs \/ fields = 0
  /\ \E id \in ReportIDs :
       IF Len(ReportIDSizes) < HID_MAX_REPORT_IDS /\ UsingReportIDs
       THEN /\ ReportIDSizes' = Append(ReportIDSizes,
                                [ReportID |-> id, ReportSizeBits |-> [t \in ItemTypes |-> 0]])
            /\ CurrReportIDInfo' = Len(ReportIDSizes) + 1
            /\ UNCHANGED UsingReportIDs /\ SetTop([Top EXCEPT !.ReportID = id])
       ELSE IF UsingReportIDs THEN ParseError("InsufficientReportIDItems")
       ELSE /\ ReportIDSizes' = [ReportIDSizes EXCEPT ![CurrReportIDInfo].ReportID = id]
            /\ UNCHANGED CurrReportIDInfo
            /\ UsingReportIDs' = TRUE /\ SetTop([Top EXCEPT !.ReportID = id])

ReportID ==
  /\ Item("REPORT ID")
  /\ UsingReportIDs \/ fields = 0
  /\ \E id \in ReportIDs :
       \/ /\ ~UsingReportIDs
          /\ ReportIDSizes' = [ReportIDSizes EXCEPT ![CurrReportIDInfo].ReportID = id]
          /\ UNCHANGED CurrReportIDInfo
          /\ UsingReportIDs' = TRUE /\ SetTop([Top EXCEPT !.ReportID = id])
       \/ /\ UsingReportIDs /\ Known(id) # {}
          /\ CurrReportIDInfo' = FirstMatch(Known(id))
          /\ UNCHANGED <<ReportIDSizes, UsingReportIDs>> /\ SetTop([Top EXCEPT !.ReportID = id])
       \/ /\ UsingReportIDs /\ Known(id) = {} /\ Len(ReportIDSizes) < HID_MAX_REPORT_IDS
          /\ ReportIDSizes' = Append(ReportIDSizes,
                                [ReportID |-> id, ReportSizeBits |-> [t \in ItemTypes |-> 0]])
          /\ CurrReportIDInfo' = Len(ReportIDSizes) + 1
          /\ UNCHANGED UsingReportIDs /\ SetTop([Top EXCEPT !.ReportID = id])
       \/ /\ UsingReportIDs /\ Known(id) = {} /\ Len(ReportIDSizes) = HID_MAX_REPORT_IDS
          /\ ParseError("InsufficientReportIDItems")

Usage ==
  /\ Item("USAGE")
  /\ IF Len(UsageList) = HID_USAGE_STACK_DEPTH
     THEN ParseError("UsageListOverflow")
     ELSE /\ \E u \in Usages : UsageList' = Append(UsageList, u)
                                 /\ declared' = [declared EXCEPT !.list = Append(@, u)]
          /\ UNCHANGED <<itemVars, UsageMinMax, main, result, open>> /\ KeepsItems

\* USAGE MINIMUM and USAGE MAXIMUM, which come together.
UsageRange ==
  /\ Item("USAGE RANGE")
  /\ \E lo, hi \in Usages : 
       /\ lo < hi /\ UsageMinMax' = [Minimum |-> lo, Maximum |-> hi]
       /\ declared' = [declared EXCEPT !.range = UsageMinMax']
  /\ UNCHANGED <<itemVars, UsageList, main, result, open>> /\ KeepsItems

\* A main item forgets the local items before it.
ForgetLocals == UsageList' = <<>> /\ UsageMinMax' = NoRange

\* The usage that the next collection or field takes.
InRange == UsageMinMax.Minimum <= UsageMinMax.Maximum
NextUsage(otherwise) ==
  IF UsageList # <<>> THEN Head(UsageList) ELSE IF InRange THEN UsageMinMax.Minimum ELSE otherwise

\* A path is free while it has no parent; the first one is the root's.
FreePaths == {p \in 2..HID_MAX_COLLECTIONS : CollectionPaths[p].Parent = 0}

OpenPath(p) ==
  LET usage == NextUsage(CollectionPaths[p].Usage)
  IN  /\ CollectionPaths' = [CollectionPaths EXCEPT ![p] = [Usage |-> usage, Parent |-> CurrCollectionPath]]
      /\ CurrCollectionPath' = p /\ open' = Append(open, usage) /\ ForgetLocals /\ declared' = NoUsages
      /\ UNCHANGED <<StateTable, ReportIDSizes, UsingReportIDs, CurrReportIDInfo, main, result>> /\ KeepsItems

\* Every collection has a usage.
Collection ==
  /\ Item("COLLECTION") /\ declared # NoUsages
  /\ \/ /\ CurrCollectionPath = 0
        /\ Descriptors = "plain" => CollectionPaths[1].Usage = 0
        /\ OpenPath(1)
     \/ CurrCollectionPath # 0 /\ FreePaths # {} /\ OpenPath(FirstMatch(FreePaths))
     \/ CurrCollectionPath # 0 /\ FreePaths = {} /\ ParseError("InsufficientCollectionPaths")

\* A bug to compare with: the end of a collection leaves all of them.
EndCollectionLeavesAll ==
  /\ Item("COLLECTION")
  /\ IF CurrCollectionPath = 0
     THEN ParseError("UnexpectedEndCollection")
     ELSE /\ CurrCollectionPath' = 0
          /\ open' = SubSeq(open, 1, Len(open) - 1) /\ ForgetLocals /\ declared' = NoUsages
          /\ UNCHANGED <<StateTable, CollectionPaths, ReportIDSizes, UsingReportIDs,
                         CurrReportIDInfo, main, result>> /\ KeepsItems

EndCollection ==
  /\ Item("COLLECTION")
  /\ IF CurrCollectionPath = 0
     THEN ParseError("UnexpectedEndCollection")
     ELSE /\ CurrCollectionPath' = CollectionPaths[CurrCollectionPath].Parent
          /\ open' = SubSeq(open, 1, Len(open) - 1) /\ ForgetLocals /\ declared' = NoUsages
          /\ UNCHANGED <<StateTable, CollectionPaths, ReportIDSizes, UsingReportIDs,
                         CurrReportIDInfo, main, result>> /\ KeepsItems

MainItem ==
  /\ Item("MAIN") /\ fields + Top.ReportCount <= scope.fields
  /\ \E t \in ItemTypes, c \in BOOLEAN : main' = [type |-> t, constant |-> c, num |-> 0]
  /\ UNCHANGED <<itemVars, localVars, ReportItems, scope, result, laid, fields, open, declared, meant>>

\* What the descriptor says the usage of field n of the item is, if anything.
UsageMeant(n) ==
  LET listed == Len(declared.list)
      ranged == declared.range.Minimum + (n - listed - 1)
  IN  IF n <= listed THEN {declared.list[n]}
      ELSE IF ranged <= declared.range.Maximum /\ ranged > 0 THEN {ranged} ELSE {}

\* One turn of the loop over ReportCount.  A constant field, or one that the
\* application's filter does not want, takes its bits and is not stored.
Field ==
  /\ result = "parsing" /\ main # NoMain /\ main.num < Top.ReportCount
  /\ LET report == <<Top.ReportID, main.type>>
         info   == ReportIDSizes[CurrReportIDInfo]
         item   == [ReportID |-> Top.ReportID, ItemType |-> main.type,
                    BitOffset |-> info.ReportSizeBits[main.type], BitSize |-> Top.BitSize,
                    Usage |-> NextUsage(0), CollectionPath |-> CurrCollectionPath]
     IN  /\ ReportIDSizes' = [ReportIDSizes EXCEPT
                ![CurrReportIDInfo].ReportSizeBits[main.type] = @ + Top.BitSize]
         /\ laid' = [laid EXCEPT ![report] = @ \o [k \in 1..Top.BitSize |-> <<fields + 1, k>>]]
         /\ fields' = fields + 1
         /\ IF UsageList # <<>>
            THEN UsageList' = Tail(UsageList) /\ UNCHANGED UsageMinMax
            ELSE /\ UNCHANGED UsageList
                 /\ UsageMinMax' = IF InRange THEN [UsageMinMax EXCEPT !.Minimum = @ + 1] ELSE UsageMinMax
         /\ main' = [main EXCEPT !.num = @ + 1]
         /\ \/ UNCHANGED <<ReportItems, meant, result>>
            \/ /\ ~main.constant /\ Len(ReportItems) < HID_MAX_REPORTITEMS
               /\ ReportItems' = Append(ReportItems, item)
               /\ meant' = Append(meant, [field |-> fields + 1, usage |-> UsageMeant(main.num + 1),
                                          within |-> open])
               /\ UNCHANGED result
            \/ /\ ~main.constant /\ Len(ReportItems) = HID_MAX_REPORTITEMS
               /\ result' = "InsufficientReportItems" /\ UNCHANGED <<ReportItems, meant>>
  /\ UNCHANGED <<StateTable, CollectionPaths, CurrCollectionPath, UsingReportIDs, CurrReportIDInfo,
                 scope, open, declared>>

EndMainItem ==
  /\ result = "parsing" /\ main # NoMain /\ main.num >= Top.ReportCount
  /\ main' = NoMain /\ ForgetLocals /\ declared' = NoUsages
  /\ UNCHANGED <<itemVars, result, open>> /\ KeepsItems

EndDescriptor ==
  /\ Done
  /\ result' = IF ReportItems = <<>> THEN "NoUnfilteredReportItems" ELSE "Successful"
  /\ UNCHANGED <<itemVars, localVars, ReportItems, scope, main, laid, fields, open, declared, meant>>

\* The next device's descriptor.
NextDescriptor ==
  /\ result # "parsing"
  /\ Fresh(StateTable', CollectionPaths', CurrCollectionPath', ReportIDSizes', UsingReportIDs',
           CurrReportIDInfo', UsageList', UsageMinMax', ReportItems', scope', main', result',
           laid', fields', open', declared', meant')

HIDNext ==
  \/ Push \/ Pop \/ ReportSize \/ ReportCount \/ ReportID \/ Usage \/ UsageRange
  \/ Collection \/ EndCollection \/ MainItem \/ Field \/ EndMainItem
  \/ EndDescriptor \/ NextDescriptor

HIDSpec == HIDInit /\ [][HIDNext]_hidVars

-----------------------------------------------------------------------------
(* USB_GetHIDReportItemInfo, and what the parser promises.                 *)

\* The value of an item in a report that is the item's own.
USB_GetHIDReportItemInfo(report, item) == [k \in 1..item.BitSize |-> report[item.BitOffset + k]]

\* The bytes of a report.
USB_GetHIDReportSize(id, type) ==
  IF Known(id) = {} THEN 0
  ELSE (ReportIDSizes[FirstMatch(Known(id))].ReportSizeBits[type] + 7) \div 8

\* The collections that a path lies in have these usages, from the outermost.
LiesIn(path, usages) ==
  \E trail \in [1..Len(usages) -> 1..HID_MAX_COLLECTIONS] :
    /\ path = IF usages = <<>> THEN 0 ELSE trail[Len(usages)]
    /\ \A i \in 1..Len(usages) :
         CollectionPaths[trail[i]] =
           [Usage |-> usages[i], Parent |-> IF i = 1 THEN 0 ELSE trail[i - 1]]

\* Whatever the descriptor interleaves (padding, filtered fields, several
\* reports, PUSH and POP), the value read for an item is the bits that the
\* device has put in its field, no others.
ValuesRead ==
  \A i \in DOMAIN ReportItems :
    LET item == ReportItems[i]
        report == laid[<<item.ReportID, item.ItemType>>]
    IN  /\ item.BitOffset + item.BitSize <= Len(report)
        /\ USB_GetHIDReportItemInfo(report, item) = [k \in 1..item.BitSize |-> <<meant[i].field, k>>]

\* The size the parser gives for a report is that of the report the device
\* sends, however often the descriptor has gone from one report to another.
ReportSizesAgree ==
  \A id \in IDs, type \in ItemTypes :
    USB_GetHIDReportSize(id, type) = (Len(laid[<<id, type>>]) + 7) \div 8

\* An item has the usage that the descriptor lists for it, where it lists one,
\* and lies in the collections that were open, however many have been opened,
\* closed and stored in the same table since.
ItemsKeepMeaning ==
  \A i \in DOMAIN ReportItems :
    /\ meant[i].usage # {} => ReportItems[i].Usage \in meant[i].usage
    /\ LiesIn(ReportItems[i].CollectionPath, meant[i].within)
=============================================================================
