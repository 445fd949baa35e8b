--------------------------- MODULE HIDParserProofs ---------------------------
(***************************************************************************)
(* Type correctness of the HID report parser, and that the values read for *)
(* its items are those of the device's fields and that the items keep the  *)
(* meaning the descriptor gives them, for descriptors in which POP does    *)
(* not change the report.                                                  *)
(***************************************************************************)
EXTENDS HIDParser, TLAPS, SequenceTheorems, WellFoundedInduction

(***************************************************************************)
(* Lemmas on the operators.                                                *)
(***************************************************************************)

\* A nonempty set of numbers has a first element.
LEMMA FirstMatchIn ==
  ASSUME NEW S \in SUBSET Nat, S # {}
  PROVE  FirstMatch(S) \in S
<1> DEFINE R == {ss \in Nat \X Nat : ss[1] < ss[2]}
<1>1. IsWellFoundedOn(R, Nat)  BY NatLessThanWellFounded DEF OpToRel
<1>2. \E i \in S : \A j \in S : ~(<<j, i>> \in R)
  <2> HIDE DEF R
  <2> QED  BY <1>1, WFMin
<1>3. PICK i \in S : \A j \in S : ~(<<j, i>> \in R)  BY <1>2
<1>4. ASSUME NEW j \in S PROVE i <= j
  <2>1. ~(<<j, i>> \in R) /\ i \in Nat /\ j \in Nat  BY <1>3
  <2>2. j < i => <<j, i>> \in R  BY <2>1
  <2> QED  BY <2>1, <2>2
<1> QED  BY <1>3, <1>4 DEF FirstMatch

\* The bits of one more field, laid behind the others.
LEMMA MoreBits ==
  ASSUME NEW s \in Seq(Nat \X Nat), NEW n \in Nat, NEW f \in Nat,
         NEW r, r = s \o [k \in 1..n |-> <<f, k>>]
  PROVE  /\ r \in Seq(Nat \X Nat) /\ Len(r) = Len(s) + n
         /\ \A k \in 1..n : r[Len(s) + k] = <<f, k>>
         /\ \A k \in 1..Len(s) : r[k] = s[k]
<1> DEFINE T == Nat \X Nat
          b == [k \in 1..n |-> <<f, k>>]
<1>1. b \in Seq(T) /\ Len(b) = n  OBVIOUS
<1>2. \A k \in 1..n : b[k] = <<f, k>>  OBVIOUS
<1>3. r = s \o b /\ s \in Seq(T)  OBVIOUS
<1> HIDE DEF b, T
<1>4. /\ r \in Seq(T) /\ Len(r) = Len(s) + n
      /\ \A i \in 1..(Len(s) + n) : r[i] = IF i <= Len(s) THEN s[i] ELSE b[i - Len(s)]
  BY ONLY <1>1, <1>3, ConcatProperties
<1>5. ASSUME NEW k \in 1..n PROVE r[Len(s) + k] = <<f, k>>
  <2>1. Len(s) \in Nat  BY <1>3, LenProperties
  <2>2. /\ Len(s) + k \in 1..(Len(s) + n) /\ ~(Len(s) + k <= Len(s))
        /\ (Len(s) + k) - Len(s) = k
    BY <2>1
  <2> QED  BY <1>2, <1>4, <2>2
<1>6. ASSUME NEW k \in 1..Len(s) PROVE r[k] = s[k]
  <2>1. Len(s) \in Nat  BY <1>3, LenProperties
  <2> QED  BY <1>4, <2>1
<1> QED  BY <1>4, <1>5, <1>6 DEF T

(***************************************************************************)
(* Type correctness.                                                       *)
(***************************************************************************)

LEMMA TopOK ==
  ASSUME TableOK
  PROVE  Top \in Entry
BY DEF TableOK, Top

\* Every entry of the table that SetTop writes has its type.
LEMMA SetTopTypes ==
  ASSUME HIDTypeOK, NEW e \in Entry, SetTop(e)
  PROVE  TableOK' /\ PathsOK' /\ LocalsOK' /\ ControlOK' /\ ItemsOK' /\ LaidOK'
<1>1. TableOK'
  BY ExceptSeq DEF HIDTypeOK, TableOK, SetTop
<1> QED  BY <1>1 DEF HIDTypeOK, SetTop, KeepsItems, PathsOK, LocalsOK, ControlOK, ItemsOK, LaidOK,
               localVars

LEMMA ErrorTypes ==
  ASSUME HIDTypeOK, NEW e \in Errors, ParseError(e)
  PROVE  HIDTypeOK'
BY DEF HIDTypeOK, ParseError, TableOK, PathsOK, SizesOK, LocalsOK, ControlOK, ItemsOK, LaidOK,
       itemVars, localVars

LEMMA FreshTypes ==
  ASSUME NEW table, NEW paths, NEW curr, NEW sizes, NEW using, NEW info, NEW list, NEW range,
         NEW items, NEW k, NEW m, NEW r, NEW l, NEW f, NEW o, NEW d, NEW w,
         Fresh(table, paths, curr, sizes, using, info, list, range, items, k, m, r, l, f, o, d, w)
  PROVE  /\ table \in Seq(Entry) /\ Len(table) \in 1..HID_STATETABLE_STACK_DEPTH
         /\ paths \in [1..HID_MAX_COLLECTIONS -> Path] /\ curr \in 0..HID_MAX_COLLECTIONS
         /\ sizes \in Seq(SizeInfo) /\ Len(sizes) \in 1..HID_MAX_REPORT_IDS
         /\ using \in BOOLEAN /\ info \in 1..Len(sizes)
         /\ list \in Seq(Usages) /\ Len(list) <= HID_USAGE_STACK_DEPTH
         /\ range \in HID_MinMax_t /\ d \in [list : Seq(Usages), range : HID_MinMax_t]
         /\ k \in Repertoires /\ m = NoMain /\ r = "parsing"
         /\ items \in Seq(ReportItem) /\ Len(items) <= HID_MAX_REPORTITEMS
         /\ w \in Seq([field : Nat, usage : SUBSET Nat, within : Seq(Nat)])
         /\ Len(w) = Len(items)
         /\ l \in [IDs \X ItemTypes -> Seq(Nat \X Nat)] /\ f \in Nat /\ o \in Seq(Nat)
<1> USE HIDParserAssumption DEF Fresh
<1>1. table \in Seq(Entry) /\ Len(table) \in 1..HID_STATETABLE_STACK_DEPTH
  BY DEF Entry, IDs
<1>2. paths \in [1..HID_MAX_COLLECTIONS -> Path] /\ curr \in 0..HID_MAX_COLLECTIONS
  BY DEF Path
<1>3. /\ sizes \in Seq(SizeInfo) /\ Len(sizes) \in 1..HID_MAX_REPORT_IDS
      /\ using \in BOOLEAN /\ info \in 1..Len(sizes)
  <2> DEFINE e == [ReportID |-> 0, ReportSizeBits |-> [t \in ItemTypes |-> 0]]
  <2>1. e \in SizeInfo  BY DEF SizeInfo, IDs
  <2>2. sizes = <<e>> /\ using = FALSE /\ info = 1  OBVIOUS
  <2> HIDE DEF e
  <2>3. <<e>> \in Seq(SizeInfo) /\ Len(<<e>>) = 1  BY ONLY <2>1
  <2>4. 1 \in 1..HID_MAX_REPORT_IDS /\ 1 \in 1..1 /\ FALSE \in BOOLEAN  OBVIOUS
  <2> QED  BY ONLY <2>2, <2>3, <2>4
<1>4. /\ list \in Seq(Usages) /\ Len(list) <= HID_USAGE_STACK_DEPTH
      /\ range \in HID_MinMax_t /\ d \in [list : Seq(Usages), range : HID_MinMax_t]
  BY DEF NoUsages, NoRange, HID_MinMax_t
<1>5. k \in Repertoires /\ m = NoMain /\ r = "parsing"  OBVIOUS
<1>6. /\ items \in Seq(ReportItem) /\ Len(items) <= HID_MAX_REPORTITEMS
      /\ w \in Seq([field : Nat, usage : SUBSET Nat, within : Seq(Nat)])
      /\ Len(w) = Len(items)
  OBVIOUS
<1>7. l \in [IDs \X ItemTypes -> Seq(Nat \X Nat)] /\ f \in Nat /\ o \in Seq(Nat)
  OBVIOUS
<1> QED  BY <1>1, <1>2, <1>3, <1>4, <1>5, <1>6, <1>7

LEMMA InitTypes == HIDInit => HIDTypeOK
<1> SUFFICES ASSUME HIDInit PROVE HIDTypeOK  OBVIOUS
<1>1. Fresh(StateTable, CollectionPaths, CurrCollectionPath, ReportIDSizes, UsingReportIDs,
            CurrReportIDInfo, UsageList, UsageMinMax, ReportItems, scope, main, result,
            laid, fields, open, declared, meant)
  BY DEF HIDInit
<1>2. TableOK /\ PathsOK  BY <1>1, FreshTypes DEF TableOK, PathsOK
<1>3. SizesOK  BY <1>1, FreshTypes DEF SizesOK
<1>4. LocalsOK /\ ControlOK  BY <1>1, FreshTypes DEF LocalsOK, ControlOK
<1>5. ItemsOK  BY <1>1, FreshTypes DEF ItemsOK
<1>6. LaidOK  BY <1>1, FreshTypes DEF LaidOK
<1> QED  BY <1>2, <1>3, <1>4, <1>5, <1>6 DEF HIDTypeOK

LEMMA NextDescriptorTypes == NextDescriptor => HIDTypeOK'
<1> SUFFICES ASSUME NextDescriptor PROVE HIDTypeOK'  OBVIOUS
<1>1. Fresh(StateTable', CollectionPaths', CurrCollectionPath', ReportIDSizes', UsingReportIDs',
            CurrReportIDInfo', UsageList', UsageMinMax', ReportItems', scope', main', result',
            laid', fields', open', declared', meant')
  BY DEF NextDescriptor
<1>2. TableOK' /\ PathsOK'  BY <1>1, FreshTypes DEF TableOK, PathsOK
<1>3. SizesOK'  BY <1>1, FreshTypes DEF SizesOK
<1>4. LocalsOK' /\ ControlOK'  BY <1>1, FreshTypes DEF LocalsOK, ControlOK
<1>5. ItemsOK'  BY <1>1, FreshTypes DEF ItemsOK
<1>6. LaidOK'  BY <1>1, FreshTypes DEF LaidOK
<1> QED  BY <1>2, <1>3, <1>4, <1>5, <1>6 DEF HIDTypeOK

LEMMA TableTypes == HIDTypeOK /\ (Push \/ Pop \/ ReportSize \/ ReportCount) => HIDTypeOK'
<1> SUFFICES ASSUME HIDTypeOK, Push \/ Pop \/ ReportSize \/ ReportCount PROVE HIDTypeOK'
  OBVIOUS
<1>0. TableOK /\ Top \in Entry  BY TopOK DEF HIDTypeOK
<1>1. ASSUME KeepsReports, TableOK', LocalsOK' PROVE HIDTypeOK'
  BY <1>1 DEF HIDTypeOK, KeepsReports, KeepsItems, PathsOK, SizesOK, ControlOK, ItemsOK, LaidOK
<1>2. CASE Push
  <2>1. CASE ParseError("HIDStackOverflow")  BY <2>1, ErrorTypes DEF Errors
  <2>2. CASE /\ Len(StateTable) # HID_STATETABLE_STACK_DEPTH
             /\ StateTable' = Append(StateTable, Top) /\ Overrun /\ KeepsReports
    <3>1. TableOK'
      BY <1>0, <2>2, AppendProperties, HIDParserAssumption DEF TableOK
    <3>2. LocalsOK'
      <4>1. LocalsOK /\ UNCHANGED declared  BY <2>2 DEF HIDTypeOK, KeepsReports
      <4>2. CASE UNCHANGED localVars  BY <4>1, <4>2 DEF localVars, LocalsOK
      <4>3. CASE \E u \in Usages : /\ UsageList' = [i \in DOMAIN UsageList |-> u]
                                  /\ UsageMinMax' = [Minimum |-> u, Maximum |-> u]
        <5>1. PICK u \in Usages : /\ UsageList' = [i \in DOMAIN UsageList |-> u]
                                 /\ UsageMinMax' = [Minimum |-> u, Maximum |-> u]
          BY <4>3
        <5>2. DOMAIN UsageList = 1..Len(UsageList) /\ Len(UsageList) \in Nat
          BY <4>1, LenProperties DEF LocalsOK
        <5>3. UsageList' \in Seq(Usages) /\ Len(UsageList') = Len(UsageList)  BY <5>1, <5>2
        <5>4. u \in Nat  BY HIDParserAssumption
        <5>5. UsageMinMax' \in HID_MinMax_t  BY <5>1, <5>4 DEF HID_MinMax_t
        <5> QED  BY <4>1, <5>3, <5>5 DEF LocalsOK
      <4> QED  BY <2>2, <4>2, <4>3 DEF Overrun
    <3> QED  BY <1>1, <2>2, <3>1, <3>2
  <2> QED  BY <1>2, <2>1, <2>2 DEF Push
<1>3. CASE Pop
  <2>1. CASE ParseError("HIDStackUnderflow")  BY <2>1, ErrorTypes DEF Errors
  <2>2. CASE /\ Len(StateTable) # 1
             /\ StateTable' = SubSeq(StateTable, 1, Len(StateTable) - 1)
             /\ UNCHANGED localVars /\ KeepsReports
    <3>1. TableOK'
      <4> DEFINE n == Len(StateTable)
      <4>0. n \in 1..HID_STATETABLE_STACK_DEPTH /\ HID_STATETABLE_STACK_DEPTH \in Nat /\ n # 1
        BY <1>0, <2>2, HIDParserAssumption DEF TableOK
      <4>1. n \in Nat /\ n - 1 \in Nat /\ n - 1 >= 1 /\ n - 1 <= HID_STATETABLE_STACK_DEPTH
        <5> HIDE DEF n
        <5> QED  BY <4>0
      <4>2. \A i \in 1..(n - 1) : StateTable[i] \in Entry
        BY <1>0, <4>1, ElementOfSeq DEF TableOK
      <4>3. SubSeq(StateTable, 1, n - 1) \in Seq(Entry) /\ Len(SubSeq(StateTable, 1, n - 1)) = n - 1
        <5> HIDE DEF n
        <5>1. 1 \in Int /\ n - 1 \in Int /\ 1 <= n - 1 /\ (n - 1) - 1 + 1 = n - 1  BY <4>1
        <5> QED  BY <4>2, <5>1, SubSeqProperties
      <4>4. StateTable' = SubSeq(StateTable, 1, n - 1)  BY <2>2
      <4>5. Len(StateTable') = n - 1 /\ n - 1 \in 1..HID_STATETABLE_STACK_DEPTH
        <5> HIDE DEF n
        <5> QED  BY <4>0, <4>1, <4>3, <4>4
      <4> QED  BY <4>3, <4>4, <4>5 DEF TableOK
    <3>2. LocalsOK'  BY <2>2 DEF HIDTypeOK, KeepsReports, localVars, LocalsOK
    <3> QED  BY <1>1, <2>2, <3>1, <3>2
  <2> QED  BY <1>3, <2>1, <2>2 DEF Pop
<1>4. CASE ReportSize
  <2>1. PICK n \in BitSizes : SetTop([Top EXCEPT !.BitSize = n])
    BY <1>4 DEF ReportSize
  <2>2. [Top EXCEPT !.BitSize = n] \in Entry  BY <1>0 DEF Entry
  <2>3. SizesOK'  BY <1>4 DEF ReportSize, SizesOK, HIDTypeOK
  <2> QED  BY <2>1, <2>2, <2>3, SetTopTypes DEF HIDTypeOK
<1>5. CASE ReportCount
  <2>1. PICK n \in Counts : SetTop([Top EXCEPT !.ReportCount = n])
    BY <1>5 DEF ReportCount
  <2>2. [Top EXCEPT !.ReportCount = n] \in Entry  BY <1>0 DEF Entry
  <2>3. SizesOK'  BY <1>5 DEF ReportCount, SizesOK, HIDTypeOK
  <2> QED  BY <2>1, <2>2, <2>3, SetTopTypes DEF HIDTypeOK
<1> QED  BY <1>2, <1>3, <1>4, <1>5

LEMMA ReportIDTypes == HIDTypeOK /\ ReportID => HIDTypeOK'
<1> SUFFICES ASSUME HIDTypeOK, ReportID PROVE HIDTypeOK'  OBVIOUS
<1> DEFINE n == Len(ReportIDSizes)
<1>0. Top \in Entry /\ SizesOK  BY TopOK DEF HIDTypeOK
<1>1. PICK id \in ReportIDs :
        \/ /\ ~UsingReportIDs
           /\ ReportIDSizes' = [ReportIDSizes EXCEPT ![CurrReportIDInfo].ReportID = id]
           /\ UNCHANGED CurrReportIDInfo
           /\ UsingReportIDs' = TRUE /\ SetTop([Top EXCEPT !.ReportID = id])
        \/ /\ UsingReportIDs /\ Known(id) # {}
           /\ CurrReportIDInfo' = FirstMatch(Known(id))
           /\ UNCHANGED <<ReportIDSizes, UsingReportIDs>> /\ SetTop([Top EXCEPT !.ReportID = id])
        \/ /\ UsingReportIDs /\ Known(id) = {} /\ n < HID_MAX_REPORT_IDS
           /\ ReportIDSizes' = Append(ReportIDSizes,
                                 [ReportID |-> id, ReportSizeBits |-> [t \in ItemTypes |-> 0]])
           /\ CurrReportIDInfo' = n + 1
           /\ UNCHANGED UsingReportIDs /\ SetTop([Top EXCEPT !.ReportID = id])
        \/ ParseError("InsufficientReportIDItems")
  BY DEF ReportID
<1>2. id \in IDs /\ [Top EXCEPT !.ReportID = id] \in Entry  BY <1>0 DEF Entry, IDs
<1>3. ASSUME SetTop([Top EXCEPT !.ReportID = id]), SizesOK' PROVE HIDTypeOK'
  BY <1>2, <1>3, SetTopTypes DEF HIDTypeOK
<1>4. n \in Nat /\ n \in 1..HID_MAX_REPORT_IDS /\ HID_MAX_REPORT_IDS \in Nat
  BY <1>0, HIDParserAssumption DEF SizesOK
<1>5. CASE /\ ReportIDSizes' = [ReportIDSizes EXCEPT ![CurrReportIDInfo].ReportID = id]
           /\ UNCHANGED CurrReportIDInfo
           /\ UsingReportIDs' = TRUE /\ SetTop([Top EXCEPT !.ReportID = id])
  <2> DEFINE e == [ReportIDSizes[CurrReportIDInfo] EXCEPT !.ReportID = id]
  <2>1. ReportIDSizes[CurrReportIDInfo] \in SizeInfo  BY <1>0, ElementOfSeq DEF SizesOK
  <2>2. e \in SizeInfo  BY <1>2, <2>1 DEF SizeInfo
  <2>3. ReportIDSizes' = [ReportIDSizes EXCEPT ![CurrReportIDInfo] = e]  BY <1>5
  <2> HIDE DEF e
  <2>4. ReportIDSizes' \in Seq(SizeInfo) /\ Len(ReportIDSizes') = n
    BY <1>0, <2>2, <2>3, ExceptSeq DEF SizesOK
  <2>5. SizesOK'  BY <1>0, <1>5, <2>4 DEF SizesOK
  <2> QED  BY <1>3, <1>5, <2>5
<1>6. CASE /\ Known(id) # {}
           /\ CurrReportIDInfo' = FirstMatch(Known(id))
           /\ UNCHANGED <<ReportIDSizes, UsingReportIDs>> /\ SetTop([Top EXCEPT !.ReportID = id])
  <2>1. Known(id) \subseteq 1..n /\ Known(id) \in SUBSET Nat
    BY <1>0, <1>4, LenProperties DEF Known, SizesOK
  <2>2. CurrReportIDInfo' \in 1..n  BY <1>6, <2>1, FirstMatchIn
  <2>3. SizesOK'  BY <1>0, <1>6, <2>2 DEF SizesOK
  <2> QED  BY <1>3, <1>6, <2>3
<1>7. CASE /\ n < HID_MAX_REPORT_IDS
           /\ ReportIDSizes' = Append(ReportIDSizes,
                                 [ReportID |-> id, ReportSizeBits |-> [t \in ItemTypes |-> 0]])
           /\ CurrReportIDInfo' = n + 1
           /\ UNCHANGED UsingReportIDs /\ SetTop([Top EXCEPT !.ReportID = id])
  <2> DEFINE e == [ReportID |-> id, ReportSizeBits |-> [t \in ItemTypes |-> 0]]
  <2>1. e \in SizeInfo  BY <1>2 DEF SizeInfo
  <2> HIDE DEF e
  <2>2. ReportIDSizes' = Append(ReportIDSizes, e)  BY <1>7 DEF e
  <2>3. ReportIDSizes' \in Seq(SizeInfo) /\ Len(ReportIDSizes') = n + 1
    BY <1>0, <2>1, <2>2, AppendProperties DEF SizesOK
  <2>4. n + 1 \in 1..HID_MAX_REPORT_IDS /\ n + 1 \in 1..(n + 1)
    <3> HIDE DEF n
    <3> QED  BY <1>4, <1>7
  <2>5. SizesOK'  BY <1>0, <1>7, <2>3, <2>4 DEF SizesOK
  <2> QED  BY <1>3, <1>7, <2>5
<1>8. CASE ParseError("InsufficientReportIDItems")  BY <1>8, ErrorTypes DEF Errors
<1> QED  BY <1>1, <1>5, <1>6, <1>7, <1>8

LEMMA LocalTypes == HIDTypeOK /\ (Usage \/ UsageRange \/ EndMainItem) => HIDTypeOK'
<1> SUFFICES ASSUME HIDTypeOK, Usage \/ UsageRange \/ EndMainItem PROVE HIDTypeOK'  OBVIOUS
<1> USE DEF HIDTypeOK
<1>1. ASSUME UNCHANGED itemVars, KeepsItems, UNCHANGED open PROVE TableOK' /\ PathsOK' /\ SizesOK' /\ ItemsOK' /\ LaidOK'
  BY <1>1 DEF TableOK, PathsOK, SizesOK, ItemsOK, LaidOK, itemVars, KeepsItems
<1>2. CASE Usage
  <2>1. CASE ParseError("UsageListOverflow")  BY <2>1, ErrorTypes DEF Errors
  <2>2. CASE /\ Len(UsageList) # HID_USAGE_STACK_DEPTH
             /\ \E u \in Usages : UsageList' = Append(UsageList, u)
                                 /\ declared' = [declared EXCEPT !.list = Append(@, u)]
             /\ UNCHANGED <<itemVars, UsageMinMax, main, result, open>> /\ KeepsItems
    <3>1. PICK u \in Usages : UsageList' = Append(UsageList, u)
                            /\ declared' = [declared EXCEPT !.list = Append(@, u)]
      BY <2>2
    <3>2. UsageList' \in Seq(Usages) /\ Len(UsageList') = Len(UsageList) + 1
      BY <3>1, AppendProperties DEF LocalsOK
    <3>3. Len(UsageList) \in Nat /\ HID_USAGE_STACK_DEPTH \in Nat
      BY LenProperties, HIDParserAssumption DEF LocalsOK
    <3>4. Len(UsageList') <= HID_USAGE_STACK_DEPTH
      BY <2>2, <3>2, <3>3 DEF LocalsOK
    <3>5. declared' \in [list : Seq(Usages), range : HID_MinMax_t]
      BY <3>1, AppendProperties DEF LocalsOK
    <3>6. LocalsOK'  BY <2>2, <3>2, <3>4, <3>5 DEF LocalsOK
    <3>7. ControlOK'  BY <2>2 DEF ControlOK, KeepsItems
    <3> QED  BY <1>1, <2>2, <3>6, <3>7
  <2> QED  BY <1>2, <2>1, <2>2 DEF Usage
<1>3. CASE UsageRange
  <2>1. LocalsOK'
    <3>1. PICK lo, hi \in Usages : /\ UsageMinMax' = [Minimum |-> lo, Maximum |-> hi]
                                 /\ declared' = [declared EXCEPT !.range = UsageMinMax']
      BY <1>3 DEF UsageRange
    <3>2. UsageMinMax' \in HID_MinMax_t  BY <3>1, HIDParserAssumption DEF HID_MinMax_t
    <3> HIDE DEF HID_MinMax_t
    <3>3. declared' \in [list : Seq(Usages), range : HID_MinMax_t]  BY <3>1, <3>2 DEF LocalsOK
    <3> QED  BY <1>3, <3>2, <3>3 DEF UsageRange, LocalsOK
  <2>2. ControlOK'  BY <1>3 DEF UsageRange, ControlOK, KeepsItems
  <2> QED  BY <1>1, <1>3, <2>1, <2>2 DEF UsageRange
<1>4. CASE EndMainItem
  <2>1. LocalsOK'
    BY <1>4, HIDParserAssumption DEF EndMainItem, ForgetLocals, LocalsOK, NoUsages, NoRange, HID_MinMax_t
  <2>2. ControlOK'  BY <1>4 DEF EndMainItem, ControlOK, KeepsItems
  <2> QED  BY <1>1, <1>4, <2>1, <2>2 DEF EndMainItem
<1> QED  BY <1>2, <1>3, <1>4

LEMMA NextUsageIn ==
  ASSUME LocalsOK, NEW u \in Nat
  PROVE  NextUsage(u) \in Nat
<1>1. CASE UsageList # <<>>
  <2>1. Head(UsageList) \in Usages  BY <1>1, HeadTailProperties DEF LocalsOK
  <2> QED  BY <1>1, <2>1, HIDParserAssumption DEF NextUsage
<1>2. CASE UsageList = <<>>
  BY <1>2 DEF NextUsage, LocalsOK, HID_MinMax_t
<1> QED  BY <1>1, <1>2

LEMMA CollectionTypes == HIDTypeOK /\ (Collection \/ EndCollection) => HIDTypeOK'
<1> SUFFICES ASSUME HIDTypeOK, Collection \/ EndCollection PROVE HIDTypeOK'  OBVIOUS
<1> USE DEF HIDTypeOK
<1>0. HID_MAX_COLLECTIONS \in Nat /\ HID_MAX_COLLECTIONS >= 2  BY HIDParserAssumption
<1>1. ASSUME ForgetLocals, declared' = NoUsages PROVE LocalsOK'
  BY <1>1, HIDParserAssumption DEF ForgetLocals, LocalsOK, NoUsages, NoRange, HID_MinMax_t
<1>2. ASSUME NEW p \in 1..HID_MAX_COLLECTIONS, OpenPath(p) PROVE HIDTypeOK'
  <2> DEFINE usage == NextUsage(CollectionPaths[p].Usage)
  <2>1. usage \in Nat  BY NextUsageIn DEF PathsOK, Path
  <2> HIDE DEF usage
  <2>2. /\ CollectionPaths' = [CollectionPaths EXCEPT ![p] = [Usage |-> usage, Parent |-> CurrCollectionPath]]
        /\ CurrCollectionPath' = p /\ open' = Append(open, usage)
    BY <1>2 DEF OpenPath, usage
  <2>3. PathsOK'  BY <1>0, <2>1, <2>2 DEF PathsOK, Path
  <2>4. LaidOK'
    BY <1>2, <2>1, <2>2, AppendProperties DEF OpenPath, LaidOK, KeepsItems
  <2>5. TableOK' /\ SizesOK' /\ ControlOK' /\ ItemsOK'
    BY <1>2 DEF OpenPath, TableOK, SizesOK, ControlOK, ItemsOK, KeepsItems
  <2> QED  BY <1>1, <1>2, <2>3, <2>4, <2>5 DEF OpenPath
<1>3. CASE Collection
  <2>1. CASE OpenPath(1)  BY <1>0, <1>2, <2>1
  <2>2. CASE FreePaths # {} /\ OpenPath(FirstMatch(FreePaths))
    <3>1. FreePaths \subseteq 1..HID_MAX_COLLECTIONS /\ FreePaths \in SUBSET Nat
      BY <1>0 DEF FreePaths
    <3>2. FirstMatch(FreePaths) \in 1..HID_MAX_COLLECTIONS  BY <2>2, <3>1, FirstMatchIn
    <3> QED  BY <1>2, <2>2, <3>2
  <2>3. CASE ParseError("InsufficientCollectionPaths")  BY <2>3, ErrorTypes DEF Errors
  <2> QED  BY <1>3, <2>1, <2>2, <2>3 DEF Collection
<1>4. CASE EndCollection
  <2>1. CASE ParseError("UnexpectedEndCollection")  BY <2>1, ErrorTypes DEF Errors
  <2>2. CASE /\ CurrCollectionPath # 0
             /\ CurrCollectionPath' = CollectionPaths[CurrCollectionPath].Parent
             /\ open' = SubSeq(open, 1, Len(open) - 1) /\ ForgetLocals /\ declared' = NoUsages
             /\ UNCHANGED <<StateTable, CollectionPaths, ReportIDSizes, UsingReportIDs,
                            CurrReportIDInfo, main, result>> /\ KeepsItems
    <3>1. PathsOK'
      BY <1>0, <2>2 DEF PathsOK, Path
    <3>2. open' \in Seq(Nat)
      <4> DEFINE n == Len(open)
      <4>1. n \in Nat /\ open \in Seq(Nat)  BY LenProperties DEF LaidOK
      <4>2. \A i \in 1..(n - 1) : open[i] \in Nat  BY <4>1, ElementOfSeq
      <4>3. 1 \in Int /\ n - 1 \in Int
        <5> HIDE DEF n
        <5> QED  BY <4>1
      <4> QED  BY <2>2, <4>2, <4>3, SubSeqProperties
    <3>3. LaidOK'  BY <2>2, <3>2 DEF LaidOK, KeepsItems
    <3>4. TableOK' /\ SizesOK' /\ ControlOK' /\ ItemsOK'
      BY <2>2 DEF TableOK, SizesOK, ControlOK, ItemsOK, KeepsItems
    <3> QED  BY <1>1, <2>2, <3>1, <3>3, <3>4
  <2> QED  BY <1>4, <2>1, <2>2 DEF EndCollection
<1> QED  BY <1>3, <1>4

LEMMA FieldTypes == HIDTypeOK /\ (MainItem \/ Field \/ EndDescriptor) => HIDTypeOK'
<1> SUFFICES ASSUME HIDTypeOK, MainItem \/ Field \/ EndDescriptor PROVE HIDTypeOK'  OBVIOUS
<1> USE DEF HIDTypeOK
<1>0. Top \in Entry /\ BitSizes \subseteq Nat  BY TopOK, HIDParserAssumption
<1>1. CASE MainItem
  <2>1. ControlOK'  BY <1>1 DEF MainItem, ControlOK
  <2> QED
    BY <1>1, <2>1 DEF MainItem, TableOK, PathsOK, SizesOK, LocalsOK, ItemsOK, LaidOK, itemVars, localVars
<1>2. CASE EndDescriptor
  <2>1. ControlOK'  BY <1>2 DEF EndDescriptor, ControlOK, Errors
  <2> QED
    BY <1>2, <2>1 DEF EndDescriptor, TableOK, PathsOK, SizesOK, LocalsOK, ItemsOK, LaidOK, itemVars,
       localVars
<1>3. CASE Field
  <2> DEFINE c == CurrReportIDInfo
             t == main.type
             n == Top.BitSize
             item == [ReportID |-> Top.ReportID, ItemType |-> t,
                      BitOffset |-> ReportIDSizes[c].ReportSizeBits[t], BitSize |-> n,
                      Usage |-> NextUsage(0), CollectionPath |-> CurrCollectionPath]
  <2>0. main # NoMain /\ result = "parsing"  BY <1>3 DEF Field
  <2>1. t \in ItemTypes /\ main \in [type : ItemTypes, constant : BOOLEAN, num : Nat]
    BY <2>0 DEF ControlOK
  <2>2. n \in BitSizes \cup {0} /\ n \in Nat /\ Top.ReportID \in IDs
    <3>1. Top.BitSize \in BitSizes \cup {0} /\ Top.ReportID \in IDs  BY ONLY <1>0 DEF Entry
    <3>2. \A x \in BitSizes \cup {0} : x \in Nat  BY ONLY HIDParserAssumption
    <3>3. Top.BitSize \in Nat  BY ONLY <3>1, <3>2
    <3> QED  BY <3>1, <3>3
  <2>3. ReportIDSizes[c] \in SizeInfo  BY ElementOfSeq DEF SizesOK
  <2>4. TableOK' /\ PathsOK'  BY <1>3 DEF Field, TableOK, PathsOK
  <2>5. SizesOK'
    <3> DEFINE e == [ReportIDSizes[c] EXCEPT !.ReportSizeBits[t] = @ + n]
    <3>1. e \in SizeInfo  BY <2>1, <2>2, <2>3 DEF SizeInfo
    <3>2. ReportIDSizes' = [ReportIDSizes EXCEPT ![c] = e]  BY <1>3 DEF Field
    <3> HIDE DEF e
    <3>3. ReportIDSizes' \in Seq(SizeInfo) /\ Len(ReportIDSizes') = Len(ReportIDSizes)
      BY <3>1, <3>2, ExceptSeq DEF SizesOK
    <3> QED  BY <1>3, <3>3 DEF Field, SizesOK
  <2>6. LocalsOK'
    <3>1. CASE UsageList # <<>>
      <4>1. UsageList' = Tail(UsageList) /\ UNCHANGED <<UsageMinMax, declared>>
        BY <1>3, <3>1 DEF Field
      <4>2. UsageList' \in Seq(Usages) /\ Len(UsageList') = Len(UsageList) - 1
        BY <3>1, <4>1, HeadTailProperties DEF LocalsOK
      <4>3. Len(UsageList) \in Nat /\ HID_USAGE_STACK_DEPTH \in Nat
        BY LenProperties, HIDParserAssumption DEF LocalsOK
      <4>4. Len(UsageList') <= HID_USAGE_STACK_DEPTH  BY <4>2, <4>3 DEF LocalsOK
      <4> QED  BY <4>1, <4>2, <4>4 DEF LocalsOK
    <3>2. CASE UsageList = <<>>
      <4>1. /\ UNCHANGED <<UsageList, declared>>
            /\ UsageMinMax' = IF InRange THEN [UsageMinMax EXCEPT !.Minimum = @ + 1] ELSE UsageMinMax
        BY <1>3, <3>2 DEF Field
      <4>2. UsageMinMax' \in HID_MinMax_t  BY <4>1 DEF LocalsOK, HID_MinMax_t
      <4> QED  BY <4>1, <4>2 DEF LocalsOK
    <3> QED  BY <3>1, <3>2
  <2>7. ControlOK'
    <3>1. main' = [main EXCEPT !.num = @ + 1] /\ scope' = scope  BY <1>3 DEF Field
    <3>2. result' \in {"parsing", "Successful"} \cup Errors
      BY <1>3, <2>0 DEF Field, Errors
    <3> QED  BY <2>1, <3>1, <3>2 DEF ControlOK
  <2>8. LaidOK'
    <3> DEFINE key == <<Top.ReportID, t>>
               new == laid[key] \o [k \in 1..n |-> <<fields + 1, k>>]
    <3>1. laid' = [laid EXCEPT ![key] = new] /\ fields' = fields + 1 /\ open' = open
      BY <1>3 DEF Field
    <3>2. key \in IDs \X ItemTypes  BY <2>1, <2>2
    <3>3. laid[key] \in Seq(Nat \X Nat) /\ fields + 1 \in Nat  BY <3>2 DEF LaidOK
    <3>4. new \in Seq(Nat \X Nat)
      <4> DEFINE old == laid[key]
                 f == fields + 1
      <4>1. old \in Seq(Nat \X Nat) /\ n \in Nat /\ f \in Nat  BY ONLY <2>2, <3>3
      <4>2. new = old \o [k \in 1..n |-> <<f, k>>]  OBVIOUS
      <4> HIDE DEF old, new, n, f
      <4> QED  BY ONLY <4>1, <4>2, MoreBits
    <3> HIDE DEF new, key
    <3> QED  BY <3>1, <3>3, <3>4 DEF LaidOK
  <2>9. ItemsOK'
    <3>1. CASE UNCHANGED <<ReportItems, meant>>  BY <3>1 DEF ItemsOK
    <3>2. CASE /\ Len(ReportItems) < HID_MAX_REPORTITEMS
               /\ ReportItems' = Append(ReportItems, item)
               /\ meant' = Append(meant, [field |-> fields + 1, usage |-> UsageMeant(main.num + 1),
                                          within |-> open])
      <4> DEFINE m == [field |-> fields + 1, usage |-> UsageMeant(main.num + 1), within |-> open]
                 M == [field : Nat, usage : SUBSET Nat, within : Seq(Nat)]
      <4>1. item \in ReportItem
        <5>1. NextUsage(0) \in Nat  BY NextUsageIn
        <5>2. ReportIDSizes[c].ReportSizeBits[t] \in Nat  BY <2>1, <2>3 DEF SizeInfo
        <5>3. CurrCollectionPath \in 0..HID_MAX_COLLECTIONS  BY DEF PathsOK
        <5> QED  BY <2>1, <2>2, <5>1, <5>2, <5>3 DEF ReportItem
      <4>2. UsageMeant(main.num + 1) \subseteq Nat
        <5> DEFINE j == main.num + 1
        <5>1. j \in Nat /\ j >= 1  BY <2>1
        <5>2. /\ declared.list \in Seq(Usages) /\ Len(declared.list) \in Nat
              /\ declared.range.Minimum \in Nat /\ declared.range.Maximum \in Nat
          BY LenProperties DEF LocalsOK, HID_MinMax_t
        <5> HIDE DEF j
        <5>3. CASE j <= Len(declared.list)
          <6>1. declared.list[j] \in Usages  BY <5>1, <5>2, <5>3, ElementOfSeq
          <6> QED  BY <5>3, <6>1, HIDParserAssumption DEF UsageMeant, j
        <5>4. CASE ~(j <= Len(declared.list))
          <6>1. declared.range.Minimum + (j - Len(declared.list) - 1) \in Nat  BY <5>1, <5>2, <5>4
          <6> QED  BY <5>4, <6>1 DEF UsageMeant, j
        <5> QED  BY <5>3, <5>4
      <4>3. m \in M  BY <4>2 DEF LaidOK
      <4> HIDE DEF item, m, M
      <4>4. /\ ReportItems' \in Seq(ReportItem) /\ Len(ReportItems') = Len(ReportItems) + 1
            /\ meant' \in Seq(M) /\ Len(meant') = Len(meant) + 1
        BY <3>2, <4>1, <4>3, AppendProperties DEF ItemsOK, M, m
      <4>5. Len(ReportItems) \in Nat /\ HID_MAX_REPORTITEMS \in Nat
        BY LenProperties, HIDParserAssumption DEF ItemsOK
      <4> QED  BY <3>2, <4>4, <4>5 DEF ItemsOK, M
    <3> QED  BY <1>3, <3>1, <3>2 DEF Field
  <2> QED  BY <2>4, <2>5, <2>6, <2>7, <2>8, <2>9
<1> QED  BY <1>1, <1>2, <1>3

LEMMA NextTypes == HIDTypeOK /\ HIDNext => HIDTypeOK'
BY TableTypes, ReportIDTypes, LocalTypes, CollectionTypes, FieldTypes, NextDescriptorTypes DEF HIDNext

LEMMA StutterTypes == HIDTypeOK /\ UNCHANGED hidVars => HIDTypeOK'
BY DEF HIDTypeOK, hidVars, itemVars, localVars, TableOK, PathsOK, SizesOK, LocalsOK, ControlOK, ItemsOK,
       LaidOK

\* The parser's tables keep their bounds and its indexes stay inside them, for
\* every descriptor.
THEOREM ParserTypeCorrect == HIDSpec => []HIDTypeOK
BY InitTypes, NextTypes, StutterTypes, PTL DEF HIDSpec

(***************************************************************************)
(* The layout of the reports.                                              *)
(***************************************************************************)

SizeAgrees(i, t) ==
  ReportIDSizes[i].ReportSizeBits[t] = Len(laid[<<ReportIDSizes[i].ReportID, t>>])

\* A report has one entry of ReportIDSizes, CurrReportIDInfo is the entry of
\* the ID in force, and what an entry counts is what has been laid.
Layout ==
  /\ \A i, j \in DOMAIN ReportIDSizes :
       ReportIDSizes[i].ReportID = ReportIDSizes[j].ReportID => i = j
  /\ Top.ReportID = ReportIDSizes[CurrReportIDInfo].ReportID
  /\ \A i \in DOMAIN ReportIDSizes, t \in ItemTypes : SizeAgrees(i, t)
  /\ \A id \in IDs, t \in ItemTypes : Known(id) = {} => laid[<<id, t>>] = <<>>
  /\ ~UsingReportIDs => Len(ReportIDSizes) = 1 /\ CurrReportIDInfo = 1
  /\ fields = 0 => \A x \in IDs \X ItemTypes : laid[x] = <<>>

\* What Fresh gives of the layout, for the first descriptor as for a later one.
LEMMA FreshLayout ==
  ASSUME NEW table, NEW paths, NEW curr, NEW sizes, NEW using, NEW info, NEW list, NEW range,
         NEW items, NEW k, NEW m, NEW r, NEW l, NEW f, NEW o, NEW d, NEW w,
         Fresh(table, paths, curr, sizes, using, info, list, range, items, k, m, r, l, f, o, d, w)
  PROVE  /\ DOMAIN sizes = {1} /\ Len(sizes) = 1 /\ info = 1
         /\ sizes[1].ReportID = 0 /\ \A t \in ItemTypes : sizes[1].ReportSizeBits[t] = 0
         /\ table[Len(table)].ReportID = 0
         /\ \A x \in IDs \X ItemTypes : l[x] = <<>>
         /\ items = <<>>
<1> DEFINE e == [ReportID |-> 0, ReportSizeBits |-> [t \in ItemTypes |-> 0]]
           b == [BitSize |-> 0, ReportCount |-> 0, ReportID |-> 0]
<1>1. sizes = <<e>> /\ info = 1 /\ table = <<b>> /\ items = <<>>  BY DEF Fresh
<1>2. e.ReportID = 0 /\ \A t \in ItemTypes : e.ReportSizeBits[t] = 0  OBVIOUS
<1>3. b.ReportID = 0  OBVIOUS
<1>4. \A x \in IDs \X ItemTypes : l[x] = <<>>  BY DEF Fresh
<1> HIDE DEF e, b
<1>5. DOMAIN <<e>> = {1} /\ Len(<<e>>) = 1 /\ <<e>>[1] = e  OBVIOUS
<1>6. Len(<<b>>) = 1 /\ <<b>>[1] = b  OBVIOUS
<1> QED  BY <1>1, <1>2, <1>3, <1>4, <1>5, <1>6

LEMMA InitLayout == HIDInit => Layout /\ ValuesRead
<1> SUFFICES ASSUME HIDInit PROVE Layout /\ ValuesRead  OBVIOUS
<1>1. Fresh(StateTable, CollectionPaths, CurrCollectionPath, ReportIDSizes, UsingReportIDs,
            CurrReportIDInfo, UsageList, UsageMinMax, ReportItems, scope, main, result,
            laid, fields, open, declared, meant)
  BY DEF HIDInit
<1>2. /\ DOMAIN ReportIDSizes = {1} /\ Len(ReportIDSizes) = 1 /\ CurrReportIDInfo = 1
      /\ ReportIDSizes[1].ReportID = 0 /\ \A t \in ItemTypes : ReportIDSizes[1].ReportSizeBits[t] = 0
      /\ Top.ReportID = 0 /\ (\A x \in IDs \X ItemTypes : laid[x] = <<>>) /\ ReportItems = <<>>
  BY <1>1, FreshLayout DEF Top
<1>3. \A t \in ItemTypes : SizeAgrees(1, t)  BY <1>2 DEF SizeAgrees, IDs
<1> QED  BY <1>2, <1>3 DEF Layout, ValuesRead

LEMMA NextDescriptorLayout == NextDescriptor => Layout' /\ ValuesRead'
<1> SUFFICES ASSUME NextDescriptor PROVE Layout' /\ ValuesRead'  OBVIOUS
<1>1. Fresh(StateTable', CollectionPaths', CurrCollectionPath', ReportIDSizes', UsingReportIDs',
            CurrReportIDInfo', UsageList', UsageMinMax', ReportItems', scope', main', result',
            laid', fields', open', declared', meant')
  BY DEF NextDescriptor
<1>2. /\ DOMAIN ReportIDSizes' = {1} /\ Len(ReportIDSizes') = 1 /\ CurrReportIDInfo' = 1
      /\ ReportIDSizes'[1].ReportID = 0
      /\ \A t \in ItemTypes : ReportIDSizes'[1].ReportSizeBits[t] = 0
      /\ Top'.ReportID = 0 /\ (\A x \in IDs \X ItemTypes : laid'[x] = <<>>) /\ ReportItems' = <<>>
  BY <1>1, FreshLayout DEF Top
<1>3. \A t \in ItemTypes : SizeAgrees(1, t)'  BY <1>2 DEF SizeAgrees, IDs
<1> QED  BY <1>2, <1>3 DEF Layout, ValuesRead

\* A step that leaves the reports, the entry in use and the ID in force.
LEMMA QuietLayout ==
  ASSUME Layout, Top'.ReportID = Top.ReportID,
         UNCHANGED <<ReportIDSizes, CurrReportIDInfo, UsingReportIDs, laid, fields>>
  PROVE  Layout'
<1>1. /\ \A i, j \in DOMAIN ReportIDSizes' :
           ReportIDSizes'[i].ReportID = ReportIDSizes'[j].ReportID => i = j
      /\ Top'.ReportID = ReportIDSizes'[CurrReportIDInfo'].ReportID
      /\ ~UsingReportIDs' => Len(ReportIDSizes') = 1 /\ CurrReportIDInfo' = 1
      /\ fields' = 0 => \A x \in IDs \X ItemTypes : laid'[x] = <<>>
  BY DEF Layout
<1>2. \A i \in DOMAIN ReportIDSizes', t \in ItemTypes : SizeAgrees(i, t)'
  BY DEF Layout, SizeAgrees
<1>3. \A id \in IDs, t \in ItemTypes : Known(id)' = {} => laid'[<<id, t>>] = <<>>
  <2>1. \A id \in IDs : Known(id)' = Known(id)  BY DEF Known
  <2> QED  BY <2>1 DEF Layout
<1> QED  BY <1>1, <1>2, <1>3, Zenon DEF Layout

LEMMA QuietValues == ValuesRead /\ UNCHANGED <<ReportItems, laid, meant>> => ValuesRead'
<1> SUFFICES ASSUME ValuesRead, ReportItems' = ReportItems, laid' = laid, meant' = meant
             PROVE  ValuesRead'
  OBVIOUS
<1>1. \A b, i : USB_GetHIDReportItemInfo(b, i)' = USB_GetHIDReportItemInfo(b, i)
  BY DEF USB_GetHIDReportItemInfo
<1> QED  BY <1>1 DEF ValuesRead

\* The items that change the state table keep its report ID.
LEMMA TableLayout ==
  ASSUME HIDTypeOK, Layout, Descriptors = "plain", Push \/ Pop \/ ReportSize \/ ReportCount
  PROVE  Layout'
<1>0. TableOK /\ Top \in Entry /\ Len(StateTable) \in Nat  BY TopOK, LenProperties DEF HIDTypeOK, TableOK
<1>1. ASSUME KeepsReports, Top'.ReportID = Top.ReportID PROVE Layout'
  BY <1>1, QuietLayout DEF KeepsReports, KeepsItems
<1>2. ASSUME NEW e, ParseError(e) PROVE Layout'
  BY <1>2, QuietLayout DEF ParseError, itemVars, Top
<1>3. ASSUME NEW e \in Entry, SetTop(e), e.ReportID = Top.ReportID,
             UNCHANGED <<ReportIDSizes, UsingReportIDs, CurrReportIDInfo>>
      PROVE  Layout'
  <2>1. Top' = e  BY <1>0, <1>3, ExceptSeq DEF SetTop, Top, TableOK
  <2> QED  BY <1>3, <2>1, QuietLayout DEF SetTop, KeepsItems
<1>4. CASE Push
  <2>1. CASE StateTable' = Append(StateTable, Top) /\ Overrun /\ KeepsReports
    <3>1. Top' = Top  BY <1>0, <2>1, AppendProperties DEF Top, TableOK
    <3> QED  BY <1>1, <2>1, <3>1
  <2> QED  BY <1>2, <1>4, <2>1 DEF Push
<1>5. CASE Pop
  <2>1. CASE ParseError("HIDStackUnderflow")  BY <1>2, <2>1
  <2> DEFINE below == SubSeq(StateTable, 1, Len(StateTable) - 1)
  <2>2. CASE below[Len(below)].ReportID = Top.ReportID /\ StateTable' = below /\ KeepsReports
    BY <1>1, <2>2 DEF Top
  <2> QED  BY <1>5, <2>1, <2>2 DEF Pop
<1>6. CASE ReportSize
  <2>1. PICK n \in BitSizes : SetTop([Top EXCEPT !.BitSize = n])  BY <1>6 DEF ReportSize
  <2>2. [Top EXCEPT !.BitSize = n] \in Entry /\ [Top EXCEPT !.BitSize = n].ReportID = Top.ReportID
    BY <1>0 DEF Entry
  <2> QED  BY <1>3, <1>6, <2>1, <2>2 DEF ReportSize
<1>7. CASE ReportCount
  <2>1. PICK n \in Counts : SetTop([Top EXCEPT !.ReportCount = n])  BY <1>7 DEF ReportCount
  <2>2. [Top EXCEPT !.ReportCount = n] \in Entry /\ [Top EXCEPT !.ReportCount = n].ReportID = Top.ReportID
    BY <1>0 DEF Entry
  <2> QED  BY <1>3, <1>7, <2>1, <2>2 DEF ReportCount
<1> QED  BY <1>4, <1>5, <1>6, <1>7

\* The items and steps that leave the state table and the reports alone.
LEMMA OtherLayout ==
  ASSUME Layout,
         \/ Usage \/ UsageRange \/ Collection \/ EndCollection \/ MainItem \/ EndMainItem
         \/ EndDescriptor \/ UNCHANGED hidVars
  PROVE  Layout'
<1>1. ASSUME UNCHANGED <<StateTable, ReportIDSizes, CurrReportIDInfo, UsingReportIDs, laid, fields>>
      PROVE  Layout'
  BY <1>1, QuietLayout DEF Top
<1>2. ASSUME NEW e, ParseError(e) PROVE Layout'  BY <1>1, <1>2 DEF ParseError, itemVars
<1>3. CASE Usage  BY <1>1, <1>2, <1>3 DEF Usage, itemVars, KeepsItems
<1>4. CASE UsageRange  BY <1>1, <1>4 DEF UsageRange, itemVars, KeepsItems
<1>5. ASSUME NEW p, OpenPath(p) PROVE Layout'  BY <1>1, <1>5 DEF OpenPath, KeepsItems
<1>6. CASE Collection  BY <1>2, <1>5, <1>6 DEF Collection
<1>7. CASE EndCollection  BY <1>1, <1>2, <1>7 DEF EndCollection, KeepsItems
<1>8. CASE MainItem  BY <1>1, <1>8 DEF MainItem, itemVars
<1>9. CASE EndMainItem  BY <1>1, <1>9 DEF EndMainItem, itemVars, KeepsItems
<1>10. CASE EndDescriptor  BY <1>1, <1>10 DEF EndDescriptor, itemVars
<1>11. CASE UNCHANGED hidVars  BY <1>1, <1>11 DEF hidVars, itemVars
<1> QED  BY <1>3, <1>4, <1>6, <1>7, <1>8, <1>9, <1>10, <1>11

\* No step but a field's stores an item or lays bits.
LEMMA OtherValues ==
  ASSUME ValuesRead,
         \/ Push \/ Pop \/ ReportSize \/ ReportCount \/ ReportID \/ Usage \/ UsageRange
         \/ Collection \/ EndCollection \/ MainItem \/ EndMainItem \/ EndDescriptor
         \/ UNCHANGED hidVars
  PROVE  ValuesRead'
<1>1. ASSUME NEW e, ParseError(e) PROVE ValuesRead'  BY <1>1, QuietValues DEF ParseError
<1>2. ASSUME KeepsItems PROVE ValuesRead'  BY <1>2, QuietValues DEF KeepsItems
<1>3. ASSUME NEW e, SetTop(e) PROVE ValuesRead'  BY <1>2, <1>3 DEF SetTop
<1>4. CASE Push \/ Pop  BY <1>1, <1>2, <1>4 DEF Push, Pop, KeepsReports
<1>5. CASE ReportSize \/ ReportCount  BY <1>3, <1>5 DEF ReportSize, ReportCount
<1>6. CASE ReportID  BY <1>1, <1>3, <1>6 DEF ReportID
<1>7. CASE Usage \/ UsageRange  BY <1>1, <1>2, <1>7 DEF Usage, UsageRange
<1>8. CASE Collection \/ EndCollection
  BY <1>1, <1>2, <1>8 DEF Collection, OpenPath, EndCollection
<1>9. CASE MainItem  BY <1>9, QuietValues DEF MainItem
<1>10. CASE EndMainItem  BY <1>2, <1>10 DEF EndMainItem
<1>11. CASE EndDescriptor  BY <1>11, QuietValues DEF EndDescriptor
<1>12. CASE UNCHANGED hidVars  BY <1>12, QuietValues DEF hidVars
<1> QED  BY <1>4, <1>5, <1>6, <1>7, <1>8, <1>9, <1>10, <1>11, <1>12

\* A REPORT ID item names the first report, goes back to a known one or opens
\* a new one, of which nothing has been laid.
LEMMA ReportIDLayout ==
  ASSUME HIDTypeOK, Layout, ReportID
  PROVE  Layout'
<1> DEFINE n == Len(ReportIDSizes)
<1>0. /\ TableOK /\ SizesOK /\ Top \in Entry /\ Len(StateTable) \in Nat /\ n \in Nat
      /\ DOMAIN ReportIDSizes = 1..n /\ n \in 1..HID_MAX_REPORT_IDS
  BY TopOK, LenProperties DEF HIDTypeOK, TableOK, SizesOK
<1>1. PICK id \in ReportIDs :
        \/ /\ ~UsingReportIDs /\ fields = 0
           /\ ReportIDSizes' = [ReportIDSizes EXCEPT ![CurrReportIDInfo].ReportID = id]
           /\ UNCHANGED CurrReportIDInfo
           /\ UsingReportIDs' = TRUE /\ SetTop([Top EXCEPT !.ReportID = id])
        \/ /\ UsingReportIDs /\ Known(id) # {}
           /\ CurrReportIDInfo' = FirstMatch(Known(id))
           /\ UNCHANGED <<ReportIDSizes, UsingReportIDs>> /\ SetTop([Top EXCEPT !.ReportID = id])
        \/ /\ UsingReportIDs /\ Known(id) = {} /\ n < HID_MAX_REPORT_IDS
           /\ ReportIDSizes' = Append(ReportIDSizes,
                                 [ReportID |-> id, ReportSizeBits |-> [t \in ItemTypes |-> 0]])
           /\ CurrReportIDInfo' = n + 1
           /\ UNCHANGED UsingReportIDs /\ SetTop([Top EXCEPT !.ReportID = id])
        \/ ParseError("InsufficientReportIDItems")
  BY DEF ReportID
<1>2. id \in IDs  BY DEF IDs
<1>3. ASSUME SetTop([Top EXCEPT !.ReportID = id])
      PROVE  Top'.ReportID = id /\ UNCHANGED <<laid, fields>>
  <2> DEFINE e == [Top EXCEPT !.ReportID = id]
  <2>1. e \in Entry /\ e.ReportID = id  BY <1>0, <1>2 DEF Entry
  <2>2. StateTable' = [StateTable EXCEPT ![Len(StateTable)] = e] /\ UNCHANGED <<laid, fields>>
    BY <1>3 DEF SetTop, KeepsItems
  <2> HIDE DEF e
  <2>3. Top' = e  BY <1>0, <2>1, <2>2, ExceptSeq DEF Top, TableOK
  <2> QED  BY <2>1, <2>2, <2>3
<1>4. CASE /\ ~UsingReportIDs /\ fields = 0
           /\ ReportIDSizes' = [ReportIDSizes EXCEPT ![CurrReportIDInfo].ReportID = id]
           /\ UNCHANGED CurrReportIDInfo
           /\ UsingReportIDs' = TRUE /\ SetTop([Top EXCEPT !.ReportID = id])
  <2>1. n = 1 /\ CurrReportIDInfo = 1 /\ \A x \in IDs \X ItemTypes : laid[x] = <<>>
    BY <1>4 DEF Layout
  <2>2. ReportIDSizes[1] \in SizeInfo  BY <1>0, <2>1, ElementOfSeq DEF SizesOK
  <2>3. /\ DOMAIN ReportIDSizes' = {1}
        /\ ReportIDSizes'[1].ReportID = id
        /\ ReportIDSizes'[1].ReportSizeBits = ReportIDSizes[1].ReportSizeBits
    BY <1>0, <1>4, <2>1, <2>2 DEF SizeInfo
  <2>4. ASSUME NEW t \in ItemTypes PROVE SizeAgrees(1, t)'
    <3>1. ReportIDSizes[1].ReportSizeBits[t] = Len(laid[<<ReportIDSizes[1].ReportID, t>>])
      BY <1>0, <2>1 DEF Layout, SizeAgrees
    <3>2. ReportIDSizes[1].ReportID \in IDs  BY <2>2 DEF SizeInfo
    <3>3. ReportIDSizes[1].ReportSizeBits[t] = Len(laid[<<id, t>>])  BY <1>2, <2>1, <3>1, <3>2
    <3> QED  BY <1>3, <1>4, <2>3, <3>3 DEF SizeAgrees
  <2>5. ~UsingReportIDs' => FALSE  BY <1>4
  <2> QED  BY <1>3, <1>4, <2>1, <2>3, <2>4, <2>5 DEF Layout
<1>5. CASE /\ UsingReportIDs /\ Known(id) # {}
           /\ CurrReportIDInfo' = FirstMatch(Known(id))
           /\ UNCHANGED <<ReportIDSizes, UsingReportIDs>> /\ SetTop([Top EXCEPT !.ReportID = id])
  <2>1. Known(id) \in SUBSET Nat  BY <1>0 DEF Known
  <2>2. CurrReportIDInfo' \in Known(id)  BY <1>5, <2>1, FirstMatchIn
  <2>3. ReportIDSizes[CurrReportIDInfo'].ReportID = id  BY <2>2 DEF Known
  <2> QED  BY <1>3, <1>5, <2>3 DEF Layout, SizeAgrees, Known
<1>6. CASE /\ UsingReportIDs /\ Known(id) = {} /\ n < HID_MAX_REPORT_IDS
           /\ ReportIDSizes' = Append(ReportIDSizes,
                                 [ReportID |-> id, ReportSizeBits |-> [t \in ItemTypes |-> 0]])
           /\ CurrReportIDInfo' = n + 1
           /\ UNCHANGED UsingReportIDs /\ SetTop([Top EXCEPT !.ReportID = id])
  <2> DEFINE e == [ReportID |-> id, ReportSizeBits |-> [t \in ItemTypes |-> 0]]
  <2>1. /\ e \in SizeInfo /\ e.ReportID = id /\ (\A t \in ItemTypes : e.ReportSizeBits[t] = 0)
        /\ ReportIDSizes' = Append(ReportIDSizes, e)
    BY <1>2, <1>6 DEF SizeInfo
  <2> HIDE DEF e
  <2>2. /\ DOMAIN ReportIDSizes' = 1..(n + 1) /\ ReportIDSizes'[n + 1] = e
        /\ \A i \in 1..n : ReportIDSizes'[i] = ReportIDSizes[i]
    <3>1. ReportIDSizes \in Seq(SizeInfo)  BY <1>0 DEF SizesOK
    <3> QED  BY <1>0, <2>1, <3>1, AppendProperties, LenProperties
  <2>3. \A i \in 1..n : ReportIDSizes[i].ReportID # id  BY <1>0, <1>6 DEF Known
  <2>4. \A i \in DOMAIN ReportIDSizes' : i \in 1..n \/ i = n + 1
    <3> HIDE DEF n
    <3> QED  BY <1>0, <2>2
  <2>5. \A i, j \in DOMAIN ReportIDSizes' :
          ReportIDSizes'[i].ReportID = ReportIDSizes'[j].ReportID => i = j
    <3>1. \A i, j \in 1..n : ReportIDSizes[i].ReportID = ReportIDSizes[j].ReportID => i = j
      BY <1>0 DEF Layout
    <3> QED  BY <2>1, <2>2, <2>3, <2>4, <3>1
  <2>6. UNCHANGED laid  BY <1>3, <1>6
  <2>7. \A i \in DOMAIN ReportIDSizes', t \in ItemTypes : SizeAgrees(i, t)'
    <3> SUFFICES ASSUME NEW i \in DOMAIN ReportIDSizes', NEW t \in ItemTypes
                 PROVE  SizeAgrees(i, t)'
      OBVIOUS
    <3>1. CASE i \in 1..n
      <4>1. SizeAgrees(i, t)  BY <1>0, <3>1 DEF Layout
      <4> QED  BY <2>2, <2>6, <3>1, <4>1 DEF SizeAgrees
    <3>2. CASE i = n + 1
      <4>1. laid[<<id, t>>] = <<>>  BY <1>2, <1>6 DEF Layout
      <4>2. Len(<<>>) = 0  OBVIOUS
      <4> QED  BY <2>1, <2>2, <2>6, <3>2, <4>1, <4>2 DEF SizeAgrees
    <3> QED  BY <2>4, <3>1, <3>2
  <2>8. \A k \in IDs : Known(k)' = {} => Known(k) = {}
    <3>0. \A i \in 1..n : i \in DOMAIN ReportIDSizes'  BY <1>0, <2>2
    <3> QED  BY <1>0, <2>2, <3>0 DEF Known
  <2> QED  BY <1>3, <1>6, <2>1, <2>2, <2>5, <2>6, <2>7, <2>8 DEF Layout
<1>7. CASE ParseError("InsufficientReportIDItems")
  BY <1>7, QuietLayout DEF ParseError, itemVars, Top
<1> QED  BY <1>1, <1>4, <1>5, <1>6, <1>7

\* What a field does to the reports: its bits come behind those of the report
\* of the ID in force, and the entry in use counts them.
LEMMA FieldBits ==
  ASSUME HIDTypeOK, Layout, Field
  PROVE  LET c   == CurrReportIDInfo
             key == <<Top.ReportID, main.type>>
             n   == Top.BitSize
         IN  /\ c \in DOMAIN ReportIDSizes /\ main.type \in ItemTypes /\ n \in Nat
             /\ key \in IDs \X ItemTypes /\ ReportIDSizes[c].ReportID = Top.ReportID
             /\ DOMAIN ReportIDSizes' = DOMAIN ReportIDSizes
             /\ \A i \in DOMAIN ReportIDSizes :
                  ReportIDSizes'[i].ReportID = ReportIDSizes[i].ReportID
             /\ \A i \in DOMAIN ReportIDSizes, t \in ItemTypes :
                  ReportIDSizes'[i].ReportSizeBits[t] =
                    IF i = c /\ t = main.type THEN ReportIDSizes[i].ReportSizeBits[t] + n
                                              ELSE ReportIDSizes[i].ReportSizeBits[t]
             /\ ReportIDSizes[c].ReportSizeBits[main.type] = Len(laid[key])
             /\ Len(laid[key]) \in Nat /\ Len(laid'[key]) = Len(laid[key]) + n
             /\ \A k \in 1..n : laid'[key][Len(laid[key]) + k] = <<fields + 1, k>>
             /\ \A k \in 1..Len(laid[key]) : laid'[key][k] = laid[key][k]
             /\ \A x \in IDs \X ItemTypes : x # key => laid'[x] = laid[x]
<1> DEFINE c == CurrReportIDInfo
           t0 == main.type
           n == Top.BitSize
           key == <<Top.ReportID, t0>>
           e == [ReportIDSizes[c] EXCEPT !.ReportSizeBits[t0] = @ + n]
           old == laid[key]
           f == fields + 1
           new == old \o [k \in 1..n |-> <<f, k>>]
<1>1. Top \in Entry /\ SizesOK /\ LaidOK  BY TopOK DEF HIDTypeOK
<1>2. t0 \in ItemTypes  BY DEF Field, HIDTypeOK, ControlOK
<1>3. Top.ReportID \in IDs /\ key \in IDs \X ItemTypes  BY <1>1, <1>2 DEF Entry
<1>4. n \in Nat
  <2>1. Top.BitSize \in BitSizes \cup {0}  BY ONLY <1>1 DEF Entry
  <2>2. \A x \in BitSizes \cup {0} : x \in Nat  BY ONLY HIDParserAssumption
  <2>3. Top.BitSize \in Nat  BY ONLY <2>1, <2>2
  <2> QED  BY <2>3
<1>5. c \in DOMAIN ReportIDSizes /\ ReportIDSizes[c] \in SizeInfo
      /\ \A i \in DOMAIN ReportIDSizes : ReportIDSizes[i] \in SizeInfo
  BY <1>1, ElementOfSeq, LenProperties DEF SizesOK
<1>6. e.ReportID = ReportIDSizes[c].ReportID
      /\ \A t \in ItemTypes : e.ReportSizeBits[t] =
           IF t = t0 THEN ReportIDSizes[c].ReportSizeBits[t] + n ELSE ReportIDSizes[c].ReportSizeBits[t]
  BY <1>2, <1>5 DEF SizeInfo
<1>7. ReportIDSizes' = [ReportIDSizes EXCEPT ![c] = e]  BY DEF Field
<1>8. laid' = [laid EXCEPT ![key] = new]  BY DEF Field
<1>9. old \in Seq(Nat \X Nat) /\ f \in Nat  BY <1>1, <1>3 DEF LaidOK
<1>10. DOMAIN laid = IDs \X ItemTypes  BY <1>1 DEF LaidOK
<1>11. ReportIDSizes[c].ReportID = Top.ReportID /\ ReportIDSizes[c].ReportSizeBits[t0] = Len(old)
  BY <1>2, <1>5 DEF Layout, SizeAgrees
<1> HIDE DEF e, new
<1>12. /\ DOMAIN ReportIDSizes' = DOMAIN ReportIDSizes
       /\ \A i \in DOMAIN ReportIDSizes : ReportIDSizes'[i] = IF i = c THEN e ELSE ReportIDSizes[i]
  BY <1>5, <1>7
<1>13. laid'[key] = new /\ \A x \in IDs \X ItemTypes : x # key => laid'[x] = laid[x]
  BY <1>3, <1>8, <1>10
<1>14. /\ Len(new) = Len(old) + n /\ Len(old) \in Nat
       /\ \A k \in 1..n : new[Len(old) + k] = <<f, k>>
       /\ \A k \in 1..Len(old) : new[k] = old[k]
  <2>1. new = old \o [k \in 1..n |-> <<f, k>>]  BY DEF new
  <2> HIDE DEF old, n, f
  <2> QED  BY <1>4, <1>9, <2>1, MoreBits, LenProperties
<1> QED  BY <1>2, <1>3, <1>4, <1>5, <1>6, <1>11, <1>12, <1>13, <1>14

LEMMA FieldLayout ==
  ASSUME HIDTypeOK, Layout, Field
  PROVE  Layout'
<1> DEFINE c == CurrReportIDInfo
           n == Top.BitSize
           key == <<Top.ReportID, main.type>>
<1>1. /\ c \in DOMAIN ReportIDSizes /\ main.type \in ItemTypes /\ n \in Nat
      /\ key \in IDs \X ItemTypes /\ ReportIDSizes[c].ReportID = Top.ReportID
      /\ DOMAIN ReportIDSizes' = DOMAIN ReportIDSizes
      /\ \A i \in DOMAIN ReportIDSizes : ReportIDSizes'[i].ReportID = ReportIDSizes[i].ReportID
      /\ \A i \in DOMAIN ReportIDSizes, t \in ItemTypes :
           ReportIDSizes'[i].ReportSizeBits[t] =
             IF i = c /\ t = main.type THEN ReportIDSizes[i].ReportSizeBits[t] + n
                                       ELSE ReportIDSizes[i].ReportSizeBits[t]
      /\ Len(laid[key]) \in Nat /\ Len(laid'[key]) = Len(laid[key]) + n
      /\ \A x \in IDs \X ItemTypes : x # key => laid'[x] = laid[x]
  BY FieldBits
<1>2. UNCHANGED <<Top, CurrReportIDInfo, UsingReportIDs>> /\ fields' = fields + 1  BY DEF Field, Top
<1>3. ASSUME NEW i \in DOMAIN ReportIDSizes PROVE ReportIDSizes[i].ReportID \in IDs
  <2>1. ReportIDSizes \in Seq(SizeInfo)  BY DEF HIDTypeOK, SizesOK
  <2>2. ReportIDSizes[i] \in SizeInfo  BY <1>3, <2>1, ElementOfSeq, LenProperties
  <2> QED  BY <2>2 DEF SizeInfo
<1>4. ASSUME NEW i \in DOMAIN ReportIDSizes, NEW t \in ItemTypes PROVE SizeAgrees(i, t)'
  <2>1. ReportIDSizes[i].ReportSizeBits[t] = Len(laid[<<ReportIDSizes[i].ReportID, t>>])
    BY DEF Layout, SizeAgrees
  <2>2. CASE i = c /\ t = main.type
    BY <1>1, <2>1, <2>2 DEF SizeAgrees
  <2>3. CASE ~(i = c /\ t = main.type)
    <3>1. <<ReportIDSizes[i].ReportID, t>> # key
      BY <1>1, <2>3 DEF Layout
    <3> QED  BY <1>1, <1>3, <2>1, <2>3, <3>1 DEF SizeAgrees
  <2> QED  BY <2>2, <2>3
<1>5. ASSUME NEW id \in IDs, NEW t \in ItemTypes, Known(id)' = {} PROVE laid'[<<id, t>>] = <<>>
  <2>1. Known(id) = {}  BY <1>1, <1>5 DEF Known
  <2>2. id # Top.ReportID  BY <1>1, <2>1 DEF Known
  <2> QED  BY <1>1, <2>1, <2>2 DEF Layout
<1>6. fields' # 0  BY <1>2 DEF HIDTypeOK, LaidOK
<1>7. Len(ReportIDSizes') = Len(ReportIDSizes)
  BY ExceptSeq DEF Field, HIDTypeOK, SizesOK
<1> QED  BY <1>1, <1>2, <1>4, <1>5, <1>6, <1>7 DEF Layout

\* A field's own value is the bits it lays, and those of the items before stay.
LEMMA FieldValues ==
  ASSUME HIDTypeOK, Layout, ValuesRead, Field
  PROVE  ValuesRead'
<1> DEFINE c == CurrReportIDInfo
           n == Top.BitSize
           key == <<Top.ReportID, main.type>>
           item == [ReportID |-> Top.ReportID, ItemType |-> main.type,
                    BitOffset |-> ReportIDSizes[c].ReportSizeBits[main.type], BitSize |-> n,
                    Usage |-> NextUsage(0), CollectionPath |-> CurrCollectionPath]
           mean == [field |-> fields + 1, usage |-> UsageMeant(main.num + 1), within |-> open]
           num == Len(ReportItems)
           ReadsOf(s, off, size, field) ==
             off + size <= Len(s) /\ \A k \in 1..size : s[off + k] = <<field, k>>
<1>1. /\ n \in Nat /\ key \in IDs \X ItemTypes
      /\ ReportIDSizes[c].ReportSizeBits[main.type] = Len(laid[key])
      /\ Len(laid[key]) \in Nat /\ Len(laid'[key]) = Len(laid[key]) + n
      /\ \A k \in 1..n : laid'[key][Len(laid[key]) + k] = <<fields + 1, k>>
      /\ \A k \in 1..Len(laid[key]) : laid'[key][k] = laid[key][k]
      /\ \A x \in IDs \X ItemTypes : x # key => laid'[x] = laid[x]
  BY FieldBits
<1>2. /\ ReportItems \in Seq(ReportItem) /\ num \in Nat /\ Len(meant) = num
      /\ meant \in Seq([field : Nat, usage : SUBSET Nat, within : Seq(Nat)])
      /\ DOMAIN ReportItems = 1..num
  BY LenProperties DEF HIDTypeOK, ItemsOK
<1>3. ASSUME NEW i \in 1..num
      PROVE  LET it == ReportItems[i]
                 x  == <<it.ReportID, it.ItemType>>
             IN  /\ it.BitOffset \in Nat /\ it.BitSize \in Nat /\ x \in IDs \X ItemTypes
                 /\ ReadsOf(laid[x], it.BitOffset, it.BitSize, meant[i].field)
                 /\ ReadsOf(laid'[x], it.BitOffset, it.BitSize, meant[i].field)
  <2> DEFINE it == ReportItems[i]
             x == <<it.ReportID, it.ItemType>>
             o == it.BitOffset
             m == it.BitSize
  <2>1. it \in ReportItem  BY <1>2, ElementOfSeq
  <2>2. o \in Nat /\ x \in IDs \X ItemTypes /\ m \in BitSizes \cup {0}  BY <2>1 DEF ReportItem
  <2>3. m \in Nat
    <3>1. \A y \in BitSizes \cup {0} : y \in Nat  BY ONLY HIDParserAssumption
    <3> HIDE DEF m
    <3> QED  BY ONLY <2>2, <3>1
  <2>4. ReadsOf(laid[x], o, m, meant[i].field)
    <3>1. o + m <= Len(laid[x]) /\ USB_GetHIDReportItemInfo(laid[x], it) = [k \in 1..m |-> <<meant[i].field, k>>]
      BY <1>2 DEF ValuesRead
    <3>2. ASSUME NEW k \in 1..m PROVE laid[x][o + k] = <<meant[i].field, k>>
      <4>1. USB_GetHIDReportItemInfo(laid[x], it)[k] = laid[x][o + k]  BY <3>2 DEF USB_GetHIDReportItemInfo
      <4>2. [j \in 1..m |-> <<meant[i].field, j>>][k] = <<meant[i].field, k>>  BY <3>2
      <4> QED  BY <3>1, <4>1, <4>2
    <3> QED  BY <3>1, <3>2
  <2>5. CASE x # key
    BY <1>1, <2>2, <2>3, <2>4, <2>5
  <2>6. CASE x = key
    <3>1. \A k \in 1..m : o + k \in 1..Len(laid[key])
      <4>1. o + m <= Len(laid[key])  BY <2>4, <2>6
      <4> HIDE DEF o, m
      <4> QED  BY <1>1, <2>2, <2>3, <4>1
    <3>2. o + m <= Len(laid'[key])
      <4>1. o + m <= Len(laid[key])  BY <2>4, <2>6
      <4> HIDE DEF o, m
      <4> QED  BY <1>1, <2>2, <2>3, <4>1
    <3>3. \A k \in 1..m : laid'[key][o + k] = <<meant[i].field, k>>
      BY <1>1, <2>4, <2>6, <3>1
    <3> QED  BY <2>2, <2>3, <2>4, <2>6, <3>2, <3>3
  <2> QED  BY <2>5, <2>6
<1>4. ASSUME \A i \in DOMAIN ReportItems' :
               ReadsOf(laid'[<<ReportItems'[i].ReportID, ReportItems'[i].ItemType>>],
                       ReportItems'[i].BitOffset, ReportItems'[i].BitSize, meant'[i].field)
      PROVE  ValuesRead'
  <2> SUFFICES ASSUME NEW i \in DOMAIN ReportItems'
               PROVE  LET it == ReportItems'[i]
                          s  == laid'[<<it.ReportID, it.ItemType>>]
                      IN  /\ it.BitOffset + it.BitSize <= Len(s)
                          /\ [k \in 1..it.BitSize |-> s[it.BitOffset + k]]
                             = [k \in 1..it.BitSize |-> <<meant'[i].field, k>>]
    BY DEF ValuesRead, USB_GetHIDReportItemInfo
  <2> QED  BY <1>4
<1>5. ReadsOf(laid'[key], item.BitOffset, item.BitSize, mean.field)
  <2>1. item.BitOffset = Len(laid[key]) /\ item.BitSize = n /\ mean.field = fields + 1  BY <1>1
  <2> HIDE DEF item, mean, n, key
  <2> QED  BY <1>1, <2>1
<1> HIDE DEF ReadsOf
<1>6. CASE UNCHANGED <<ReportItems, meant>>
  <2> HIDE DEF num
  <2>1. ASSUME NEW i \in DOMAIN ReportItems'
        PROVE  ReadsOf(laid'[<<ReportItems'[i].ReportID, ReportItems'[i].ItemType>>],
                       ReportItems'[i].BitOffset, ReportItems'[i].BitSize, meant'[i].field)
    BY <1>2, <1>3, <1>6
  <2> QED  BY <1>4, <2>1
<1>7. CASE ReportItems' = Append(ReportItems, item) /\ meant' = Append(meant, mean)
  <2>0. item.ReportID = Top.ReportID /\ item.ItemType = main.type  OBVIOUS
  <2> HIDE DEF item, mean, c, num
  <2>1. /\ DOMAIN ReportItems' = 1..(num + 1) /\ ReportItems'[num + 1] = item
        /\ \A i \in 1..num : ReportItems'[i] = ReportItems[i]
    BY <1>2, <1>7 DEF num
  <2>2. meant'[num + 1] = mean /\ \A i \in 1..num : meant'[i] = meant[i]
    BY <1>2, <1>7 DEF num
  <2>3. \A i \in 1..(num + 1) : i \in 1..num \/ i = num + 1  BY <1>2
  <2>4. ASSUME NEW i \in 1..(num + 1)
        PROVE  ReadsOf(laid'[<<ReportItems'[i].ReportID, ReportItems'[i].ItemType>>],
                       ReportItems'[i].BitOffset, ReportItems'[i].BitSize, meant'[i].field)
    <3>1. CASE i \in 1..num  BY <1>3, <2>1, <2>2, <3>1
    <3>2. CASE i = num + 1  BY <1>5, <2>0, <2>1, <2>2, <3>2
    <3> QED  BY <2>3, <3>1, <3>2
  <2>5. ASSUME NEW i \in DOMAIN ReportItems'
        PROVE  ReadsOf(laid'[<<ReportItems'[i].ReportID, ReportItems'[i].ItemType>>],
                       ReportItems'[i].BitOffset, ReportItems'[i].BitSize, meant'[i].field)
    BY <2>1, <2>4
  <2> QED  BY <1>4, <2>5
<1> QED  BY <1>6, <1>7 DEF Field

\* The layout gives the sizes of the reports.
LEMMA LayoutGivesSizes == HIDTypeOK /\ Layout => ReportSizesAgree
<1> SUFFICES ASSUME HIDTypeOK, Layout, NEW id \in IDs, NEW t \in ItemTypes
             PROVE  USB_GetHIDReportSize(id, t) = (Len(laid[<<id, t>>]) + 7) \div 8
  BY DEF ReportSizesAgree
<1>1. CASE Known(id) = {}
  <2>1. laid[<<id, t>>] = <<>>  BY <1>1 DEF Layout
  <2>2. (Len(<<>>) + 7) \div 8 = 0  OBVIOUS
  <2> QED  BY <1>1, <2>1, <2>2 DEF USB_GetHIDReportSize
<1>2. CASE Known(id) # {}
  <2> DEFINE i == FirstMatch(Known(id))
  <2>1. Known(id) \in SUBSET Nat  BY LenProperties DEF Known, HIDTypeOK, SizesOK
  <2>2. i \in Known(id)  BY <1>2, <2>1, FirstMatchIn
  <2> HIDE DEF i
  <2>3. ReportIDSizes[i].ReportSizeBits[t] = Len(laid[<<id, t>>])
    BY <2>2 DEF Layout, SizeAgrees, Known
  <2> QED  BY <1>2, <2>3 DEF USB_GetHIDReportSize, i
<1> QED  BY <1>1, <1>2

(***************************************************************************)
(* The meaning of the items.                                               *)
(***************************************************************************)

\* A path is in use once it has a parent, and the root's once it has a usage.
Used(paths, p) == IF p = 1 THEN paths[1].Usage # 0 ELSE paths[p].Parent # 0

\* The trail of paths from the root's to this one has these usages, and none
\* of its paths can be taken for another collection.
Trail(paths, t, path, usages) ==
  /\ path = IF usages = <<>> THEN 0 ELSE t[Len(usages)]
  /\ \A i \in 1..Len(usages) :
       /\ Used(paths, t[i])
       /\ paths[t[i]] = [Usage |-> usages[i], Parent |-> IF i = 1 THEN 0 ELSE t[i - 1]]
Rooted(paths, path, usages) ==
  \E t \in [1..Len(usages) -> 1..HID_MAX_COLLECTIONS] : Trail(paths, t, path, usages)

Placed ==
  /\ Rooted(CollectionPaths, CurrCollectionPath, open)
  /\ \A i \in DOMAIN ReportItems :
       Rooted(CollectionPaths, ReportItems[i].CollectionPath, meant[i].within)

\* How many fields of the main item have taken their usage, and how many took
\* it from the range.
Taken  == IF main = NoMain THEN 0 ELSE main.num
Beyond == IF Taken <= Len(declared.list) THEN 0 ELSE Taken - Len(declared.list)

\* The list holds the declared usages that no field has taken.
ListLeft ==
  /\ Len(UsageList) = IF Taken <= Len(declared.list) THEN Len(declared.list) - Taken ELSE 0
  /\ \A k \in 1..Len(UsageList) : UsageList[k] = declared.list[Taken + k]

\* So does a declared range; one left behind by PUSH was not declared.
RangeLeft ==
  LET min == declared.range.Minimum
      max == declared.range.Maximum
  IN  declared.range # NoRange =>
        /\ 0 < min /\ min < max /\ UsageMinMax.Maximum = max
        /\ min + Beyond <= max => UsageMinMax.Minimum = min + Beyond

UsagesKept ==
  \A i \in DOMAIN ReportItems : meant[i].usage # {} => ReportItems[i].Usage \in meant[i].usage

Meaning == Placed /\ ListLeft /\ RangeLeft /\ UsagesKept

LEMMA RootedLies ==
  ASSUME NEW path, NEW usages, Rooted(CollectionPaths, path, usages)
  PROVE  LiesIn(path, usages)
BY DEF Rooted, Trail, LiesIn

\* Taking a path that is not in use leaves every trail as it was.
LEMMA RootedStays ==
  ASSUME NEW paths \in [1..HID_MAX_COLLECTIONS -> Path], NEW p \in 1..HID_MAX_COLLECTIONS,
         ~Used(paths, p), NEW e, NEW path, NEW usages, Rooted(paths, path, usages)
  PROVE  Rooted([paths EXCEPT ![p] = e], path, usages)
<1> DEFINE new == [paths EXCEPT ![p] = e]
<1>0. HID_MAX_COLLECTIONS \in Nat /\ 1 \in 1..HID_MAX_COLLECTIONS  BY HIDParserAssumption
<1>1. PICK t \in [1..Len(usages) -> 1..HID_MAX_COLLECTIONS] : Trail(paths, t, path, usages)
  BY DEF Rooted
<1>2. ASSUME NEW i \in 1..Len(usages) PROVE t[i] # p /\ new[t[i]] = paths[t[i]]
  <2>1. Used(paths, t[i])  BY <1>1 DEF Trail
  <2>2. t[i] \in 1..HID_MAX_COLLECTIONS  OBVIOUS
  <2> QED  BY <2>1, <2>2
<1>3. ASSUME NEW i \in 1..Len(usages) PROVE Used(new, t[i])
  <2>1. Used(paths, t[i])  BY <1>1 DEF Trail
  <2> QED  BY <1>2, <2>1 DEF Used
<1> HIDE DEF new
<1>4. Trail(new, t, path, usages)  BY <1>1, <1>2, <1>3 DEF Trail
<1> QED  BY <1>4 DEF Rooted, new

\* Opening a collection makes its path the end of a trail.
LEMMA RootedOpens ==
  ASSUME NEW paths \in [1..HID_MAX_COLLECTIONS -> Path], NEW p \in 1..HID_MAX_COLLECTIONS,
         ~Used(paths, p), NEW u \in Nat \ {0}, NEW curr \in 0..HID_MAX_COLLECTIONS,
         NEW usages \in Seq(Nat), Rooted(paths, curr, usages), p = 1 <=> curr = 0
  PROVE  Rooted([paths EXCEPT ![p] = [Usage |-> u, Parent |-> curr]], p, Append(usages, u))
<1> DEFINE e == [Usage |-> u, Parent |-> curr]
           new == [paths EXCEPT ![p] = e]
           us == Append(usages, u)
           n == Len(usages)
<1>0. /\ HID_MAX_COLLECTIONS \in Nat /\ 1 \in 1..HID_MAX_COLLECTIONS
      /\ n \in Nat /\ Len(us) = n + 1 /\ us[n + 1] = u /\ us # <<>>
      /\ \A i \in 1..n : us[i] = usages[i]
  BY HIDParserAssumption, LenProperties, AppendProperties
<1>1. Rooted(new, curr, usages)  BY RootedStays
<1>2. PICK t \in [1..n -> 1..HID_MAX_COLLECTIONS] : Trail(new, t, curr, usages)
  BY <1>1 DEF Rooted
<1> DEFINE t2 == [i \in 1..(n + 1) |-> IF i = n + 1 THEN p ELSE t[i]]
<1>3. t2 \in [1..(n + 1) -> 1..HID_MAX_COLLECTIONS] /\ t2[n + 1] = p
  BY <1>0
<1>4. \A i \in 1..n : t2[i] = t[i]  BY <1>0
<1>5. new[p] = e /\ Used(new, p)
  <2>1. new[p] = e  OBVIOUS
  <2> QED  BY <2>1 DEF Used
<1>6. curr = IF n = 0 THEN 0 ELSE t[n]  BY <1>0, <1>2, EmptySeq, LenProperties DEF Trail
<1> HIDE DEF new, us, t2, n
<1>7. ASSUME NEW i \in 1..(n + 1)
      PROVE  /\ Used(new, t2[i])
             /\ new[t2[i]] = [Usage |-> us[i], Parent |-> IF i = 1 THEN 0 ELSE t2[i - 1]]
  <2>1. CASE i \in 1..n
    <3>1. /\ Used(new, t[i])
          /\ new[t[i]] = [Usage |-> usages[i], Parent |-> IF i = 1 THEN 0 ELSE t[i - 1]]
      BY <1>2, <2>1 DEF Trail, n
    <3>2. i = 1 \/ i - 1 \in 1..n  BY <1>0, <2>1
    <3> QED  BY <1>0, <1>4, <2>1, <3>1, <3>2
  <2>2. CASE i = n + 1
    <3>1. n = 0 \/ n \in 1..n  BY <1>0
    <3>2. curr = IF i = 1 THEN 0 ELSE t2[i - 1]  BY <1>0, <1>4, <1>6, <2>2, <3>1
    <3> QED  BY <1>0, <1>3, <1>5, <2>2, <3>2
  <2> QED  BY <1>0, <2>1, <2>2
<1>8. Trail(new, t2, p, us)  BY <1>0, <1>3, <1>7 DEF Trail
<1> QED  BY <1>0, <1>3, <1>8 DEF Rooted, new, us

\* Closing one goes back along the trail.
LEMMA RootedCloses ==
  ASSUME NEW paths \in [1..HID_MAX_COLLECTIONS -> Path], NEW curr \in 1..HID_MAX_COLLECTIONS,
         NEW usages \in Seq(Nat), Rooted(paths, curr, usages)
  PROVE  Rooted(paths, paths[curr].Parent, SubSeq(usages, 1, Len(usages) - 1))
<1> DEFINE n == Len(usages)
           us == SubSeq(usages, 1, n - 1)
<1>1. PICK t \in [1..n -> 1..HID_MAX_COLLECTIONS] : Trail(paths, t, curr, usages)
  BY DEF Rooted
<1>2. n \in Nat /\ usages # <<>> /\ n # 0 /\ curr = t[n] /\ n - 1 \in Nat /\ n \in 1..n
  <2>1. usages # <<>>  BY <1>1, HIDParserAssumption DEF Trail
  <2>2. n \in Nat /\ n # 0  BY <2>1, EmptySeq, LenProperties
  <2>3. curr = t[n]  BY <1>1, <2>1 DEF Trail
  <2> HIDE DEF n
  <2> QED  BY <2>1, <2>2, <2>3
<1>3. us \in Seq(Nat) /\ Len(us) = n - 1 /\ \A i \in 1..(n - 1) : us[i] = usages[i]
  <2>1. \A i \in 1..(n - 1) : usages[i] \in Nat
    BY <1>2, ElementOfSeq
  <2>2. 1 \in Int /\ n - 1 \in Int /\ (n - 1) - 1 + 1 = n - 1 /\ 1 <= (n - 1) + 1
    <3> HIDE DEF n
    <3> QED  BY <1>2
  <2>3. \A i \in 1..(n - 1) : 1 + i - 1 = i  BY <1>2
  <2>4. us \in Seq(Nat) /\ Len(us) = (IF 1 <= n - 1 THEN (n - 1) - 1 + 1 ELSE 0)
        /\ \A i \in 1..((n - 1) - 1 + 1) : us[i] = usages[1 + i - 1]
    <3> HIDE DEF n
    <3> QED  BY <2>1, <2>2, SubSeqProperties
  <2>5. ~(1 <= n - 1) => n - 1 = 0
    <3> HIDE DEF n
    <3> QED  BY <1>2
  <2> HIDE DEF us, n
  <2> QED  BY <2>2, <2>3, <2>4, <2>5
<1> DEFINE t2 == [i \in 1..(n - 1) |-> t[i]]
<1>4. ASSUME NEW i \in 1..(n - 1) PROVE i \in 1..n /\ (i = 1 \/ i - 1 \in 1..(n - 1))
  <2> HIDE DEF n
  <2> QED  BY <1>2
<1>5. t2 \in [1..(n - 1) -> 1..HID_MAX_COLLECTIONS]  BY <1>4
<1>6. paths[curr] = [Usage |-> usages[n], Parent |-> IF n = 1 THEN 0 ELSE t[n - 1]]
  <2> HIDE DEF n
  <2> QED  BY <1>1, <1>2 DEF Trail, n
<1>7. us = <<>> <=> n = 1
  <2>1. us = <<>> <=> n - 1 = 0
    <3> HIDE DEF us, n
    <3> QED  BY <1>2, <1>3, EmptySeq
  <2> HIDE DEF us, n
  <2> QED  BY <1>2, <2>1
<1> HIDE DEF us, n
<1>8. ASSUME NEW i \in 1..(n - 1)
      PROVE  /\ Used(paths, t2[i])
             /\ paths[t2[i]] = [Usage |-> us[i], Parent |-> IF i = 1 THEN 0 ELSE t2[i - 1]]
  <2>1. /\ Used(paths, t[i])
        /\ paths[t[i]] = [Usage |-> usages[i], Parent |-> IF i = 1 THEN 0 ELSE t[i - 1]]
    BY <1>1, <1>4 DEF Trail, n
  <2> QED  BY <1>3, <1>4, <2>1
<1>9. paths[curr].Parent = IF us = <<>> THEN 0 ELSE t2[n - 1]
  <2>1. n = 1 \/ n - 1 \in 1..(n - 1)  BY <1>2
  <2> QED  BY <1>6, <1>7, <2>1
<1>10. Trail(paths, t2, paths[curr].Parent, us)  BY <1>3, <1>8, <1>9 DEF Trail
<1> QED  BY <1>3, <1>5, <1>10 DEF Rooted, us, n

LEMMA SeqOfMore ==
  ASSUME NEW S, NEW T, S \subseteq T, NEW s \in Seq(S)
  PROVE  s \in Seq(T)
<1>1. Len(s) \in Nat /\ s \in [1..Len(s) -> S]  BY LenProperties
<1>2. s = [i \in 1..Len(s) |-> s[i]]  BY <1>1
<1>3. \A i \in 1..Len(s) : s[i] \in T  BY <1>1
<1>4. [i \in 1..Len(s) |-> s[i]] \in Seq(T)  BY <1>1, <1>3, IsASeq
<1> QED  BY <1>2, <1>4

\* The types that the steps below need.
LEMMA LocalFacts ==
  ASSUME HIDTypeOK
  PROVE  /\ UsageList \in Seq(Nat) /\ Len(UsageList) \in Nat /\ DOMAIN UsageList = 1..Len(UsageList)
         /\ declared.list \in Seq(Nat) /\ Len(declared.list) \in Nat
         /\ declared.range.Minimum \in Nat /\ declared.range.Maximum \in Nat
         /\ UsageMinMax.Minimum \in Nat /\ UsageMinMax.Maximum \in Nat
         /\ Taken \in Nat /\ Beyond \in Nat
         /\ main # NoMain => main.num \in Nat
<1>1. /\ UsageList \in Seq(Usages) /\ UsageMinMax \in HID_MinMax_t
      /\ declared.list \in Seq(Usages) /\ declared.range \in HID_MinMax_t
  BY DEF HIDTypeOK, LocalsOK
<1>2. Usages \subseteq Nat  BY HIDParserAssumption
<1>3. UsageList \in Seq(Nat) /\ declared.list \in Seq(Nat)  BY <1>1, <1>2, SeqOfMore
<1>4. main # NoMain => main.num \in Nat  BY DEF HIDTypeOK, ControlOK
<1>5. Taken \in Nat  BY <1>4 DEF Taken
<1>6. Len(UsageList) \in Nat /\ DOMAIN UsageList = 1..Len(UsageList) /\ Len(declared.list) \in Nat
  BY <1>3, LenProperties
<1>7. Beyond \in Nat  BY <1>5, <1>6 DEF Beyond
<1> QED  BY <1>1, <1>3, <1>4, <1>5, <1>6, <1>7 DEF HID_MinMax_t

LEMMA QuietPlaced ==
  Placed /\ UNCHANGED <<CollectionPaths, CurrCollectionPath, open, ReportItems, meant>> => Placed'
BY DEF Placed

LEMMA QuietUsages ==
  ListLeft /\ RangeLeft /\ UNCHANGED <<localVars, declared, main>> => ListLeft' /\ RangeLeft'
BY DEF ListLeft, RangeLeft, Taken, Beyond, localVars

LEMMA QuietKept == UsagesKept /\ UNCHANGED <<ReportItems, meant>> => UsagesKept'
BY DEF UsagesKept

LEMMA ForgottenUsages ==
  ForgetLocals /\ declared' = NoUsages /\ main' = NoMain => ListLeft' /\ RangeLeft'
BY DEF ForgetLocals, NoUsages, ListLeft, RangeLeft, Taken

\* PUSH may leave a usage behind, where none is declared.
LEMMA TableMeaning ==
  HIDTypeOK /\ HIDTypeOK' /\ Meaning /\ Descriptors = "plain"
    /\ (Push \/ Pop \/ ReportSize \/ ReportCount \/ ReportID) => Meaning'
<1> SUFFICES ASSUME HIDTypeOK, HIDTypeOK', Meaning, Descriptors = "plain",
                    Push \/ Pop \/ ReportSize \/ ReportCount \/ ReportID
             PROVE  Meaning'
  OBVIOUS
<1> USE DEF Meaning
<1>1. ASSUME UNCHANGED <<CollectionPaths, CurrCollectionPath, open, ReportItems, meant,
                         localVars, declared, main>>
      PROVE  Meaning'
  BY <1>1, QuietPlaced, QuietUsages, QuietKept
<1>2. CASE Push
  <2>1. CASE ParseError("HIDStackOverflow")  BY <1>1, <2>1 DEF ParseError, itemVars
  <2>2. CASE Overrun /\ KeepsReports
    <3>1. UNCHANGED <<CollectionPaths, CurrCollectionPath, open, ReportItems, meant, declared, main>>
      BY <2>2 DEF KeepsReports, KeepsItems
    <3>2. Placed' /\ UsagesKept'  BY <3>1, QuietPlaced, QuietKept
    <3>3. declared = NoUsages /\ main = NoMain  BY <1>2 DEF Push, Item
    <3>4. declared'.list = <<>> /\ declared'.range = NoRange /\ Taken' = 0 /\ Taken = 0
      BY <3>1, <3>3 DEF NoUsages, Taken
    <3>5. Len(UsageList) = 0  BY <3>1, <3>4 DEF ListLeft
    <3>6. DOMAIN UsageList' = {}
      <4>1. DOMAIN UsageList = {}  BY <3>5, LocalFacts
      <4> QED  BY <2>2, <4>1 DEF Overrun, localVars
    <3>7. Len(UsageList') = 0
      <4>1. UsageList' \in Seq(Usages)  BY DEF HIDTypeOK, LocalsOK
      <4>2. DOMAIN UsageList' = 1..Len(UsageList') /\ Len(UsageList') \in Nat
        BY <4>1, LenProperties
      <4> QED  BY <3>6, <4>2
    <3>8. ListLeft'  BY <3>4, <3>7 DEF ListLeft
    <3>9. RangeLeft'  BY <3>4 DEF RangeLeft
    <3> QED  BY <3>2, <3>8, <3>9
  <2> QED  BY <1>2, <2>1, <2>2 DEF Push
<1>3. CASE Pop
  BY <1>1, <1>3 DEF Pop, ParseError, itemVars, KeepsReports, KeepsItems
<1>4. CASE ReportSize  BY <1>1, <1>4 DEF ReportSize, SetTop, KeepsItems
<1>5. CASE ReportCount  BY <1>1, <1>5 DEF ReportCount, SetTop, KeepsItems
<1>6. CASE ReportID  BY <1>1, <1>6 DEF ReportID, ParseError, itemVars, SetTop, KeepsItems
<1> QED  BY <1>2, <1>3, <1>4, <1>5, <1>6

\* A usage is declared.
LEMMA UsageMeaning == HIDTypeOK /\ Meaning /\ (Usage \/ UsageRange) => Meaning'
<1> SUFFICES ASSUME HIDTypeOK, Meaning, Usage \/ UsageRange PROVE Meaning'  OBVIOUS
<1> USE DEF Meaning
<1>1. ASSUME UNCHANGED itemVars, KeepsItems, UNCHANGED open PROVE Placed' /\ UsagesKept'
  BY <1>1, QuietPlaced, QuietKept DEF itemVars, KeepsItems
<1>2. CASE Usage
  <2>1. CASE ParseError("UsageListOverflow")
    BY <1>1, <2>1, QuietPlaced, QuietUsages, QuietKept DEF ParseError, itemVars
  <2>2. CASE /\ \E u \in Usages : UsageList' = Append(UsageList, u)
                                 /\ declared' = [declared EXCEPT !.list = Append(@, u)]
             /\ UNCHANGED <<itemVars, UsageMinMax, main, result, open>> /\ KeepsItems
    <3>1. PICK u \in Usages : UsageList' = Append(UsageList, u)
                              /\ declared' = [declared EXCEPT !.list = Append(@, u)]
      BY <2>2
    <3>2. main = NoMain /\ Taken = 0 /\ Taken' = 0  BY <1>2, <2>2 DEF Usage, Item, Taken
    <3>3. u \in Nat  BY HIDParserAssumption
    <3>4. declared \in [list : Seq(Usages), range : HID_MinMax_t]  BY DEF HIDTypeOK, LocalsOK
    <3>5. declared'.list = Append(declared.list, u) /\ declared'.range = declared.range
      BY <3>1, <3>4
    <3>6. /\ Len(UsageList) = Len(declared.list)
          /\ \A k \in 1..Len(UsageList) : UsageList[k] = declared.list[k]
      BY <3>2, LocalFacts DEF ListLeft
    <3>7. /\ Len(UsageList') = Len(UsageList) + 1 /\ UsageList'[Len(UsageList) + 1] = u
          /\ \A k \in 1..Len(UsageList) : UsageList'[k] = UsageList[k]
      BY <3>1, <3>3, LocalFacts, AppendProperties
    <3>8. /\ Len(declared'.list) = Len(declared.list) + 1
          /\ declared'.list[Len(declared.list) + 1] = u
          /\ \A k \in 1..Len(declared.list) : declared'.list[k] = declared.list[k]
      BY <3>3, <3>5, LocalFacts, AppendProperties
    <3>9. ListLeft'
      <4>1. ASSUME NEW k \in 1..(Len(UsageList) + 1) PROVE UsageList'[k] = declared'.list[k]
        <5>1. k \in 1..Len(UsageList) \/ k = Len(UsageList) + 1  BY LocalFacts
        <5> QED  BY <3>6, <3>7, <3>8, <5>1
      <4>2. Len(UsageList') = Len(declared'.list) /\ Len(declared'.list) \in Nat
        BY <3>6, <3>7, <3>8, LocalFacts
      <4>3. ASSUME NEW k \in 1..Len(UsageList') PROVE UsageList'[k] = declared'.list[0 + k]
        <5>1. 0 + k = k  OBVIOUS
        <5> QED  BY <3>7, <4>1, <5>1
      <4>4. 0 <= Len(declared'.list) /\ Len(declared'.list) - 0 = Len(declared'.list)
        <5> DEFINE d == Len(declared'.list)
        <5>1. d \in Nat  BY <4>2
        <5> HIDE DEF d
        <5>2. 0 <= d /\ d - 0 = d  BY <5>1
        <5> QED  BY <5>2 DEF d
      <4> QED  BY <3>2, <4>2, <4>3, <4>4 DEF ListLeft
    <3>10. Beyond = 0 /\ Beyond' = 0  BY <3>2, <3>8, LocalFacts DEF Beyond
    <3>11. RangeLeft'  BY <2>2, <3>5, <3>10 DEF RangeLeft
    <3> QED  BY <1>1, <2>2, <3>9, <3>11
  <2> QED  BY <1>2, <2>1, <2>2 DEF Usage
<1>3. CASE UsageRange
  <2>1. PICK lo, hi \in Usages : /\ lo < hi /\ UsageMinMax' = [Minimum |-> lo, Maximum |-> hi]
                                 /\ declared' = [declared EXCEPT !.range = UsageMinMax']
    BY <1>3 DEF UsageRange
  <2>2. main = NoMain /\ Taken = 0 /\ Taken' = 0 /\ UsageList' = UsageList
    BY <1>3 DEF UsageRange, Item, Taken
  <2>3. declared \in [list : Seq(Usages), range : HID_MinMax_t]  BY DEF HIDTypeOK, LocalsOK
  <2>4. declared'.list = declared.list /\ declared'.range = UsageMinMax'  BY <2>1, <2>3
  <2>5. ListLeft'  BY <2>2, <2>4 DEF ListLeft
  <2>6. Beyond' = 0  BY <2>2, <2>4, LocalFacts DEF Beyond
  <2>7. lo \in Nat \ {0} /\ hi \in Nat  BY HIDParserAssumption
  <2>8. RangeLeft'  BY <2>1, <2>4, <2>6, <2>7 DEF RangeLeft
  <2> QED  BY <1>1, <1>3, <2>5, <2>8 DEF UsageRange
<1> QED  BY <1>2, <1>3

\* The usage that a collection takes is one that was declared for it.
LEMMA CollectionUsage ==
  ASSUME HIDTypeOK, ListLeft, RangeLeft, main = NoMain, declared # NoUsages, NEW other
  PROVE  NextUsage(other) \in Nat \ {0}
<1>0. Taken = 0 /\ Beyond = 0  BY LocalFacts DEF Taken, Beyond
<1>1. declared \in [list : Seq(Usages), range : HID_MinMax_t] /\ UsageList \in Seq(Usages)
  BY DEF HIDTypeOK, LocalsOK
<1>2. CASE UsageList # <<>>
  <2>1. Head(UsageList) \in Usages  BY <1>1, <1>2, HeadTailProperties
  <2> QED  BY <1>2, <2>1, HIDParserAssumption DEF NextUsage
<1>3. CASE UsageList = <<>>
  <2>1. Len(declared.list) = 0  BY <1>0, <1>3, LocalFacts DEF ListLeft
  <2>2. declared.list = <<>>  BY <1>1, <2>1, EmptySeq
  <2>3. declared.range # NoRange  BY <1>1, <2>2 DEF NoUsages
  <2>4. /\ UsageMinMax.Minimum > 0 /\ UsageMinMax.Minimum <= UsageMinMax.Maximum
    BY <1>0, <2>3, LocalFacts DEF RangeLeft
  <2> QED  BY <1>3, <2>4, LocalFacts DEF NextUsage, InRange
<1> QED  BY <1>2, <1>3

LEMMA OpenMeaning ==
  ASSUME HIDTypeOK, Meaning, NEW p \in 1..HID_MAX_COLLECTIONS, ~Used(CollectionPaths, p),
         p = 1 <=> CurrCollectionPath = 0, main = NoMain, declared # NoUsages, OpenPath(p)
  PROVE  Meaning'
<1> DEFINE u == NextUsage(CollectionPaths[p].Usage)
<1>1. u \in Nat \ {0}  BY CollectionUsage DEF Meaning
<1>2. /\ CollectionPaths' = [CollectionPaths EXCEPT ![p] = [Usage |-> u, Parent |-> CurrCollectionPath]]
      /\ CurrCollectionPath' = p /\ open' = Append(open, u)
  BY DEF OpenPath
<1>3. UNCHANGED <<ReportItems, meant, main>> /\ ForgetLocals /\ declared' = NoUsages
  BY DEF OpenPath, KeepsItems
<1> HIDE DEF u
<1>4. /\ CollectionPaths \in [1..HID_MAX_COLLECTIONS -> Path]
      /\ CurrCollectionPath \in 0..HID_MAX_COLLECTIONS /\ open \in Seq(Nat)
  BY DEF HIDTypeOK, PathsOK, LaidOK
<1>5. Rooted(CollectionPaths', p, open')
  BY <1>1, <1>2, <1>4, RootedOpens DEF Meaning, Placed
<1>6. ASSUME NEW i \in DOMAIN ReportItems
      PROVE  Rooted(CollectionPaths', ReportItems[i].CollectionPath, meant[i].within)
  BY <1>2, <1>4, RootedStays DEF Meaning, Placed
<1>7. Placed'  BY <1>2, <1>3, <1>5, <1>6 DEF Placed
<1>8. ListLeft' /\ RangeLeft'  BY <1>3, ForgottenUsages
<1>9. UsagesKept'  BY <1>3, QuietKept DEF Meaning
<1> QED  BY <1>7, <1>8, <1>9 DEF Meaning

LEMMA CollectionMeaning ==
  HIDTypeOK /\ Meaning /\ Descriptors = "plain" /\ (Collection \/ EndCollection) => Meaning'
<1> SUFFICES ASSUME HIDTypeOK, Meaning, Descriptors = "plain", Collection \/ EndCollection
             PROVE  Meaning'
  OBVIOUS
<1>0. HID_MAX_COLLECTIONS \in Nat /\ HID_MAX_COLLECTIONS >= 2  BY HIDParserAssumption
<1>1. ASSUME NEW e \in Errors, ParseError(e) PROVE Meaning'
  BY <1>1, QuietPlaced, QuietUsages, QuietKept DEF Meaning, ParseError, itemVars
<1>2. CASE Collection
  <2>0. main = NoMain /\ declared # NoUsages  BY <1>2 DEF Collection, Item
  <2>1. CASE CurrCollectionPath = 0 /\ CollectionPaths[1].Usage = 0 /\ OpenPath(1)
    <3>1. ~Used(CollectionPaths, 1) /\ 1 \in 1..HID_MAX_COLLECTIONS
      BY <1>0, <2>1 DEF Used
    <3> QED  BY <2>0, <2>1, <3>1, OpenMeaning
  <2>2. CASE CurrCollectionPath # 0 /\ FreePaths # {} /\ OpenPath(FirstMatch(FreePaths))
    <3> DEFINE p == FirstMatch(FreePaths)
    <3>1. FreePaths \in SUBSET Nat  BY <1>0 DEF FreePaths
    <3>2. p \in FreePaths  BY <2>2, <3>1, FirstMatchIn
    <3> HIDE DEF p
    <3>3. p \in 2..HID_MAX_COLLECTIONS /\ CollectionPaths[p].Parent = 0  BY <3>2 DEF FreePaths
    <3>4. p \in 1..HID_MAX_COLLECTIONS /\ p # 1  BY <1>0, <3>3
    <3>5. ~Used(CollectionPaths, p)  BY <3>3, <3>4 DEF Used
    <3> QED  BY <2>0, <2>2, <3>4, <3>5, OpenMeaning DEF p
  <2>3. CASE ParseError("InsufficientCollectionPaths")  BY <1>1, <2>3 DEF Errors
  <2> QED  BY <1>2, <2>1, <2>2, <2>3 DEF Collection
<1>3. CASE EndCollection
  <2>1. CASE ParseError("UnexpectedEndCollection")  BY <1>1, <2>1 DEF Errors
  <2>2. CASE /\ CurrCollectionPath # 0
             /\ CurrCollectionPath' = CollectionPaths[CurrCollectionPath].Parent
             /\ open' = SubSeq(open, 1, Len(open) - 1) /\ ForgetLocals /\ declared' = NoUsages
             /\ UNCHANGED <<StateTable, CollectionPaths, ReportIDSizes, UsingReportIDs,
                            CurrReportIDInfo, main, result>> /\ KeepsItems
    <3>1. /\ CollectionPaths \in [1..HID_MAX_COLLECTIONS -> Path]
          /\ CurrCollectionPath \in 1..HID_MAX_COLLECTIONS /\ open \in Seq(Nat)
      BY <1>0, <2>2 DEF HIDTypeOK, PathsOK, LaidOK
    <3>2. Rooted(CollectionPaths, CurrCollectionPath', open')
      BY <2>2, <3>1, RootedCloses DEF Meaning, Placed
    <3>3. UNCHANGED <<CollectionPaths, ReportItems, meant, main>>  BY <2>2 DEF KeepsItems
    <3>4. Placed'  BY <3>2, <3>3 DEF Meaning, Placed
    <3>5. main = NoMain  BY <1>3 DEF EndCollection, Item
    <3>6. ListLeft' /\ RangeLeft'  BY <2>2, <3>3, <3>5, ForgottenUsages
    <3> QED  BY <3>3, <3>4, <3>6, QuietKept DEF Meaning
  <2> QED  BY <1>3, <2>1, <2>2 DEF EndCollection
<1> QED  BY <1>2, <1>3

LEMMA MeantFromRange ==
  ASSUME NEW k, ~(k <= Len(declared.list)), UsageMeant(k) # {},
         NEW ranged, ranged = declared.range.Minimum + (k - Len(declared.list) - 1)
  PROVE  UsageMeant(k) = {ranged} /\ ranged <= declared.range.Maximum /\ ranged > 0
BY Zenon DEF UsageMeant

\* The usage that a field takes is the one that the descriptor gives it.
LEMMA NextMeant ==
  ASSUME HIDTypeOK, ListLeft, RangeLeft, main # NoMain, UsageMeant(main.num + 1) # {}
  PROVE  NextUsage(0) \in UsageMeant(main.num + 1)
<1> DEFINE n == main.num
           L == Len(declared.list)
           min == declared.range.Minimum
           max == declared.range.Maximum
<1>0. /\ n \in Nat /\ L \in Nat /\ min \in Nat /\ max \in Nat /\ Taken = n
      /\ Beyond = IF n <= L THEN 0 ELSE n - L
  BY LocalFacts DEF Taken, Beyond
<1>1. CASE n + 1 <= L
  <2>1. n <= L /\ L - n # 0 /\ 1 \in 1..(L - n) /\ L - n \in Nat
    <3> HIDE DEF n, L
    <3> QED  BY <1>0, <1>1
  <2>2. Len(UsageList) = L - n  BY <1>0, <2>1 DEF ListLeft
  <2>3. UsageList # <<>> /\ UsageList[1] = declared.list[n + 1]
    BY <1>0, <2>1, <2>2, EmptySeq DEF ListLeft
  <2>4. Head(UsageList) = UsageList[1]  BY <2>3, LocalFacts, HeadTailProperties
  <2> QED  BY <1>1, <2>3, <2>4 DEF NextUsage, UsageMeant
<1>2. CASE ~(n + 1 <= L)
  <2>1. ~(n <= L) \/ n = L
    <3> HIDE DEF n, L
    <3> QED  BY <1>0, <1>2
  <2>2. Beyond = n - L /\ n - L \in Nat
    <3> HIDE DEF n, L
    <3> QED  BY <1>0, <2>1
  <2>3. Len(UsageList) = 0
    <3>1. Len(UsageList) = IF n <= L THEN L - n ELSE 0  BY <1>0 DEF ListLeft
    <3> HIDE DEF n, L
    <3> QED  BY <1>0, <2>1, <3>1
  <2>4. UsageList = <<>>  BY <2>3, LocalFacts, EmptySeq
  <2>5. n + 1 - L - 1 = n - L
    <3> HIDE DEF n, L
    <3> QED  BY <1>0
  <2>6. /\ min + (n - L) <= max /\ min + (n - L) > 0
        /\ UsageMeant(n + 1) = {min + (n - L)}
    <3>1. PICK k : k = n + 1  OBVIOUS
    <3>2. PICK ranged : ranged = min + (n - L)  OBVIOUS
    <3>3. ~(k <= L)  BY <1>2, <3>1
    <3>4. UsageMeant(k) # {}  BY <3>1
    <3>5. ranged = min + (k - L - 1)
      <4>1. k - L - 1 = n - L
        <5> HIDE DEF n, L
        <5> QED  BY <1>0, <2>5, <3>1
      <4> HIDE DEF n, L, min
      <4> QED  BY <3>2, <4>1
    <3>6. UsageMeant(k) = {ranged} /\ ranged <= max /\ ranged > 0
      BY <3>3, <3>4, <3>5, MeantFromRange
    <3> QED  BY <3>1, <3>2, <3>6
  <2>7. declared.range # NoRange
    <3>1. ASSUME min = 0, max = 0 PROVE FALSE
      <4> HIDE DEF n, L, min, max
      <4> QED  BY <2>2, <2>6, <3>1
    <3> QED  BY <3>1 DEF NoRange
  <2>8. UsageMinMax.Maximum = max /\ UsageMinMax.Minimum = min + (n - L)
    BY <2>2, <2>6, <2>7 DEF RangeLeft
  <2> QED  BY <2>4, <2>6, <2>8 DEF NextUsage, InRange
<1> QED  BY <1>1, <1>2

\* A field takes its usage from the list or the range.
LEMMA FieldTakes ==
  ASSUME HIDTypeOK, ListLeft, RangeLeft, Field
  PROVE  ListLeft' /\ RangeLeft'
<1> DEFINE n == main.num
           L == Len(declared.list)
<1>0. main # NoMain /\ UNCHANGED declared  BY DEF Field
<1>1. /\ n \in Nat /\ L \in Nat /\ Taken = n
      /\ Beyond = IF n <= L THEN 0 ELSE n - L
  BY <1>0, LocalFacts DEF Taken, Beyond
<1>2. Taken' = n + 1
  <2>1. main' = [main EXCEPT !.num = @ + 1]  BY DEF Field
  <2>2. main \in [type : ItemTypes, constant : BOOLEAN, num : Nat]
    BY <1>0 DEF HIDTypeOK, ControlOK
  <2>3. main'.num = n + 1 /\ main' # NoMain  BY <2>1, <2>2 DEF NoMain
  <2> QED  BY <2>3 DEF Taken
<1>3. Beyond' = IF n + 1 <= L THEN 0 ELSE n + 1 - L
  <2>1. Len(declared'.list) = L  BY <1>0
  <2>2. Beyond' = IF Taken' <= Len(declared'.list) THEN 0 ELSE Taken' - Len(declared'.list)
    BY DEF Beyond
  <2> DEFINE l == Len(declared'.list)
             t == Taken'
  <2>3. l = L /\ t = n + 1 /\ Beyond' = IF t <= l THEN 0 ELSE t - l  BY <1>2, <2>1, <2>2
  <2> HIDE DEF n, L, l, t
  <2> QED  BY <1>1, <2>3
<1>4. Len(UsageList) = IF n <= L THEN L - n ELSE 0  BY <1>1 DEF ListLeft
<1>5. CASE UsageList # <<>>
  <2>1. UsageList' = Tail(UsageList) /\ UNCHANGED UsageMinMax  BY <1>5 DEF Field
  <2>2. /\ Len(UsageList) \in Nat /\ Len(UsageList) # 0
        /\ Len(UsageList') = Len(UsageList) - 1
        /\ \A k \in 1..Len(UsageList') : UsageList'[k] = UsageList[k + 1]
    BY <1>5, <2>1, LocalFacts, HeadTailProperties, EmptySeq
  <2>3. n < L /\ Len(UsageList) = L - n
    <3> HIDE DEF n, L
    <3> QED  BY <1>1, <1>4, <2>2
  <2>4. n + 1 <= L /\ Len(UsageList') = L - (n + 1)
    <3> HIDE DEF n, L
    <3> QED  BY <1>1, <2>2, <2>3
  <2>5. ASSUME NEW k \in 1..Len(UsageList') PROVE UsageList'[k] = declared.list[n + 1 + k]
    <3>1. k + 1 \in 1..Len(UsageList) /\ n + (k + 1) = n + 1 + k
      <4> HIDE DEF n
      <4> QED  BY <1>1, <2>2
    <3>2. UsageList[k + 1] = declared.list[n + (k + 1)]  BY <1>1, <3>1 DEF ListLeft
    <3> QED  BY <2>2, <3>1, <3>2
  <2>6. ListLeft'  BY <1>0, <1>2, <2>4, <2>5 DEF ListLeft
  <2>7. Beyond = 0 /\ Beyond' = 0
    <3> HIDE DEF n, L
    <3> QED  BY <1>1, <1>3, <2>3, <2>4
  <2> QED  BY <1>0, <2>1, <2>6, <2>7 DEF RangeLeft
<1>6. CASE UsageList = <<>>
  <2>1. UNCHANGED UsageList  BY <1>6 DEF Field
  <2>2. UsageMinMax' = IF InRange THEN [UsageMinMax EXCEPT !.Minimum = @ + 1] ELSE UsageMinMax
    BY <1>6 DEF Field
  <2>3. Len(UsageList) = 0  BY <1>6
  <2>4. ~(n <= L) \/ n = L
    <3> HIDE DEF n, L
    <3> QED  BY <1>1, <1>4, <2>3
  <2>5. ~(n + 1 <= L) /\ Beyond = n - L /\ Beyond' = Beyond + 1 /\ Beyond \in Nat
    <3> HIDE DEF n, L
    <3> QED  BY <1>1, <1>3, <2>4
  <2>6. ListLeft'  BY <1>0, <1>2, <2>1, <2>3, <2>5 DEF ListLeft
  <2>7. RangeLeft'
    <3> DEFINE min == declared.range.Minimum
               max == declared.range.Maximum
    <3> SUFFICES ASSUME declared.range # NoRange
                 PROVE  /\ 0 < min /\ min < max /\ UsageMinMax'.Maximum = max
                        /\ min + Beyond' <= max => UsageMinMax'.Minimum = min + Beyond'
      BY <1>0 DEF RangeLeft
    <3>1. /\ 0 < min /\ min < max /\ UsageMinMax.Maximum = max
          /\ min + Beyond <= max => UsageMinMax.Minimum = min + Beyond
      BY DEF RangeLeft
    <3>2. UsageMinMax \in HID_MinMax_t  BY DEF HIDTypeOK, LocalsOK
    <3>3. UsageMinMax'.Maximum = max  BY <2>2, <3>1, <3>2 DEF HID_MinMax_t
    <3>4. ASSUME min + Beyond' <= max PROVE UsageMinMax'.Minimum = min + Beyond'
      <4>1. min \in Nat /\ max \in Nat  BY LocalFacts
      <4>2. min + Beyond <= max
        <5> HIDE DEF min, max
        <5> QED  BY <2>5, <3>4, <4>1
      <4>3. UsageMinMax.Minimum = min + Beyond /\ InRange  BY <3>1, <4>2 DEF InRange
      <4>4. UsageMinMax'.Minimum = min + Beyond + 1  BY <2>2, <3>2, <4>3 DEF HID_MinMax_t
      <4> HIDE DEF min, max
      <4> QED  BY <2>5, <4>1, <4>4
    <3> QED  BY <3>1, <3>3, <3>4
  <2> QED  BY <2>6, <2>7
<1> QED  BY <1>5, <1>6

LEMMA FieldMeaning == HIDTypeOK /\ Meaning /\ Field => Meaning'
<1> SUFFICES ASSUME HIDTypeOK, Meaning, Field PROVE Meaning'  OBVIOUS
<1> DEFINE mean == [field |-> fields + 1, usage |-> UsageMeant(main.num + 1), within |-> open]
           num == Len(ReportItems)
<1>0. ListLeft' /\ RangeLeft'  BY FieldTakes DEF Meaning
<1>1. main # NoMain /\ UNCHANGED <<CollectionPaths, CurrCollectionPath, open>>  BY DEF Field
<1>2. CASE UNCHANGED <<ReportItems, meant>>
  BY <1>0, <1>1, <1>2, QuietPlaced, QuietKept DEF Meaning
<1>3. CASE \E item : /\ ReportItems' = Append(ReportItems, item) /\ meant' = Append(meant, mean)
                     /\ item.Usage = NextUsage(0) /\ item.CollectionPath = CurrCollectionPath
  <2>1. PICK item : /\ ReportItems' = Append(ReportItems, item) /\ meant' = Append(meant, mean)
                    /\ item.Usage = NextUsage(0) /\ item.CollectionPath = CurrCollectionPath
    BY <1>3
  <2>2. /\ ReportItems \in Seq(ReportItem) /\ num \in Nat /\ Len(meant) = num
        /\ meant \in Seq([field : Nat, usage : SUBSET Nat, within : Seq(Nat)])
        /\ DOMAIN ReportItems = 1..num
    BY LenProperties DEF HIDTypeOK, ItemsOK
  <2>3. mean.usage = UsageMeant(main.num + 1) /\ mean.within = open  OBVIOUS
  <2> HIDE DEF mean, num
  <2>4. /\ DOMAIN ReportItems' = 1..(num + 1) /\ ReportItems'[num + 1] = item
        /\ \A i \in 1..num : ReportItems'[i] = ReportItems[i]
    BY <2>1, <2>2 DEF num
  <2>5. meant'[num + 1] = mean /\ \A i \in 1..num : meant'[i] = meant[i]
    BY <2>1, <2>2 DEF num
  <2>6. \A i \in 1..(num + 1) : i \in 1..num \/ i = num + 1  BY <2>2
  <2>7. mean.usage # {} => item.Usage \in mean.usage
    BY <1>1, <2>1, <2>3, NextMeant DEF Meaning
  <2>8. UsagesKept'
    <3>1. ASSUME NEW i \in 1..(num + 1), meant'[i].usage # {}
          PROVE  ReportItems'[i].Usage \in meant'[i].usage
      <4>1. CASE i \in 1..num
        BY <2>2, <2>4, <2>5, <3>1, <4>1 DEF Meaning, UsagesKept
      <4>2. CASE i = num + 1  BY <2>4, <2>5, <2>7, <3>1, <4>2
      <4> QED  BY <2>6, <4>1, <4>2
    <3> QED  BY <2>4, <3>1 DEF UsagesKept
  <2>9. Placed'
    <3>1. ASSUME NEW i \in 1..(num + 1)
          PROVE  Rooted(CollectionPaths, ReportItems'[i].CollectionPath, meant'[i].within)
      <4>1. CASE i \in 1..num
        BY <2>2, <2>4, <2>5, <4>1 DEF Meaning, Placed
      <4>2. CASE i = num + 1
        BY <2>1, <2>3, <2>4, <2>5, <4>2 DEF Meaning, Placed
      <4> QED  BY <2>6, <4>1, <4>2
    <3> QED  BY <1>1, <2>4, <3>1 DEF Meaning, Placed
  <2> QED  BY <1>0, <2>8, <2>9 DEF Meaning
<1> QED  BY <1>2, <1>3 DEF Field

LEMMA OtherMeaning ==
  HIDTypeOK /\ Meaning /\ (MainItem \/ EndMainItem \/ EndDescriptor \/ UNCHANGED hidVars) => Meaning'
<1> SUFFICES ASSUME HIDTypeOK, Meaning,
                    MainItem \/ EndMainItem \/ EndDescriptor \/ UNCHANGED hidVars
             PROVE  Meaning'
  OBVIOUS
<1>1. UNCHANGED <<CollectionPaths, CurrCollectionPath, open, ReportItems, meant>>
  BY DEF MainItem, EndMainItem, EndDescriptor, KeepsItems, itemVars, hidVars
<1>2. Placed' /\ UsagesKept'  BY <1>1, QuietPlaced, QuietKept DEF Meaning
<1>3. ListLeft' /\ RangeLeft'
  <2>1. CASE MainItem
    <3>1. UNCHANGED <<localVars, declared>> /\ Taken = 0 /\ Taken' = 0
      <4>1. main = NoMain  BY <2>1 DEF MainItem, Item
      <4>2. PICK t \in ItemTypes, c \in BOOLEAN : main' = [type |-> t, constant |-> c, num |-> 0]
        BY <2>1 DEF MainItem
      <4>3. main'.num = 0  BY <4>2
      <4> QED  BY <2>1, <4>1, <4>3 DEF MainItem, Taken
    <3> QED  BY <3>1 DEF Meaning, ListLeft, RangeLeft, Beyond, localVars
  <2>2. CASE EndMainItem  BY <2>2, ForgottenUsages DEF EndMainItem
  <2>3. CASE EndDescriptor  BY <2>3, QuietUsages DEF EndDescriptor, Meaning
  <2>4. CASE UNCHANGED hidVars  BY <2>4, QuietUsages DEF hidVars, Meaning
  <2> QED  BY <2>1, <2>2, <2>3, <2>4
<1> QED  BY <1>2, <1>3 DEF Meaning

LEMMA NoTrail == ASSUME NEW paths PROVE Rooted(paths, 0, <<>>)
<1> DEFINE t == [i \in 1..0 |-> 1]
<1>1. t \in [1..Len(<<>>) -> 1..HID_MAX_COLLECTIONS]  OBVIOUS
<1>2. Trail(paths, t, 0, <<>>)  BY DEF Trail
<1> QED  BY <1>1, <1>2 DEF Rooted

LEMMA InitMeaning == HIDInit => Meaning
<1> SUFFICES ASSUME HIDInit PROVE Meaning  OBVIOUS
<1>1. /\ CurrCollectionPath = 0 /\ open = <<>> /\ ReportItems = <<>> /\ meant = <<>>
      /\ UsageList = <<>> /\ declared = NoUsages /\ main = NoMain
  BY DEF HIDInit, Fresh
<1>2. Placed /\ UsagesKept  BY <1>1, NoTrail DEF Placed, UsagesKept
<1>3. ListLeft /\ RangeLeft  BY <1>1 DEF ListLeft, RangeLeft, Taken, NoUsages
<1> QED  BY <1>2, <1>3 DEF Meaning

LEMMA NextDescriptorMeaning == NextDescriptor => Meaning'
<1> SUFFICES ASSUME NextDescriptor PROVE Meaning'  OBVIOUS
<1>1. /\ CurrCollectionPath' = 0 /\ open' = <<>> /\ ReportItems' = <<>> /\ meant' = <<>>
      /\ UsageList' = <<>> /\ declared' = NoUsages /\ main' = NoMain
  BY DEF NextDescriptor, Fresh
<1>2. Placed' /\ UsagesKept'  BY <1>1, NoTrail DEF Placed, UsagesKept
<1>3. ListLeft' /\ RangeLeft'  BY <1>1 DEF ListLeft, RangeLeft, Taken, NoUsages
<1> QED  BY <1>2, <1>3 DEF Meaning


\* The invariant is inductive where POP leaves the report ID as it is.
LEMMA PlainInvariant ==
  ASSUME Descriptors = "plain"
  PROVE  HIDSpec => [](HIDTypeOK /\ Layout /\ ValuesRead)
<1> DEFINE IInv == HIDTypeOK /\ Layout /\ ValuesRead
<1>1. HIDInit => IInv  BY InitTypes, InitLayout
<1>2. IInv /\ [HIDNext]_hidVars => IInv'
  <2> SUFFICES ASSUME IInv, [HIDNext]_hidVars PROVE Layout' /\ ValuesRead'
    BY NextTypes, StutterTypes
  <2>1. CASE Push \/ Pop \/ ReportSize \/ ReportCount  BY <2>1, TableLayout, OtherValues
  <2>2. CASE ReportID  BY <2>2, ReportIDLayout, OtherValues
  <2>3. CASE \/ Usage \/ UsageRange \/ Collection \/ EndCollection \/ MainItem \/ EndMainItem
             \/ EndDescriptor \/ UNCHANGED hidVars
    BY <2>3, OtherLayout, OtherValues
  <2>4. CASE Field  BY <2>4, FieldLayout, FieldValues
  <2>5. CASE NextDescriptor  BY <2>5, NextDescriptorLayout
  <2> QED  BY <2>1, <2>2, <2>3, <2>4, <2>5 DEF HIDNext
<1> QED  BY <1>1, <1>2, PTL DEF HIDSpec

\* Where POP leaves the report ID as it is, the value read for an item is the
\* device's field, whatever the descriptor interleaves and the filter takes.
THEOREM ItemValues ==
  ASSUME Descriptors = "plain"
  PROVE  HIDSpec => []ValuesRead
BY PlainInvariant, PTL

\* And the sizes the parser gives for the reports are theirs.
THEOREM ReportSizesCorrect ==
  ASSUME Descriptors = "plain"
  PROVE  HIDSpec => []ReportSizesAgree
<1>1. HIDTypeOK /\ Layout /\ ValuesRead => ReportSizesAgree  BY LayoutGivesSizes
<1> QED  BY <1>1, PlainInvariant, PTL

\* So is what the items mean, where a collection has a usage and an END
\* COLLECTION a collection to end.
LEMMA PlainMeaning ==
  ASSUME Descriptors = "plain"
  PROVE  HIDSpec => [](HIDTypeOK /\ Meaning)
<1> DEFINE IInv == HIDTypeOK /\ Meaning
<1>1. HIDInit => IInv  BY InitTypes, InitMeaning
<1>2. IInv /\ [HIDNext]_hidVars => IInv'
  <2> SUFFICES ASSUME IInv, [HIDNext]_hidVars PROVE IInv'  OBVIOUS
  <2>1. HIDTypeOK'  BY NextTypes, StutterTypes
  <2>2. CASE Push \/ Pop \/ ReportSize \/ ReportCount \/ ReportID
    BY <2>1, <2>2, TableMeaning
  <2>3. CASE Usage \/ UsageRange  BY <2>1, <2>3, UsageMeaning
  <2>4. CASE Collection \/ EndCollection  BY <2>1, <2>4, CollectionMeaning
  <2>5. CASE Field  BY <2>1, <2>5, FieldMeaning
  <2>6. CASE MainItem \/ EndMainItem \/ EndDescriptor \/ UNCHANGED hidVars
    BY <2>1, <2>6, OtherMeaning
  <2>7. CASE NextDescriptor  BY <2>1, <2>7, NextDescriptorMeaning
  <2> QED  BY <2>2, <2>3, <2>4, <2>5, <2>6, <2>7 DEF HIDNext
<1> QED  BY <1>1, <1>2, PTL DEF HIDSpec

\* Every stored item keeps, while the descriptor goes on, a usage that the
\* descriptor declared for its field and the collections that were open: the
\* path table never gives an item's path to another collection.
THEOREM ItemsMeaning ==
  ASSUME Descriptors = "plain"
  PROVE  HIDSpec => []ItemsKeepMeaning
<1>1. Meaning => ItemsKeepMeaning
  <2> SUFFICES ASSUME Meaning, NEW i \in DOMAIN ReportItems
               PROVE  /\ meant[i].usage # {} => ReportItems[i].Usage \in meant[i].usage
                      /\ LiesIn(ReportItems[i].CollectionPath, meant[i].within)
    BY DEF ItemsKeepMeaning
  <2>1. Rooted(CollectionPaths, ReportItems[i].CollectionPath, meant[i].within)
    BY DEF Meaning, Placed
  <2>2. LiesIn(ReportItems[i].CollectionPath, meant[i].within)  BY <2>1, RootedLies
  <2> QED  BY <2>2 DEF Meaning, UsagesKept
<1> QED  BY <1>1, PlainMeaning, PTL
=============================================================================
