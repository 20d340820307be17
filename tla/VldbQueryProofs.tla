-------------------------- MODULE VldbQueryProofs --------------------------
(***************************************************************************)
(* For every set of command lines, every number of rows and both kinds of  *)
(* CPU cache: the state of VldbQuery is well typed, and a query that scans *)
(* the window finds there only what it configured and populated.           *)
(***************************************************************************)
EXTENDS VldbQuery, TLAPS

USE RelMemoryAssumption

\* The constants' assumption, at one request and one side of it.
LEMMA RequestFacts ==
  ASSUME NEW a \in Request, NEW sd \in Sides(a)
  PROVE  /\ TableOf(a, sd).rows \in Nat
         /\ 0..TableOf(a, sd).rows-1 \subseteq Row
         /\ Len(ColsOf(a, sd)) \in 1..MaxGroups
         /\ \A r \in Significant(Len(ColsOf(a, sd))) : RegValue(a, sd, r) \in Nat
         /\ sd \in {"s", "r"}
         /\ TableOf(a, sd) \in Tables
BY VldbAssumption DEF Sides, Tables

\* NoArgs is a command line.
LEMMA NoArgsFacts == NoArgs \in Request /\ "s" \in Sides(NoArgs)
BY VldbAssumption DEF NoArgs, Sides

\* Fewer columns use fewer registers, and all of them exist.
LEMMA SignificantRegs ==
  ASSUME NEW n \in 1..MaxGroups
  PROVE  Significant(n) \subseteq RegName
BY DEF Significant, RegName, ColumnRegs, ScalarRegs

\* db_config stores only registers the engine looks at ...
LEMMA StoresSignificant ==
  ASSUME NEW a \in Request, NEW sd \in Sides(a), NEW j \in 1..Len(Stores(a, sd))
  PROVE  Stores(a, sd)[j] \in Significant(Len(ColsOf(a, sd)))
<1> DEFINE n == Len(ColsOf(a, sd))
<1>1. n \in 1..MaxGroups
  BY RequestFacts
<1>2. Len(Stores(a, sd)) = 2*n+4 /\ j \in 1..2*n+4
  BY <1>1 DEF Stores
<1>3. CASE j <= 3
  BY <1>1, <1>2, <1>3 DEF Stores, EnabledColNum, Significant, ScalarRegs
<1>4. CASE j = 2*n+4
  BY <1>1, <1>2, <1>4 DEF Stores, FrameOffset, Significant, ScalarRegs
<1>5. CASE j > 3 /\ j < 2*n+4
  <2>1. Stores(a, sd)[j] = ColumnStores(a, sd)[j-3] /\ j-3 \in 1..2*n
    BY <1>1, <1>2, <1>5 DEF Stores
  <2>2. ColumnStores(a, sd)[j-3] \in ColumnRegs(n)
    <3> DEFINE k == j-3
    <3>1. k \in 1..2*n /\ n \in Nat
      BY <1>1, <2>1
    <3>2. /\ (k-1) \div 2 \in 0..n-1
          /\ k <= n => k-1 \in 0..n-1
          /\ ~(k <= n) => k-n-1 \in 0..n-1
      BY <3>1
    <3>3. CASE a.query = "JOIN" /\ sd = "s"
      BY <3>1, <3>2, <3>3 DEF ColumnStores, ColumnRegs
    <3>4. CASE ~(a.query = "JOIN" /\ sd = "s")
      BY <3>1, <3>2, <3>4 DEF ColumnStores, ColumnRegs
    <3>5. QED
      BY <3>3, <3>4
  <2>3. QED
    BY <2>1, <2>2 DEF Significant
<1>6. QED
  BY <1>1, <1>2, <1>3, <1>4, <1>5

\* ... and every one of them.
LEMMA StoresCover ==
  ASSUME NEW a \in Request, NEW sd \in Sides(a),
         NEW r \in Significant(Len(ColsOf(a, sd)))
  PROVE  \E j \in 1..Len(Stores(a, sd)) : Stores(a, sd)[j] = r
<1> DEFINE n == Len(ColsOf(a, sd))
<1>1. n \in 1..MaxGroups
  BY RequestFacts
<1>2. Len(Stores(a, sd)) = 2*n+4
  BY <1>1 DEF Stores
<1>3. CASE r \in ScalarRegs
  <2>1. /\ Stores(a, sd)[1] = <<"row_size", 0>>
        /\ Stores(a, sd)[2] = <<"row_count", 0>>
        /\ Stores(a, sd)[3] = <<"enabled_col_num", 0>>
        /\ Stores(a, sd)[2*n+4] = <<"frame_offset", 0>>
    BY <1>1 DEF Stores, EnabledColNum, FrameOffset
  <2>2. {1, 2, 3, 2*n+4} \subseteq 1..Len(Stores(a, sd))
    BY <1>1, <1>2
  <2>3. QED
    BY <1>3, <2>1, <2>2 DEF ScalarRegs
<1>4. CASE r \in ColumnRegs(n)
  <2>1. PICK w \in {"col_widths", "col_offsets"}, c \in 0..n-1 : r = <<w, c>>
    BY <1>4 DEF ColumnRegs
  <2>2. \E k \in 1..2*n : ColumnStores(a, sd)[k] = <<w, c>>
    <3>1. CASE a.query = "JOIN" /\ sd = "s"
      <4> DEFINE k == IF w = "col_widths" THEN c+1 ELSE n+c+1
      <4>1. k \in 1..2*n
        BY <1>1
      <4>2. ColumnStores(a, sd)[k] = <<w, c>>
        BY <1>1, <3>1, <4>1 DEF ColumnStores
      <4>3. QED
        BY <4>1, <4>2
    <3>2. CASE ~(a.query = "JOIN" /\ sd = "s")
      <4> DEFINE k == IF w = "col_offsets" THEN 2*c+1 ELSE 2*c+2
      <4>1. k \in 1..2*n
        BY <1>1
      <4>2. (k-1) \div 2 = c /\ (k % 2 = 1 <=> w = "col_offsets")
        BY <1>1
      <4>3. ColumnStores(a, sd)[k] = <<w, c>>
        BY <1>1, <3>2, <4>1, <4>2 DEF ColumnStores
      <4>4. QED
        BY <4>1, <4>3
    <3>3. QED
      BY <3>1, <3>2
  <2>3. PICK k \in 1..2*n : ColumnStores(a, sd)[k] = <<w, c>>
    BY <2>2
  <2>4. Stores(a, sd)[k+3] = ColumnStores(a, sd)[k] /\ k+3 \in 1..2*n+4
    <3>1. n \in Nat /\ k \in Nat /\ k+3 \in 1..2*n+4 /\ ~(k+3 <= 3) /\ k+3 # 2*n+4
          /\ (k+3)-3 = k
      BY <1>1
    <3> HIDE DEF n
    <3>2. Stores(a, sd) =
            [j \in 1..2*n+4 |->
               IF j <= 3 THEN <<<<"row_size", 0>>, <<"row_count", 0>>, EnabledColNum>>[j]
               ELSE IF j = 2*n+4 THEN FrameOffset ELSE ColumnStores(a, sd)[j-3]]
      BY Zenon DEF Stores, n
    <3>3. QED
      BY <3>1, <3>2
  <2>5. QED
    BY <1>2, <2>1, <2>3, <2>4
<1>5. QED
  BY <1>3, <1>4 DEF Significant

-----------------------------------------------------------------------------
\* The invariant holds of the first state.
LEMMA InitIInv == Init => IInv
<1> SUFFICES ASSUME Init PROVE IInv
  OBVIOUS
<1> USE DEF Init, RelMemoryInit
<1>1. TypeOK
  <2>1. Blank \in Data
    BY DEF Data
  <2>2. EnabledColNum \in RegName /\ FrameOffset \in RegName
    BY DEF EnabledColNum, FrameOffset, RegName, ScalarRegs
  <2>3. QED
    BY <2>1, <2>2, NoArgsFacts DEF TypeOK, PCs, Nothing, Frame, DBFrame, DB2Frame, SkewFrame
<1>2. SideInv /\ DramInv /\ RegsInv /\ WarmInv
  BY NoArgsFacts DEF SideInv, DramInv, RegsInv, WarmInv, Scanning, Nothing
<1>3. EngineIsCurrent /\ ReadsAreCurrent
  BY DEF EngineIsCurrent, ReadsAreCurrent, Scanning
<1>4. QED
  BY <1>1, <1>2, <1>3 DEF IInv

\* What the engine packs is well typed.
LEMMA PackedRowType ==
  ASSUME TypeOK, NEW i \in Row
  PROVE  PackedRow(i) \in Line
<1> DEFINE n == regs[EnabledColNum]
<1>1. n \in 0..MaxGroups /\ regs \in [RegName -> Nat] /\ dram[regs[FrameOffset]][i] \in Data
  BY DEF TypeOK
<1>2. Image(regs, n) \in [RegName -> Nat]
  BY <1>1 DEF Image
<1>3. QED
  BY <1>1, <1>2 DEF PackedRow, Line

\* One store to a register keeps the registers well typed.
LEMMA StoreRegType ==
  ASSUME TypeOK, NEW r \in RegName, NEW v \in Nat,
         r = EnabledColNum => v \in 0..MaxGroups,
         r = FrameOffset => v \in Frame,
         StoreReg(r, v)
  PROVE  /\ regs' \in [RegName -> Nat]
         /\ regs'[EnabledColNum] \in 0..MaxGroups
         /\ regs'[FrameOffset] \in Frame
<1>1. regs \in [RegName -> Nat] /\ regs' = [regs EXCEPT ![r] = v]
  BY DEF TypeOK, StoreReg
<1>2. EnabledColNum \in RegName /\ FrameOffset \in RegName
  BY DEF EnabledColNum, FrameOffset, RegName, ScalarRegs
<1>3. QED
  BY <1>1, <1>2 DEF TypeOK

\* What a reset does to the CPU's copies is a fact of the machine.
LEMMA CoherentFixed == [Next]_vars => coherent' = coherent
BY DEF Next, ProcessStep, Exec, PopulateRow, Populated, ConfigReg, ConfigResetFrame,
   ConfigResetToggle, ScanWindow, ScanDram, SecondTable, Answered, EndResetFrame,
   EndResetToggle, EndResetFrame2, EndResetToggle2, ResetFrame, ResetToggle, Kill,
   MachineStep, StoreRow, StoreReg, StoreReset, LoadCached, LoadPacked, PackAhead, Evict,
   vars, device

\* Every step keeps the types.
LEMMA NextTypeOK == TypeOK /\ SideInv /\ [Next]_vars => TypeOK'
<1> SUFFICES ASSUME TypeOK, SideInv, [Next]_vars PROVE TypeOK'
  OBVIOUS
<1> USE DEF TypeOK, PCs
<1>0. /\ Table \in Tables /\ Table.rows \in Nat /\ 0..Table.rows-1 \subseteq Row
      /\ FrameOf(side) \in Frame
  BY RequestFacts DEF SideInv, Table, FrameOf, Frame
<1>1. CASE Exec
  BY <1>1 DEF Exec, device
<1>2. CASE PopulateRow
  <2>1. Content \in Data
    BY <1>0 DEF Content, Data, Layout
  <2>2. dram' \in [Frame -> [Row -> Data]]
    BY <1>0, <1>2, <2>1 DEF PopulateRow, StoreRow
  <2>3. QED
    BY <1>2, <2>2 DEF PopulateRow, StoreRow
<1>3. CASE Populated
  BY <1>3 DEF Populated, device
<1>4. CASE ConfigReg
  <2> DEFINE r == Stores(args, side)[step+1]
             v == RegValue(args, side, r)
             n == Len(ColsOf(args, side))
  <2>1. n \in 1..MaxGroups /\ r \in Significant(n)
    <3>1. step+1 \in 1..Len(Stores(args, side))
      BY <1>4, RequestFacts DEF ConfigReg, SideInv, Stores
    <3>2. QED
      BY <3>1, StoresSignificant, RequestFacts DEF SideInv
  <2>2. r \in RegName /\ v \in Nat
    BY <2>1, RequestFacts, SignificantRegs DEF SideInv
  <2>3. r = EnabledColNum => v \in 0..MaxGroups
    BY <2>1 DEF RegValue, EnabledColNum
  <2>4. r = FrameOffset => v \in Frame
    BY DEF RegValue, FrameOffset, Frame
  <2>5. StoreReg(r, v)
    BY <1>4 DEF ConfigReg
  <2> HIDE DEF r, v
  <2>6. /\ regs' \in [RegName -> Nat]
        /\ regs'[EnabledColNum] \in 0..MaxGroups
        /\ regs'[FrameOffset] \in Frame
    BY <2>2, <2>3, <2>4, <2>5, StoreRegType
  <2>7. QED
    BY <1>4, <2>5, <2>6 DEF ConfigReg, StoreReg
<1>5. ASSUME NEW from, NEW frame \in Frame, NEW to \in PCs, ResetFrame(from, frame, to)
      PROVE  TypeOK'
  <2>1. FrameOffset \in RegName /\ FrameOffset # EnabledColNum /\ frame \in Nat
    BY DEF FrameOffset, EnabledColNum, RegName, ScalarRegs, Frame, DBFrame, DB2Frame, SkewFrame
  <2>2. /\ regs' \in [RegName -> Nat]
        /\ regs'[EnabledColNum] \in 0..MaxGroups
        /\ regs'[FrameOffset] \in Frame
    BY <1>5, <2>1, StoreRegType DEF ResetFrame
  <2>3. QED
    BY <1>5, <2>2 DEF ResetFrame, StoreReg
<1>6. ASSUME NEW from, NEW to \in PCs, ResetToggle(from, to)
      PROVE  TypeOK'
  <2>1. /\ reset' \in {0, 1}
        /\ packed' \in [Row -> SUBSET Line]
        /\ cpu' \in [Row -> SUBSET Line]
        /\ warm' \subseteq Row
    BY <1>6 DEF ResetToggle, StoreReset, Nothing
  <2>2. UNCHANGED <<coherent, dram, regs>>
    BY <1>6 DEF ResetToggle, StoreReset
  <2>3. CASE to = "exec"
    BY <1>6, <2>1, <2>2, <2>3, NoArgsFacts DEF ResetToggle, Gone, Nothing
  <2>4. CASE to # "exec"
    BY <1>6, <2>1, <2>2, <2>4 DEF ResetToggle
  <2>5. QED
    BY <2>3, <2>4
<1>5a. CASE ConfigResetFrame \/ EndResetFrame \/ EndResetFrame2
  <2>1. {FrameOf(side), DBFrame, DB2Frame} \subseteq Frame
    BY <1>0 DEF Frame
  <2>2. {"toggle", "endToggle", "endToggle2"} \subseteq PCs
    BY DEF PCs
  <2>3. QED
    BY ONLY <1>5, <1>5a, <2>1, <2>2 DEF ConfigResetFrame, EndResetFrame, EndResetFrame2
<1>6a. CASE ConfigResetToggle \/ EndResetToggle \/ EndResetToggle2
  <2>1. {"scan", "end2", "exec"} \subseteq PCs
    BY DEF PCs
  <2>2. QED
    BY ONLY <1>6, <1>6a, <2>1 DEF ConfigResetToggle, EndResetToggle, EndResetToggle2
<1>7. CASE ScanWindow
  <2>1. step \in Row /\ RowRead \in Row
    BY <1>0, <1>7 DEF ScanWindow, RowRead
  <2> DEFINE at == RowRead
  <2>2. PICK line \in cpu[at] \cup packed[at] \cup {PackedRow(at)} :
          /\ LoadCached(at, line) \/ LoadPacked(at, line)
          /\ seen' = [seen EXCEPT ![step] = {line}]
    BY <1>7 DEF ScanWindow
  <2> HIDE DEF at
  <2>a. at \in Row
    BY <2>1 DEF at
  <2>3. line \in Line
    BY <2>a, <2>2, PackedRowType
  <2>4. CASE LoadCached(at, line)
    <3>1. seen' \in [Row -> SUBSET (Line \cup Data)]
      BY <2>1, <2>2, <2>3
    <3>2. QED
      BY <1>7, <2>4, <3>1 DEF ScanWindow, LoadCached, device
  <2>5. CASE LoadPacked(at, line)
    <3>1. packed' \in [Row -> SUBSET Line] /\ cpu' \in [Row -> SUBSET Line]
      BY <2>a, <2>3, <2>5 DEF LoadPacked
    <3>2. seen' \in [Row -> SUBSET (Line \cup Data)]
      BY <2>1, <2>2, <2>3
    <3>3. QED
      BY <1>7, <2>1, <2>a, <2>5, <3>1, <3>2 DEF ScanWindow, LoadPacked
  <2>6. QED
    BY <2>2, <2>4, <2>5
<1>8. CASE ScanDram
  <2>1. step \in Row
    BY <1>0, <1>8 DEF ScanDram
  <2>2. dram[FrameOf(side)][step] \in Data
    BY <1>0, <2>1
  <2>3. QED
    BY <1>8, <2>1, <2>2 DEF ScanDram, device
<1>9. CASE SecondTable
  BY <1>9 DEF SecondTable, device, Nothing
<1>10. CASE Answered
  BY <1>10, NoArgsFacts DEF Answered, Gone, device, Nothing
<1>11. CASE Kill
  BY <1>11, NoArgsFacts DEF Kill, Gone, device, Nothing
<1>12. CASE MachineStep
  <2>1. PICK i \in Row : (PackAhead(i) \/ Evict(i)) /\ UNCHANGED process
    BY <1>12 DEF MachineStep
  <2>2. PackedRow(i) \in Line
    BY PackedRowType
  <2>3. QED
    BY <2>1, <2>2 DEF PackAhead, Evict, process
<1>13. CASE UNCHANGED vars
  BY <1>13 DEF vars, device, process
<1>14. [Next]_vars
  OBVIOUS
<1>15. QED
  BY ONLY <1>1, <1>2, <1>3, <1>4, <1>5a, <1>6a, <1>7, <1>8, <1>9, <1>10, <1>11,
     <1>12, <1>13, <1>14
     DEF Next, ProcessStep

-----------------------------------------------------------------------------
\* The process works on a table its query has, and configures for RME only.
LEMMA NextSideInv == IInv /\ [Next]_vars => SideInv'
<1> SUFFICES ASSUME IInv, [Next]_vars PROVE SideInv'
  OBVIOUS
<1> USE DEF SideInv, IInv
<1>0. Table.rows \in Nat /\ step \in Nat /\ args \in Request
  BY RequestFacts DEF Table, TypeOK
<1>1. CASE Exec
  BY <1>1 DEF Exec, Sides
<1>2. CASE PopulateRow \/ ConfigReg \/ ScanWindow \/ ScanDram
  BY <1>0, <1>2 DEF PopulateRow, ConfigReg, ScanWindow, ScanDram, Table
<1>3. CASE Populated
  <2>1. UNCHANGED <<args, side>> /\ Table' = Table /\ step' = 0
    BY <1>3 DEF Populated, Table
  <2>2. QED
    BY <1>0, <1>3, <2>1 DEF Populated
<1>4. CASE ConfigResetFrame \/ EndResetFrame \/ EndResetFrame2
  <2>1. UNCHANGED <<args, side>> /\ pc' # "scan" /\ (pc' = "toggle" => pc = "config")
    BY <1>4 DEF ConfigResetFrame, EndResetFrame, EndResetFrame2, ResetFrame
  <2>2. QED
    BY <2>1, <1>4 DEF ConfigResetFrame, EndResetFrame, EndResetFrame2, ResetFrame
<1>5. CASE ConfigResetToggle
  BY <1>0, <1>5 DEF ConfigResetToggle, ResetToggle, Table
<1>6. CASE EndResetToggle \/ EndResetToggle2
  BY <1>6, NoArgsFacts DEF EndResetToggle, EndResetToggle2, ResetToggle, Gone
<1>7. CASE SecondTable
  BY <1>7 DEF SecondTable, Sides
<1>8. CASE Answered \/ Kill
  BY <1>8, NoArgsFacts DEF Answered, Kill, Gone
<1>9. CASE MachineStep \/ UNCHANGED vars
  BY <1>9 DEF MachineStep, vars, process, Table
<1>10. QED
  BY <1>1, <1>2, <1>3, <1>4, <1>5, <1>6, <1>7, <1>8, <1>9 DEF Next, ProcessStep

\* The rows already populated stay in DRAM while the process needs them.
LEMMA NextDramInv == IInv /\ [Next]_vars => DramInv'
<1> SUFFICES ASSUME IInv, [Next]_vars PROVE DramInv'
  OBVIOUS
<1> USE DEF DramInv
<1>0. /\ TypeOK /\ SideInv /\ DramInv
      /\ Table.rows \in Nat /\ step \in Nat /\ FrameOf(side) \in Frame
      /\ 0..Table.rows-1 \subseteq Row
  BY RequestFacts DEF IInv, SideInv, Table, TypeOK, FrameOf, Frame
<1>1. CASE Exec
  <2>1. side' = "s" /\ step' = 0 /\ args' \in Request /\ pc' = "populate"
    BY <1>1 DEF Exec
  <2>2. Table'.rows \in Nat
    BY <2>1, RequestFacts DEF Table, Sides
  <2>3. QED
    BY <2>1, <2>2 DEF Filled
<1>2. CASE PopulateRow
  <2>1. /\ pc = "populate" /\ pc' = pc /\ step < Table.rows /\ step' = step + 1
        /\ dram' = [dram EXCEPT ![FrameOf(side)][step] = Content]
        /\ UNCHANGED <<args, side>>
    BY <1>2 DEF PopulateRow, StoreRow
  <2>2. Table' = Table /\ Content' = Content /\ FrameOf(side)' = FrameOf(side)
    BY <2>1 DEF Table, Content, FrameOf
  <2>3. Filled = step /\ Filled' = step + 1
    BY <2>1 DEF Filled
  <2>4. \A i \in 0..step : dram'[FrameOf(side)][i] = Content
    BY <1>0, <2>1, <2>3 DEF TypeOK
  <2>5. QED
    BY <1>0, <2>1, <2>2, <2>3, <2>4
<1>3. CASE Populated
  BY <1>0, <1>3 DEF Populated, Filled, device, Table, Content, FrameOf
<1>4. CASE ConfigReg \/ ConfigResetFrame \/ ConfigResetToggle \/ ScanWindow \/ ScanDram
           \/ MachineStep \/ UNCHANGED vars
  <2>1. UNCHANGED <<dram, args, side>>
    BY <1>4 DEF ConfigReg, ConfigResetFrame, ConfigResetToggle, ResetFrame, ResetToggle,
       StoreReg, StoreReset, ScanWindow, ScanDram, LoadCached, LoadPacked, MachineStep,
       PackAhead, Evict, vars, device, process
  <2>2. /\ Table' = Table /\ Content' = Content /\ FrameOf(side)' = FrameOf(side)
    BY <2>1 DEF Table, Content, FrameOf
  <2>3. \/ pc \in {"config", "toggle", "scan"} /\ pc' \in {"config", "toggle", "scan"}
        \/ UNCHANGED <<pc, step>>
    BY <1>4 DEF ConfigReg, ConfigResetFrame, ConfigResetToggle, ResetFrame, ResetToggle,
       ScanWindow, ScanDram, MachineStep, vars, process
  <2>4. pc' \in {"populate", "config", "toggle", "scan"} => Filled' = Filled
    BY <2>2, <2>3 DEF Filled
  <2>5. QED
    BY <1>0, <2>1, <2>2, <2>3, <2>4
<1>5. CASE SecondTable
  <2>1. side' = "r" /\ step' = 0 /\ args' = args /\ pc' = "populate" /\ args.query = "JOIN"
    BY <1>5 DEF SecondTable
  <2>2. Table'.rows \in Nat
    BY <1>0, <2>1, RequestFacts DEF Table, Sides, TypeOK
  <2>3. QED
    BY <2>1, <2>2 DEF Filled
<1>6. CASE Answered \/ Kill \/ EndResetFrame \/ EndResetToggle \/ EndResetFrame2 \/ EndResetToggle2
  <2>1. pc' \notin {"populate", "config", "toggle", "scan"}
    BY <1>6 DEF Answered, Kill, Gone, EndResetFrame, EndResetToggle, EndResetFrame2,
       EndResetToggle2, ResetFrame, ResetToggle
  <2>2. QED
    BY <2>1
<1>7. QED
  BY <1>1, <1>2, <1>3, <1>4, <1>5, <1>6 DEF Next, ProcessStep

\* The registers already stored keep their values until the scan is over.
LEMMA NextRegsInv == IInv /\ [Next]_vars => RegsInv'
<1> SUFFICES ASSUME IInv, [Next]_vars PROVE RegsInv'
  OBVIOUS
<1> DEFINE n == Len(ColsOf(args, side))
           st == Stores(args, side)
<1>0. /\ TypeOK /\ SideInv /\ RegsInv /\ step \in Nat
      /\ args \in Request /\ side \in Sides(args)
      /\ n \in 1..MaxGroups /\ Len(st) \in Nat
      /\ regs \in [RegName -> Nat] /\ Significant(n) \subseteq RegName
  BY RequestFacts, SignificantRegs DEF IInv, SideInv, TypeOK, Stores
<1>1. CASE Exec \/ PopulateRow \/ SecondTable \/ Answered \/ Kill \/ EndResetFrame
           \/ EndResetToggle \/ EndResetFrame2 \/ EndResetToggle2
  <2>1. pc' \notin {"config", "toggle", "scan"}
    BY <1>1 DEF Exec, PopulateRow, SecondTable, Answered, Kill, Gone, EndResetFrame,
       EndResetToggle, EndResetFrame2, EndResetToggle2, ResetFrame, ResetToggle
  <2>2. QED
    BY <2>1 DEF RegsInv, Scanning
<1>2. CASE Populated
  BY <1>0, <1>2 DEF Populated, RegsInv, Scanning
<1>3. CASE ConfigReg
  <2> DEFINE r == st[step+1]
  <2>1. /\ step < Len(st) /\ step' = step + 1 /\ UNCHANGED <<pc, args, side>> /\ pc = "config"
        /\ regs' = [regs EXCEPT ![r] = RegValue(args, side, r)]
    BY <1>3 DEF ConfigReg, StoreReg
  <2>2. \A j \in 1..step+1 : st[j] \in RegName
    BY <1>0, <2>1, StoresSignificant
  <2>3. ASSUME NEW j \in 1..step+1 PROVE regs'[st[j]] = RegValue(args, side, st[j])
    <3>1. CASE st[j] = r
      BY <1>0, <2>1, <2>2, <3>1
    <3>2. CASE st[j] # r
      <4>1. j \in 1..step
        BY <1>0, <3>2
      <4>2. QED
        BY <1>0, <2>1, <2>2, <3>2, <4>1 DEF RegsInv
    <3>3. QED
      BY <3>1, <3>2
  <2>4. step' <= Len(st)
    BY <1>0, <2>1
  <2>5. QED
    BY <2>1, <2>3, <2>4 DEF RegsInv, Scanning
<1>4. CASE ConfigResetFrame
  <2>1. /\ pc = "config" /\ step = Len(st) /\ pc' = "toggle"
        /\ regs' = [regs EXCEPT ![FrameOffset] = FrameOf(side)]
        /\ UNCHANGED <<args, side>>
    BY <1>4 DEF ConfigResetFrame, ResetFrame, StoreReg
  <2>2. ASSUME NEW r \in Significant(n) PROVE regs'[r] = WantedImage(args, side)[r]
    <3>1. PICK j \in 1..Len(st) : st[j] = r
      BY <1>0, StoresCover
    <3>2. regs[r] = RegValue(args, side, r)
      BY <1>0, <2>1, <3>1 DEF RegsInv
    <3>3. regs'[r] = IF r = FrameOffset THEN FrameOf(side) ELSE RegValue(args, side, r)
      BY <1>0, <2>1, <3>2
    <3>4. QED
      BY <1>0, <3>3 DEF WantedImage
  <2>3. QED
    BY <2>1, <2>2 DEF RegsInv, Scanning
<1>5. CASE ConfigResetToggle
  BY <1>0, <1>5 DEF ConfigResetToggle, ResetToggle, StoreReset, RegsInv, Scanning
<1>6. CASE ScanWindow \/ ScanDram \/ MachineStep \/ UNCHANGED vars
  <2>1. UNCHANGED <<regs, pc, args, side>> /\ (pc = "config" => UNCHANGED step)
    BY <1>6 DEF ScanWindow, ScanDram, LoadCached, LoadPacked, MachineStep,
       PackAhead, Evict, vars, device, process
  <2>2. QED
    BY <1>0, <2>1 DEF RegsInv, Scanning
<1>7. QED
  BY <1>1, <1>2, <1>3, <1>4, <1>5, <1>6 DEF Next, ProcessStep

\* During a scan of the window the engine packs exactly what was asked for.
LEMMA PackedIsWanted ==
  ASSUME IInv, Scanning, NEW i \in 0..Table.rows-1
  PROVE  PackedRow(i) = WantedRow
<1>1. /\ args \in Request /\ side \in Sides(args) /\ Table.rows \in Nat
      /\ Len(ColsOf(args, side)) \in 1..MaxGroups
  BY RequestFacts DEF IInv, TypeOK, SideInv, Table
<1>2. \A r \in Significant(Len(ColsOf(args, side))) : regs[r] = WantedImage(args, side)[r]
  BY DEF IInv, RegsInv
<1>3. EnabledColNum \in ScalarRegs /\ FrameOffset \in ScalarRegs /\ EnabledColNum # FrameOffset
  BY DEF EnabledColNum, FrameOffset, ScalarRegs
<1>4. regs[EnabledColNum] = Len(ColsOf(args, side))
  BY <1>1, <1>2, <1>3, SignificantRegs DEF WantedImage, Significant, RegValue, EnabledColNum
<1>5. regs[FrameOffset] = FrameOf(side)
  BY <1>1, <1>2, <1>3, SignificantRegs DEF WantedImage, Significant
<1>6. Image(regs, regs[EnabledColNum]) = WantedImage(args, side)
  BY <1>2, <1>4 DEF Image, WantedImage
<1>7. dram[regs[FrameOffset]][i] = [table |-> Table, layout |-> "row"]
  BY <1>1, <1>5 DEF IInv, DramInv, Filled, Content, Scanning
<1>8. QED
  BY <1>6, <1>7 DEF PackedRow, WantedRow

\* What one load of the window answers while a query scans it.
LEMMA LoadIsWanted ==
  ASSUME IInv, Scanning, NEW i \in 0..Table.rows-1, NEW line,
         LoadCached(i, line) \/ LoadPacked(i, line),
         cpu[i] = {} \/ i \in warm
  PROVE  line = WantedRow
<1>1. PackedRow(i) = WantedRow /\ packed[i] \subseteq {WantedRow}
  BY PackedIsWanted DEF IInv, EngineIsCurrent
<1>2. CASE LoadCached(i, line)
  BY <1>2 DEF LoadCached, IInv, WarmInv
<1>3. CASE LoadPacked(i, line)
  BY <1>1, <1>3 DEF LoadPacked
<1>4. QED
  BY <1>2, <1>3

\* What the engine and the CPU hold, and what was read, stays right.
LEMMA NextScanInv ==
  IInv /\ [Next]_vars => WarmInv' /\ EngineIsCurrent' /\ ReadsAreCurrent'
<1> SUFFICES ASSUME IInv, [Next]_vars
             PROVE  WarmInv' /\ EngineIsCurrent' /\ ReadsAreCurrent'
  OBVIOUS
<1> USE DEF Scanning
<1>0. /\ TypeOK /\ SideInv /\ WarmInv /\ EngineIsCurrent /\ ReadsAreCurrent
      /\ Table.rows \in Nat /\ 0..Table.rows-1 \subseteq Row /\ step \in Nat
      /\ packed \in [Row -> SUBSET Line] /\ cpu \in [Row -> SUBSET Line]
      /\ seen \in [Row -> SUBSET (Line \cup Data)]
      /\ coherent' = coherent
  BY RequestFacts, CoherentFixed DEF IInv, SideInv, TypeOK, Table
<1>1. CASE Exec \/ PopulateRow \/ Populated \/ ConfigReg \/ ConfigResetFrame \/ ScanDram
           \/ SecondTable \/ Answered \/ Kill \/ EndResetFrame \/ EndResetFrame2
  <2>1. ~Scanning' /\ UNCHANGED <<cpu, warm>>
    BY <1>1 DEF Exec, PopulateRow, Populated, ConfigReg, ConfigResetFrame, ScanDram,
       SecondTable, Answered, Kill, Gone, EndResetFrame, EndResetFrame2, ResetFrame,
       StoreRow, StoreReg, device
  <2>2. QED
    BY <1>0, <2>1 DEF WarmInv, EngineIsCurrent, ReadsAreCurrent
<1>2. CASE EndResetToggle \/ EndResetToggle2
  <2>1. ~Scanning'
    BY <1>2 DEF EndResetToggle, EndResetToggle2, ResetToggle, Gone
  <2>2. \/ UNCHANGED <<cpu, warm>>
        \/ warm' = {} /\ (coherent => cpu' = Nothing)
    BY <1>2 DEF EndResetToggle, EndResetToggle2, ResetToggle, StoreReset
  <2>3. QED
    BY <1>0, <2>1, <2>2 DEF WarmInv, EngineIsCurrent, ReadsAreCurrent, Nothing
<1>3. CASE ConfigResetToggle
  <2>1. (reset + 1) % 2 # reset
    BY <1>0 DEF TypeOK
  <2>2. /\ packed' = Nothing /\ warm' = {} /\ (coherent => cpu' = Nothing)
        /\ UNCHANGED <<args, side, step>> /\ step = 0
    BY <1>0, <1>3, <2>1 DEF ConfigResetToggle, ResetToggle, StoreReset, SideInv
  <2>3. Table' = Table /\ WantedRow' = WantedRow
    BY <2>2 DEF Table, WantedRow
  <2>4. QED
    BY <1>0, <2>2, <2>3 DEF WarmInv, EngineIsCurrent, ReadsAreCurrent, Nothing
<1>4. CASE ScanWindow
  <2>1. /\ Scanning /\ step \in 0..Table.rows-1 /\ step' = step + 1
        /\ UNCHANGED <<pc, args, side>>
    BY <1>0, <1>4 DEF ScanWindow
  <2> DEFINE at == RowRead
  <2>a. at \in 0..Table.rows-1
    BY <1>0, <2>1 DEF RowRead
  <2>2. PICK line : /\ LoadCached(at, line) \/ LoadPacked(at, line)
                    /\ seen' = [seen EXCEPT ![step] = {line}]
    BY <1>4 DEF ScanWindow
  <2> HIDE DEF at
  <2>3. Table' = Table /\ WantedRow' = WantedRow
    BY <2>1 DEF Table, WantedRow
  <2>4. LoadPacked(at, line) => line = WantedRow
    BY <2>1, <2>2, <2>a, LoadIsWanted DEF LoadPacked
  <2>5. coherent => line = WantedRow
    BY <1>0, <2>1, <2>2, <2>a, LoadIsWanted DEF WarmInv
  <2>6. WarmInv' /\ EngineIsCurrent'
    <3>1. CASE LoadCached(at, line)
      BY <1>0, <2>1, <2>a, <2>3, <3>1 DEF LoadCached, device, WarmInv, EngineIsCurrent
    <3>2. CASE LoadPacked(at, line)
      <4>1. /\ line = WantedRow
            /\ packed' = [packed EXCEPT ![at] = {line}]
            /\ cpu' = [cpu EXCEPT ![at] = {line}]
            /\ warm' = warm \cup {at}
        BY <2>4, <3>2 DEF LoadPacked
      <4>2. EngineIsCurrent'
        BY <1>0, <2>1, <2>a, <2>3, <4>1 DEF EngineIsCurrent
      <4>3. WarmInv'
        BY <1>0, <2>1, <2>a, <2>3, <4>1 DEF WarmInv
      <4>4. QED
        BY <4>2, <4>3
    <3>3. QED
      BY <2>2, <3>1, <3>2
  <2>7. ReadsAreCurrent'
    BY <1>0, <2>1, <2>2, <2>3, <2>5 DEF ReadsAreCurrent
  <2>8. QED
    BY <2>6, <2>7
<1>5. CASE MachineStep
  <2>1. PICK i \in Row : (PackAhead(i) \/ Evict(i)) /\ UNCHANGED process
    BY <1>5 DEF MachineStep
  <2>2. UNCHANGED <<pc, args, side, step, seen>> /\ Table' = Table /\ WantedRow' = WantedRow
    BY <2>1 DEF process, Table, WantedRow
  <2>3. ReadsAreCurrent'
    BY <1>0, <2>2 DEF ReadsAreCurrent
  <2>4. CASE PackAhead(i)
    <3>1. Scanning /\ i \in 0..Table.rows-1 => PackedRow(i) = WantedRow
      BY PackedIsWanted
    <3>2. EngineIsCurrent'
      BY <1>0, <2>2, <2>4, <3>1 DEF PackAhead, EngineIsCurrent
    <3>3. WarmInv'
      BY <1>0, <2>2, <2>4 DEF PackAhead, WarmInv
    <3>4. QED
      BY <2>3, <3>2, <3>3
  <2>5. CASE Evict(i)
    BY <1>0, <2>2, <2>3, <2>5 DEF Evict, EngineIsCurrent, WarmInv
  <2>6. QED
    BY <2>1, <2>4, <2>5
<1>6. CASE UNCHANGED vars
  <2>1. UNCHANGED <<pc, args, side, step, seen, packed, cpu, warm>> /\ Table' = Table
        /\ WantedRow' = WantedRow
    BY <1>6 DEF vars, device, process, Table, WantedRow
  <2>2. QED
    BY <1>0, <2>1 DEF WarmInv, EngineIsCurrent, ReadsAreCurrent
<1>7. QED
  BY <1>1, <1>2, <1>3, <1>4, <1>5, <1>6 DEF Next, ProcessStep

-----------------------------------------------------------------------------
\* IInv is inductive.
THEOREM Invariance == Spec => []IInv
<1>1. IInv /\ [Next]_vars => IInv'
  BY NextTypeOK, NextSideInv, NextDramInv, NextRegsInv, NextScanInv DEF IInv
<1>2. QED
  BY InitIInv, <1>1, PTL DEF Spec

\* The state is well typed.
THEOREM TypeCorrect == Spec => []TypeOK
<1>1. IInv => TypeOK
  BY DEF IInv
<1>2. QED
  BY Invariance, <1>1, PTL

\* A query that scans the window finds in the engine only rows packed under
\* its own configuration from the table it populated, whoever was killed
\* before it and at whatever step.
THEOREM EngineCurrent == Spec => []EngineIsCurrent
<1>1. IInv => EngineIsCurrent
  BY DEF IInv
<1>2. QED
  BY Invariance, <1>1, PTL

\* Where a reset reaches the CPU caches, every row read is current.
THEOREM ReadsCurrent == Spec => []ReadsAreCurrent
<1>1. IInv => ReadsAreCurrent
  BY DEF IInv
<1>2. QED
  BY Invariance, <1>1, PTL

\* Every scan, of DRAM or through the engine, is over the process's own table.
THEOREM DramCurrent == Spec => []DramIsCurrent
<1>1. IInv => DramIsCurrent
  BY DEF IInv, DramInv, DramIsCurrent, Filled, Content
<1>2. QED
  BY Invariance, <1>1, PTL

\* Where it does not, only a copy older than the last reset can mislead.
THEOREM OnlyOldCopiesMislead == Spec => StaleOnlyFromOldCopies
<1> DEFINE Step == Scanning /\ step' = step + 1 /\ seen'[step] # {WantedRow}
                     => cpu[RowRead] # {} /\ RowRead \notin warm
<1>1. IInv /\ [Next]_vars => [Step]_vars
  <2> SUFFICES ASSUME IInv, [Next]_vars, Scanning, step' = step + 1,
                      seen'[step] # {WantedRow}
               PROVE  cpu[RowRead] # {} /\ RowRead \notin warm
    BY Zenon
  <2>1. /\ Table.rows \in Nat /\ step \in Nat /\ seen \in [Row -> SUBSET (Line \cup Data)]
        /\ 0..Table.rows-1 \subseteq Row
    BY RequestFacts DEF IInv, SideInv, TypeOK, Table
  <2>2. ScanWindow
    BY <2>1 DEF Scanning, Next, ProcessStep, Exec, PopulateRow, Populated, ConfigReg,
       ConfigResetFrame, ConfigResetToggle, ScanDram, SecondTable, Answered, EndResetFrame,
       EndResetToggle, EndResetFrame2, EndResetToggle2, ResetFrame, ResetToggle, Kill, Gone,
       MachineStep, vars, process
  <2> DEFINE at == RowRead
  <2>3. PICK line : /\ LoadCached(at, line) \/ LoadPacked(at, line)
                    /\ seen' = [seen EXCEPT ![step] = {line}]
    BY <2>2 DEF ScanWindow
  <2>4. step \in Row /\ at \in 0..Table.rows-1
    BY <2>1, <2>2 DEF ScanWindow, RowRead
  <2> HIDE DEF at
  <2>5. line # WantedRow
    BY <2>1, <2>3, <2>4
  <2>6. cpu[at] # {} /\ at \notin warm
    BY <2>3, <2>4, <2>5, LoadIsWanted
  <2>7. QED
    BY <2>6 DEF at
<1>2. QED
  BY Invariance, <1>1, PTL DEF Spec, StaleOnlyFromOldCopies

=============================================================================
