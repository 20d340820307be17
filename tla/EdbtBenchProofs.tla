-------------------------- MODULE EdbtBenchProofs --------------------------
(***************************************************************************)
(* For every set of command lines, every number of rows, both kinds of CPU *)
(* cache and processes killed at any step: what a run of EDBT measures is  *)
(* what it configured and generated, cold when it says so, and of the      *)
(* stores that its sample calls for.                                       *)
(***************************************************************************)
EXTENDS EdbtBench, TLAPS

USE RelMemoryAssumption

PCs == {"exec", "setup", "flush", "zero", "fill", "config", "cold", "hot", "row", "col",
        "frame", "toggle", "flush2", "ran"}

IsRowMap(f) == f = [i \in Row |-> f[i]]

\* Where a process is, and the shape of the machine's state.
PlaceInv ==
  /\ pc \in PCs
  /\ cmd \in Command
  /\ pc # "exec" => turn \in 1..Len(Turns(cmd)) /\ sample \in Nat \ {0}
  /\ store \in {"r", "c", "b"}
  /\ step \in Nat
  /\ second \in BOOLEAN

ShapeInv ==
  /\ IsRowMap(packed) /\ IsRowMap(cpu) /\ IsRowMap(dcache) /\ IsRowMap(seen)
  /\ dram = [f \in Frame |-> dram[f]] /\ \A f \in Frame : IsRowMap(dram[f])
  /\ regs = [r \in RegName |-> regs[r]]
  /\ reset \in {0, 1}

\* The engine is empty but from the first read of the window to the toggle,
\* unless a process was killed in between.
CleanInv ==
  ~dirty /\ pc \notin {"cold", "hot", "row", "frame", "toggle"} => packed = Nothing

\* From the flush on the CPU copies rows only as it reads them.
FlushInv ==
  /\ pc \in {"zero", "fill", "config"} => cpu = Nothing
  /\ pc \in {"zero", "fill", "config", "cold", "hot"} => dcache = Nothing

\* The table is in DRAM as far as it has been generated.
TableInv ==
  /\ pc = "fill" =>
       step <= num_columns /\ \A i \in 0..Rows-1 : dram[DBFrame][i] = Content(step)
  /\ pc \in {"config", "cold", "hot", "row", "col"} =>
       \A i \in 0..Rows-1 : dram[DBFrame][i] = Table

\* The registers hold what has been stored, and all of it while the window is
\* read.
RegsInv ==
  /\ pc = "config" =>
       step <= Len(Stores) /\ \A j \in 1..step : regs[Stores[j]] = RegValue(Stores[j])
  /\ pc \in {"cold", "hot"} =>
       \A r \in Significant(Len(This.offsets)) : regs[r] = RegValue(r)

\* What the engine and the CPU hold during a pass.
PassInv ==
  /\ pc \in {"cold", "hot", "row", "col"} => step <= Rows
  /\ ~dirty /\ pc \in {"cold", "hot"} =>
       \A i \in 0..Rows-1 : cpu[i] \subseteq {WantedRow} /\ packed[i] \subseteq {WantedRow}
  /\ pc \in {"row", "col"} => \A i \in 0..Rows-1 : dcache[i] \subseteq {Table}

\* What store a sample is at and what it has measured so far.
RowLines == {"cold", "hot", "row"}
RunOver == {"frame", "toggle", "flush2", "ran"}

SampleInv ==
  /\ pc = "setup" /\ cmd.kind = "single" => store = IF sample = 1 THEN cmd.store ELSE "c"
  /\ pc \notin {"exec", "setup"} =>
       /\ second => store = "c"
       /\ store = "r" <=> StartsWithRows /\ ~second
       /\ pc \in RowLines => store = "r"
       /\ pc = "col" => store = "c"
       /\ ~second =>
            /\ pc \notin RunOver \cup {"hot", "row"} => measured = {}
            /\ pc = "hot" => measured = {"cold"}
            /\ pc = "row" => measured = {"cold", "hot"}
       /\ (pc \in RunOver <=> ~second) =>
            /\ StartsWithRows => measured = RowLines
            /\ ~StartsWithRows => measured \subseteq {"col"}
       /\ second /\ pc \in RunOver =>
            /\ StartsWithRows => measured = RowLines \cup {"col"}
            /\ ~StartsWithRows => measured = {"col"}

IInv ==
  /\ PlaceInv /\ ShapeInv /\ CleanInv /\ FlushInv /\ TableInv /\ RegsInv /\ PassInv
  /\ SampleInv /\ WindowIsCurrent /\ DramIsCurrent /\ ColdIsCold

-----------------------------------------------------------------------------
\* The turns of an experiment.
LEMMA CommandFacts ==
  ASSUME NEW c \in Command
  PROVE  /\ c.kind \in {"row_size", "col_size", "projectivity", "single"}
         /\ c.store \in {"r", "c"}
         /\ c.offsets \in Seq(Int) /\ Len(c.offsets) \in 0..MaxGroups
         /\ c.samples \in Nat \ {0} /\ c.num_columns \in Nat /\ c.r_col \in Nat \ {0}
<1>1. c.offsets \in Seq(Nat) /\ Len(c.offsets) <= MaxGroups
  BY EdbtAssumption
<1>2. QED
  BY <1>1, EdbtAssumption

LEMMA Quotient ==
  ASSUME NEW x \in Nat, NEW y \in Nat \ {0}
  PROVE  x \div y \in Nat
OBVIOUS

LEMMA TurnFacts ==
  ASSUME NEW c \in Command
  PROVE  /\ Len(Turns(c)) \in Nat \ {0}
         /\ c.kind = "single" => Len(Turns(c)) = 1
         /\ \A t \in 1..Len(Turns(c)) :
              /\ Turns(c)[t].num_columns \in Nat
              /\ Turns(c)[t].offsets \in Seq(Int)
              /\ Len(Turns(c)[t].offsets) \in 0..MaxGroups
<1>0. /\ c.kind \in {"row_size", "col_size", "projectivity", "single"}
      /\ c.offsets \in Seq(Int) /\ Len(c.offsets) \in 0..MaxGroups /\ c.num_columns \in Nat
      /\ c.r_col \in Nat \ {0} /\ COLUMN_WIDTH \in Nat \ {0}
  BY CommandFacts DEF COLUMN_WIDTH
<1>1. CASE c.kind = "row_size"
  <2>1. Turns(c) = [n \in 1..Len(RowSizes) |->
              [row_size |-> RowSizes[n], num_columns |-> RowSizes[n] \div c.r_col,
               offsets |-> c.offsets]]
    BY <1>1, Zenon DEF Turns
  <2>2. Len(RowSizes) \in Nat \ {0} /\ \A n \in 1..Len(RowSizes) : RowSizes[n] \in Nat
    BY EdbtAssumption
  <2>3. ASSUME NEW t \in 1..Len(RowSizes)
        PROVE  Turns(c)[t].num_columns \in Nat /\ Turns(c)[t].offsets = c.offsets
    <3>1. RowSizes[t] \div c.r_col \in Nat
      BY <1>0, <2>2, Quotient
    <3>2. Turns(c)[t] = [row_size |-> RowSizes[t], num_columns |-> RowSizes[t] \div c.r_col,
                         offsets |-> c.offsets]
      BY <2>1
    <3>3. QED
      BY <3>1, <3>2
  <2>4. Len(Turns(c)) = Len(RowSizes)
    BY <2>1, <2>2
  <2>5. QED
    BY <1>0, <1>1, <2>2, <2>3, <2>4
<1>2. CASE c.kind = "col_size"
  <2>1. Turns(c) = [n \in 1..ColSizes |->
              [row_size |-> FixedRowSize, num_columns |-> FixedRowSize \div c.r_col,
               offsets |-> c.offsets]]
    BY <1>2, Zenon DEF Turns
  <2>2. ColSizes \in Nat \ {0} /\ FixedRowSize \in Nat
    BY EdbtAssumption
  <2>3. FixedRowSize \div c.r_col \in Nat
    BY <1>0, <2>2, Quotient
  <2>4. QED
    BY <1>0, <1>2, <2>1, <2>2, <2>3
<1>3. CASE c.kind = "projectivity"
  <2> DEFINE offs(n) == [j \in 1..Enabled[n] |->
                          IF j <= Len(c.offsets) THEN c.offsets[j] ELSE 4 * (j-1)]
  <2>1. Turns(c) = [n \in 1..Len(Enabled) |->
              [row_size |-> FixedRowSize, num_columns |-> FixedRowSize \div COLUMN_WIDTH,
               offsets |-> offs(n)]]
    BY <1>3, Zenon DEF Turns
  <2>2. /\ Len(Enabled) \in Nat \ {0} /\ \A n \in 1..Len(Enabled) : Enabled[n] \in 0..MaxGroups
        /\ FixedRowSize \in Nat
    BY EdbtAssumption
  <2>3. ASSUME NEW n \in 1..Len(Enabled)
        PROVE  offs(n) \in Seq(Int) /\ Len(offs(n)) \in 0..MaxGroups
    <3>1. Enabled[n] \in 0..MaxGroups
      BY <2>2
    <3>2. \A j \in 1..Enabled[n] :
            (IF j <= Len(c.offsets) THEN c.offsets[j] ELSE 4 * (j-1)) \in Int
      BY <1>0, <3>1
    <3>3. QED
      BY <3>1, <3>2
  <2> HIDE DEF offs
  <2>4. ASSUME NEW t \in 1..Len(Enabled)
        PROVE  Turns(c)[t].num_columns \in Nat /\ Turns(c)[t].offsets = offs(t)
    <3>1. FixedRowSize \div COLUMN_WIDTH \in Nat
      BY <1>0, <2>2, Quotient
    <3>2. Turns(c)[t] = [row_size |-> FixedRowSize, num_columns |-> FixedRowSize \div COLUMN_WIDTH,
                         offsets |-> offs(t)]
      BY <2>1
    <3>3. QED
      BY <3>1, <3>2
  <2>5. Len(Turns(c)) = Len(Enabled)
    BY <2>1, <2>2
  <2>6. ASSUME NEW t \in 1..Len(Turns(c))
        PROVE  /\ Turns(c)[t].num_columns \in Nat
               /\ Turns(c)[t].offsets \in Seq(Int)
               /\ Len(Turns(c)[t].offsets) \in 0..MaxGroups
    <3>1. t \in 1..Len(Enabled)
      BY <2>5
    <3>2. QED
      BY <3>1, <2>3, <2>4
  <2>7. c.kind # "single" /\ Len(Turns(c)) \in Nat \ {0}
    BY <1>3, <2>2, <2>5
  <2>8. QED
    BY <2>6, <2>7
<1>4. CASE c.kind = "single"
  <2>1. Turns(c) = <<[row_size |-> COLUMN_WIDTH * c.num_columns, num_columns |-> c.num_columns,
                      offsets |-> c.offsets]>>
    BY <1>4, Zenon DEF Turns
  <2>2. QED
    BY <1>0, <1>4, <2>1
<1>5. QED
  BY <1>0, <1>1, <1>2, <1>3, <1>4

\* The order of the stores for n enabled columns.
StoresFor(n) ==
  LET scalars == <<<<"row_size", 0>>, <<"row_count", 0>>, EnabledColNum>>
  IN  [j \in 1..2*n+4 |-> IF j <= 3 THEN scalars[j]
                          ELSE IF j <= n+3 THEN <<"col_widths", j-4>>
                          ELSE IF j <= 2*n+3 THEN <<"col_offsets", j-n-4>>
                          ELSE FrameOffset]

LEMMA StoresForFacts ==
  ASSUME NEW n \in Nat
  PROVE  /\ Len(StoresFor(n)) = 2*n+4
         /\ StoresFor(n)[1] = <<"row_size", 0>> /\ StoresFor(n)[2] = <<"row_count", 0>>
         /\ StoresFor(n)[3] = EnabledColNum /\ StoresFor(n)[2*n+4] = FrameOffset
         /\ \A j \in 4..n+3 : StoresFor(n)[j] = <<"col_widths", j-4>>
         /\ \A j \in n+4..2*n+3 : StoresFor(n)[j] = <<"col_offsets", j-n-4>>
<1>1. Len(StoresFor(n)) = 2*n+4
  BY DEF StoresFor
<1>2. {1, 2, 3, 2*n+4} \subseteq 1..2*n+4 /\ 4..n+3 \subseteq 1..2*n+4 /\ n+4..2*n+3 \subseteq 1..2*n+4
  OBVIOUS
<1>3. /\ StoresFor(n)[1] = <<"row_size", 0>> /\ StoresFor(n)[2] = <<"row_count", 0>>
      /\ StoresFor(n)[3] = EnabledColNum /\ StoresFor(n)[2*n+4] = FrameOffset
  BY DEF StoresFor
<1>4. \A j \in 4..n+3 : StoresFor(n)[j] = <<"col_widths", j-4>>
  BY <1>2 DEF StoresFor
<1>5. \A j \in n+4..2*n+3 : StoresFor(n)[j] = <<"col_offsets", j-n-4>>
  BY <1>2 DEF StoresFor
<1>6. QED
  BY <1>1, <1>3, <1>4, <1>5

\* configure_relcache stores the registers the engine looks at and no other.
LEMMA StoresExactly ==
  ASSUME NEW n \in 0..MaxGroups
  PROVE  /\ \A j \in 1..Len(StoresFor(n)) : StoresFor(n)[j] \in Significant(n)
         /\ \A r \in Significant(n) : \E j \in 1..Len(StoresFor(n)) : StoresFor(n)[j] = r
         /\ Significant(n) \subseteq RegName
<1> USE DEF Significant, ScalarRegs, ColumnRegs, EnabledColNum, FrameOffset
<1> DEFINE st == StoresFor(n)
<1>0. /\ n \in Nat
      /\ Len(st) = 2*n+4
      /\ st[1] = <<"row_size", 0>> /\ st[2] = <<"row_count", 0>>
      /\ st[3] = EnabledColNum /\ st[2*n+4] = FrameOffset
      /\ \A j \in 4..n+3 : st[j] = <<"col_widths", j-4>>
      /\ \A j \in n+4..2*n+3 : st[j] = <<"col_offsets", j-n-4>>
  <2>1. n \in Nat
    OBVIOUS
  <2>2. QED
    BY <2>1, StoresForFacts
<1> HIDE DEF st
<1>1. ASSUME NEW j \in 1..2*n+4 PROVE st[j] \in Significant(n)
  <2>1. j \in {1, 2, 3, 2*n+4} \/ j \in 4..n+3 \/ j \in n+4..2*n+3
    OBVIOUS
  <2>2. CASE j \in {1, 2, 3, 2*n+4}
    BY <2>2, <1>0
  <2>3. CASE j \in 4..n+3
    <3>1. j-4 \in 0..n-1 /\ st[j] = <<"col_widths", j-4>>
      BY <2>3, <1>0
    <3>2. QED
      BY <3>1
  <2>4. CASE j \in n+4..2*n+3
    <3>1. j-n-4 \in 0..n-1 /\ st[j] = <<"col_offsets", j-n-4>>
      BY <2>4, <1>0
    <3>2. QED
      BY <3>1
  <2>5. QED
    BY <2>1, <2>2, <2>3, <2>4
<1>2. ASSUME NEW r \in Significant(n) PROVE \E j \in 1..2*n+4 : st[j] = r
  <2>1. CASE r \in ScalarRegs
    BY <2>1, <1>0, {1, 2, 3, 2*n+4} \subseteq 1..2*n+4
  <2>2. CASE r \in ColumnRegs(n)
    <3>1. PICK w \in {"col_widths", "col_offsets"}, c \in 0..n-1 : r = <<w, c>>
      BY <2>2
    <3>2. CASE w = "col_widths"
      <4>1. c+4 \in 4..n+3 /\ c+4 \in 1..2*n+4 /\ (c+4)-4 = c
        OBVIOUS
      <4>2. st[c+4] = <<"col_widths", c>>
        BY <4>1, <1>0
      <4>3. QED
        BY <3>1, <3>2, <4>1, <4>2
    <3>3. CASE w = "col_offsets"
      <4>1. c+n+4 \in n+4..2*n+3 /\ c+n+4 \in 1..2*n+4 /\ (c+n+4)-n-4 = c
        OBVIOUS
      <4>2. st[c+n+4] = <<"col_offsets", c>>
        BY <4>1, <1>0
      <4>3. QED
        BY <3>1, <3>3, <4>1, <4>2
    <3>4. QED
      BY <3>1, <3>2, <3>3
  <2>3. QED
    BY <2>1, <2>2
<1>3. Significant(n) \subseteq RegName
  BY DEF RegName
<1>4. QED
  BY <1>0, <1>1, <1>2, <1>3 DEF st

\* Within a turn nothing that depends on it changes ...
LEMMA SameTurn ==
  ASSUME UNCHANGED <<cmd, turn>>
  PROVE  /\ This' = This /\ num_columns' = num_columns /\ width' = width /\ Stores' = Stores
         /\ \A r : RegValue(r)' = RegValue(r)
<1>1. This' = This
  BY DEF This
<1>2. num_columns' = num_columns /\ width' = width
  BY <1>1 DEF num_columns, width
<1>3. Stores' = Stores
  BY <1>1 DEF Stores
<1>4. ASSUME NEW r PROVE RegValue(r)' = RegValue(r)
  <2>1. Distance(r[2])' = Distance(r[2])
    BY <1>1 DEF Distance
  <2>2. QED
    BY <1>1, <1>2, <2>1, Zenon DEF RegValue
<1>5. QED
  BY <1>1, <1>2, <1>3, <1>4

\* ... nor does the wanted table while the store type stays.
LEMMA SameTable ==
  ASSUME UNCHANGED <<cmd, turn, store>>
  PROVE  /\ \A n : Content(n)' = Content(n)
         /\ Table' = Table /\ WantedRow' = WantedRow
<1>0. num_columns' = num_columns /\ width' = width /\ This' = This
         /\ \A r : RegValue(r)' = RegValue(r)
  BY SameTurn
<1>1. ASSUME NEW n PROVE Content(n)' = Content(n)
  BY <1>0 DEF Content
<1>2. Table' = Table
  BY <1>0, <1>1 DEF Table
<1>3. WantedRow' = WantedRow
  BY <1>0, <1>2 DEF WantedRow
<1>5. QED
  BY <1>1, <1>2, <1>3

-----------------------------------------------------------------------------
\* The turn a process is in.
LEMMA ThisFacts ==
  ASSUME PlaceInv, pc # "exec"
  PROVE  /\ This.num_columns \in Nat
         /\ This.offsets \in Seq(Int) /\ Len(This.offsets) \in 0..MaxGroups
         /\ num_columns \in Nat
         /\ Stores = StoresFor(Len(This.offsets))
         /\ Len(Stores) \in Nat
         /\ Rows \in Nat /\ 0..Rows-1 \subseteq Row
<1>1. /\ This.num_columns \in Nat
      /\ This.offsets \in Seq(Int) /\ Len(This.offsets) \in 0..MaxGroups
  BY TurnFacts DEF PlaceInv, This
<1>2. Rows \in Nat /\ 0..Rows-1 \subseteq Row
  BY EdbtAssumption
<1>3. Stores = StoresFor(Len(This.offsets))
  BY Zenon DEF Stores, StoresFor
<1>4. Len(Stores) = 2 * Len(This.offsets) + 4 /\ Len(This.offsets) \in Nat
  <2>1. Len(This.offsets) \in Nat
    BY <1>1
  <2>2. QED
    BY <1>3, <2>1, StoresForFacts
<1>5. QED
  BY <1>1, <1>2, <1>3, <1>4 DEF num_columns

LEMMA InitIInv == Init => IInv
<1> SUFFICES ASSUME Init PROVE IInv
  OBVIOUS
<1> USE DEF Init, RelMemoryInit
<1>1. NoCommand \in Command
  BY EdbtAssumption DEF NoCommand
<1>2. PlaceInv
  BY <1>1 DEF PlaceInv, PCs
<1>3. ShapeInv
  BY DEF ShapeInv, IsRowMap, Nothing
<1>4. CleanInv /\ FlushInv /\ TableInv /\ RegsInv /\ PassInv /\ SampleInv
  BY DEF CleanInv, FlushInv, TableInv, RegsInv, PassInv, SampleInv
<1>5. WindowIsCurrent /\ DramIsCurrent /\ ColdIsCold
  BY DEF WindowIsCurrent, DramIsCurrent, ColdIsCold
<1>6. QED
  BY <1>2, <1>3, <1>4, <1>5 DEF IInv

\* A step leaves the process in some turn of some command.
LEMMA NextPlaceInv == IInv /\ [Next]_vars => PlaceInv'
<1> SUFFICES ASSUME IInv, [Next]_vars PROVE PlaceInv'
  OBVIOUS
<1> USE DEF PlaceInv, PCs
<1>0. PlaceInv
  BY DEF IInv
<1>1. CASE Exec
  <2>1. cmd' \in Command /\ cmd'.store \in {"r", "c"} /\ Len(Turns(cmd')) \in Nat \ {0}
    BY <1>1, CommandFacts, TurnFacts DEF Exec
  <2>2. QED
    BY <1>0, <1>1, <2>1 DEF Exec
<1>2. CASE SetUpSample
  <2>1. store' \in {"r", "c", "b"}
    <3>1. CASE cmd.kind \in {"row_size", "col_size"}
      <4>1. store' = "b"
        BY <1>2, <3>1, Zenon DEF SetUpSample
      <4>2. QED
        BY <4>1
    <3>2. CASE cmd.kind = "projectivity"
      <4>1. store' = "r"
        BY <1>2, <3>2, Zenon DEF SetUpSample
      <4>2. QED
        BY <4>1
    <3>3. CASE cmd.kind = "single"
      <4>1. store' = store
        BY <1>2, <3>3, Zenon DEF SetUpSample
      <4>2. QED
        BY <1>0, <4>1
    <3>4. QED
      BY <1>0, <3>1, <3>2, <3>3, CommandFacts
  <2>2. pc = "setup" /\ pc' = "flush" /\ second' = FALSE /\ UNCHANGED <<cmd, turn, sample, step>>
    BY <1>2 DEF SetUpSample
  <2>3. QED
    BY <1>0, <2>1, <2>2
<1>3. CASE Configured
  <2>1. /\ pc = "config" /\ step' = 0 /\ UNCHANGED <<cmd, turn, sample, second, store>>
        /\ pc' = CASE store = "r" -> "cold" [] store = "c" -> "col" [] store = "b" -> "frame"
    BY <1>3 DEF Configured
  <2>2. pc' \in {"cold", "col", "frame"}
    BY <1>0, <2>1
  <2>3. QED
    BY <1>0, <2>1, <2>2
<1>4. CASE EndPass
  <2>1. /\ pc \in {"cold", "hot", "row", "col"} /\ step' = 0
        /\ UNCHANGED <<cmd, turn, sample, second, store>>
        /\ pc' = CASE pc = "cold" -> "hot" [] pc = "hot" -> "row" [] OTHER -> "frame"
    BY <1>4 DEF EndPass
  <2>2. pc' \in {"hot", "row", "frame"}
    BY <2>1
  <2>3. QED
    BY <1>0, <2>1, <2>2
<1>5. CASE FlushBefore \/ FlushAfter \/ ZeroTable \/ FillColumn \/ Generated
  BY <1>0, <1>5 DEF FlushBefore, FlushAfter, FlushCache, ZeroTable, FillColumn, Generated
<1>6. CASE ConfigReg \/ ScanWindow \/ ScanDram
  BY <1>0, <1>6 DEF ConfigReg, ScanWindow, ScanDram
<1>7. CASE ResetFrame \/ ResetToggle \/ SecondRun
  BY <1>0, <1>7 DEF ResetFrame, ResetToggle, SecondRun
<1>8. CASE NextSample
  <2>1. Len(Turns(cmd)) \in Nat /\ turn \in 1..Len(Turns(cmd)) /\ sample \in Nat \ {0}
    BY <1>0, <1>8, TurnFacts DEF NextSample
  <2>2. /\ \/ sample' = sample + 1 /\ turn' = turn
           \/ sample' = 1 /\ turn' = turn + 1
        /\ turn' <= Len(Turns(cmd)) /\ pc' = "setup" /\ UNCHANGED <<cmd, second, store, step>>
    BY <1>8 DEF NextSample
  <2>3. QED
    BY <1>0, <2>1, <2>2
<1>9. CASE Finish \/ Kill
  <2>1. NoCommand \in Command
    BY EdbtAssumption DEF NoCommand
  <2>2. pc' = "exec" /\ cmd' = NoCommand /\ store' = "r" /\ step' = 0 /\ second' = FALSE
    BY <1>9 DEF Finish, Kill, Gone
  <2>3. QED
    BY <2>1, <2>2
<1>10. CASE MachineStep \/ UNCHANGED vars
  BY <1>0, <1>10 DEF MachineStep, vars, process
<1>11. QED
  BY <1>1, <1>2, <1>3, <1>4, <1>5, <1>6, <1>7, <1>8, <1>9, <1>10 DEF Next, ProcessStep

\* The machine keeps its shape.
LEMMA NextShapeInv == IInv /\ [Next]_vars => ShapeInv'
<1> SUFFICES ASSUME IInv, [Next]_vars PROVE ShapeInv'
  OBVIOUS
<1> USE DEF ShapeInv, IsRowMap
<1>0. ShapeInv
  BY DEF IInv
<1>1. CASE Exec \/ SetUpSample \/ Generated \/ Configured \/ SecondRun \/ NextSample
           \/ UNCHANGED vars
  BY <1>0, <1>1 DEF Exec, SetUpSample, Generated, Configured, SecondRun, NextSample,
     device, vars, process
<1>2. CASE FlushBefore \/ FlushAfter
  BY <1>0, <1>2 DEF FlushBefore, FlushAfter, FlushCache, Nothing
<1>3. ASSUME NEW n, WriteTable(n), UNCHANGED <<dcache, seen>>
      PROVE  ShapeInv'
  <2>1. /\ dram' = [dram EXCEPT ![DBFrame] =
                      [i \in Row |-> IF i < Rows THEN Content(n) ELSE @[i]]]
        /\ UNCHANGED <<regs, reset, packed, cpu, dcache, seen>>
    BY <1>3 DEF WriteTable
  <2>2. dram' = [f \in Frame |-> dram'[f]] /\ \A f \in Frame : IsRowMap(dram'[f])
    BY <1>0, <2>1
  <2>3. QED
    BY <1>0, <2>1, <2>2
<1>4. CASE ZeroTable \/ FillColumn
  BY <1>3, <1>4 DEF ZeroTable, FillColumn
<1>5. CASE ConfigReg \/ ResetFrame
  <2>1. PICK r, v : regs' = [regs EXCEPT ![r] = v]
    BY <1>5 DEF ConfigReg, ResetFrame, StoreReg
  <2>2. UNCHANGED <<dram, reset, packed, cpu, dcache, seen>>
    BY <1>5 DEF ConfigReg, ResetFrame, StoreReg
  <2>3. regs' = [q \in RegName |-> regs'[q]]
    BY <1>0, <2>1
  <2>4. QED
    BY <1>0, <2>2, <2>3
<1>6. CASE ScanWindow
  <2>1. PICK line : /\ LoadCached(step, line) \/ LoadPacked(step, line)
                    /\ seen' = [seen EXCEPT ![step] = {line}]
    BY <1>6 DEF ScanWindow
  <2>2. UNCHANGED dcache
    BY <1>6 DEF ScanWindow
  <2>3. IsRowMap(seen')
    BY <1>0, <2>1
  <2>4. UNCHANGED <<dram, regs, reset>>
    BY <2>1 DEF LoadCached, LoadPacked, device
  <2>5. IsRowMap(packed') /\ IsRowMap(cpu')
    BY <1>0, <2>1 DEF LoadCached, LoadPacked, device
  <2>6. QED
    BY <1>0, <2>2, <2>3, <2>4, <2>5
<1>7. CASE ScanDram
  <2>1. PICK d : dcache' = [dcache EXCEPT ![step] = {d}] /\ seen' = [seen EXCEPT ![step] = {d}]
    BY <1>7 DEF ScanDram
  <2>2. UNCHANGED device
    BY <1>7 DEF ScanDram
  <2>3. QED
    BY <1>0, <2>1, <2>2 DEF device
<1>8. CASE EndPass \/ Finish \/ Kill
  BY <1>0, <1>8 DEF EndPass, Finish, Kill, Gone, Nothing, device
<1>9. CASE ResetToggle
  <2>1. UNCHANGED <<dram, regs, dcache, seen>> /\ reset' = (reset + 1) % 2
    BY <1>9 DEF ResetToggle, StoreReset
  <2>2. reset' \in {0, 1}
    BY <1>0, <2>1
  <2>3. IsRowMap(packed') /\ IsRowMap(cpu')
    BY <1>0, <1>9 DEF ResetToggle, StoreReset, Nothing
  <2>4. QED
    BY <1>0, <2>1, <2>2, <2>3
<1>10. CASE MachineStep
  <2>1. UNCHANGED <<dram, regs, reset, seen>>
    BY <1>10 DEF MachineStep, PackAhead, Evict, EvictDram, device, process
  <2>2. IsRowMap(packed') /\ IsRowMap(cpu') /\ IsRowMap(dcache')
    BY <1>0, <1>10 DEF MachineStep, PackAhead, Evict, EvictDram, device
  <2>3. QED
    BY <1>0, <2>1, <2>2
<1>11. QED
  BY <1>1, <1>2, <1>4, <1>5, <1>6, <1>7, <1>8, <1>9, <1>10 DEF Next, ProcessStep

\* The engine is emptied by the toggle before the process can go on.
LEMMA NextCleanInv == IInv /\ [Next]_vars => CleanInv'
<1> SUFFICES ASSUME IInv, [Next]_vars PROVE CleanInv'
  OBVIOUS
<1> USE DEF CleanInv
<1>0. PlaceInv /\ ShapeInv /\ CleanInv
  BY DEF IInv
<1>1. CASE Exec \/ SetUpSample \/ Generated \/ SecondRun \/ NextSample \/ UNCHANGED vars
  BY <1>0, <1>1 DEF Exec, SetUpSample, Generated, SecondRun, NextSample, device, vars, process
<1>2. CASE FlushBefore \/ FlushAfter
  BY <1>0, <1>2 DEF FlushBefore, FlushAfter, FlushCache
<1>3. CASE ZeroTable \/ FillColumn
  BY <1>0, <1>3 DEF ZeroTable, FillColumn, WriteTable
<1>4. CASE ConfigReg \/ ResetFrame
  BY <1>0, <1>4 DEF ConfigReg, ResetFrame, StoreReg
<1>5. CASE Configured
  <2>1. pc = "config" /\ UNCHANGED <<packed, dirty>>
    BY <1>5 DEF Configured, device
  <2>2. QED
    BY <1>0, <2>1
<1>6. CASE ScanWindow
  BY <1>6 DEF ScanWindow
<1>7. CASE ScanDram
  BY <1>0, <1>7 DEF ScanDram, device
<1>8. CASE EndPass
  <2>1. /\ pc \in {"cold", "hot", "row", "col"}
        /\ pc' = CASE pc = "cold" -> "hot" [] pc = "hot" -> "row" [] OTHER -> "frame"
    BY <1>8 DEF EndPass
  <2>2. pc' \in {"hot", "row", "frame"}
    BY <2>1
  <2>3. QED
    BY <2>2
<1>9. CASE ResetToggle
  <2>1. (reset + 1) % 2 # reset
    BY <1>0 DEF ShapeInv
  <2>2. packed' = Nothing
    BY <1>9, <2>1 DEF ResetToggle, StoreReset
  <2>3. QED
    BY <2>2
<1>10. CASE Finish
  BY <1>0, <1>10 DEF Finish, Gone, device
<1>11. CASE Kill
  BY <1>11 DEF Kill, device
<1>12. CASE MachineStep
  <2>1. UNCHANGED <<pc, dirty>>
    BY <1>12 DEF MachineStep, process
  <2>2. packed = Nothing => packed' = Nothing
    BY <1>12 DEF MachineStep, PackAhead, Evict, EvictDram, device
  <2>3. QED
    BY <1>0, <2>1, <2>2
<1>13. QED
  BY <1>1, <1>2, <1>3, <1>4, <1>5, <1>6, <1>7, <1>8, <1>9, <1>10, <1>11, <1>12
     DEF Next, ProcessStep

\* No copy comes into the caches before the table is read again.
LEMMA NextFlushInv == IInv /\ [Next]_vars => FlushInv'
<1> SUFFICES ASSUME IInv, [Next]_vars PROVE FlushInv'
  OBVIOUS
<1> USE DEF FlushInv
<1>0. PlaceInv /\ ShapeInv /\ FlushInv
  BY DEF IInv
<1>1. CASE Exec \/ SetUpSample \/ ResetFrame \/ ResetToggle \/ FlushAfter \/ SecondRun
           \/ NextSample \/ Finish \/ Kill
  <2>1. pc' \notin {"zero", "fill", "config", "cold", "hot"}
    BY <1>1 DEF Exec, SetUpSample, ResetFrame, ResetToggle, FlushAfter, FlushCache, SecondRun,
       NextSample, Finish, Kill, Gone
  <2>2. QED
    BY <2>1
<1>2. CASE FlushBefore
  BY <1>2 DEF FlushBefore, FlushCache
<1>3. CASE ZeroTable \/ FillColumn \/ Generated
  BY <1>0, <1>3 DEF ZeroTable, FillColumn, Generated, WriteTable, device
<1>4. CASE ConfigReg
  BY <1>0, <1>4 DEF ConfigReg, StoreReg
<1>5. CASE Configured
  <2>1. pc = "config" /\ UNCHANGED <<cpu, dcache>>
    BY <1>5 DEF Configured, device
  <2>2. pc' \in {"cold", "col", "frame"}
    <3>1. pc' = CASE store = "r" -> "cold" [] store = "c" -> "col" [] store = "b" -> "frame"
      BY <1>5 DEF Configured
    <3>2. QED
      BY <1>0, <3>1 DEF PlaceInv
  <2>3. QED
    BY <1>0, <2>1, <2>2
<1>6. CASE ScanWindow
  BY <1>0, <1>6 DEF ScanWindow
<1>7. CASE ScanDram
  BY <1>7 DEF ScanDram
<1>8. CASE EndPass
  <2>1. /\ pc \in {"cold", "hot", "row", "col"} /\ UNCHANGED dcache
        /\ pc' = CASE pc = "cold" -> "hot" [] pc = "hot" -> "row" [] OTHER -> "frame"
    BY <1>8 DEF EndPass
  <2>2. (pc' = "hot" /\ pc = "cold") \/ pc' \in {"row", "frame"}
    BY <2>1
  <2>3. QED
    BY <1>0, <2>1, <2>2
<1>9. CASE MachineStep
  <2>1. UNCHANGED pc
    BY <1>9 DEF MachineStep, process
  <2>2. (cpu = Nothing => cpu' = Nothing) /\ (dcache = Nothing => dcache' = Nothing)
    BY <1>9 DEF MachineStep, PackAhead, Evict, EvictDram, device, Nothing
  <2>3. QED
    BY <1>0, <2>1, <2>2
<1>10. CASE UNCHANGED vars
  BY <1>0, <1>10 DEF vars, device, process
<1>11. QED
  BY <1>1, <1>2, <1>3, <1>4, <1>5, <1>6, <1>7, <1>8, <1>9, <1>10 DEF Next, ProcessStep

\* The table grows column by column and then stays until the passes are over.
LEMMA NextTableInv == IInv /\ [Next]_vars => TableInv'
<1> SUFFICES ASSUME IInv, [Next]_vars PROVE TableInv'
  OBVIOUS
<1> USE DEF TableInv
<1>0. /\ PlaceInv /\ ShapeInv /\ TableInv /\ step \in Nat
      /\ Rows \in Nat /\ 0..Rows-1 \subseteq Row
      /\ pc # "exec" => num_columns \in Nat
  BY ThisFacts, EdbtAssumption DEF IInv, PlaceInv
<1>1. CASE Exec \/ SetUpSample \/ FlushBefore \/ FlushAfter \/ ResetFrame \/ ResetToggle
           \/ SecondRun \/ NextSample \/ Finish \/ Kill
  <2>1. pc' \notin {"fill", "config", "cold", "hot", "row", "col"}
    BY <1>1 DEF Exec, SetUpSample, ResetFrame, ResetToggle, FlushBefore, FlushAfter, FlushCache,
       SecondRun, NextSample, Finish, Kill, Gone
  <2>2. QED
    BY <2>1
<1>2. CASE ZeroTable \/ FillColumn
  <2>1. PICK n \in Nat : /\ WriteTable(n) /\ step' = n /\ n <= num_columns /\ pc' = "fill"
                         /\ UNCHANGED <<cmd, turn, store>>
    <3>1. CASE ZeroTable
      BY <1>0, <3>1 DEF ZeroTable
    <3>2. CASE FillColumn
      <4>1. pc = "fill" /\ step < num_columns /\ WriteTable(step+1) /\ step' = step + 1
            /\ UNCHANGED <<pc, cmd, turn, store>>
        BY <3>2 DEF FillColumn
      <4>2. step + 1 <= num_columns /\ step + 1 \in Nat
        BY <1>0, <4>1
      <4>3. QED
        BY <4>1, <4>2
    <3>3. QED
      BY <1>2, <3>1, <3>2
  <2>2. num_columns' = num_columns /\ Content(n)' = Content(n)
    BY <2>1, SameTurn, SameTable
  <2>3. \A i \in 0..Rows-1 : dram'[DBFrame][i] = Content(n)
    <3>1. dram' = [dram EXCEPT ![DBFrame] =
                      [i \in Row |-> IF i < Rows THEN Content(n) ELSE @[i]]]
      BY <2>1 DEF WriteTable
    <3>2. DBFrame \in Frame
      BY DEF Frame
    <3>3. dram'[DBFrame] = [i \in Row |-> IF i < Rows THEN Content(n) ELSE dram[DBFrame][i]]
      BY <1>0, <3>1, <3>2 DEF ShapeInv
    <3>4. QED
      BY <1>0, <3>3
  <2>4. Content(step)' = Content(n)'
    BY <2>1 DEF Content
  <2>5. QED
    BY <2>1, <2>2, <2>3, <2>4
<1>3. CASE Generated
  <2>1. /\ pc = "fill" /\ step = num_columns /\ pc' = "config"
        /\ UNCHANGED <<dram, cmd, turn, store>>
    BY <1>3 DEF Generated, device
  <2>2. Table' = Table /\ Table = Content(step)
    BY <2>1, SameTable DEF Table
  <2>3. QED
    BY <1>0, <2>1, <2>2
<1>4. CASE ConfigReg \/ Configured \/ ScanWindow \/ ScanDram \/ EndPass
  <2>1. /\ pc \in {"config", "cold", "hot", "row", "col"} /\ UNCHANGED <<dram, cmd, turn, store>>
    BY <1>4 DEF ConfigReg, StoreReg, Configured, ScanWindow, LoadCached, LoadPacked, ScanDram,
       EndPass, device
  <2>2. Table' = Table
    BY <2>1, SameTable
  <2>3. pc' # "fill"
    <3>1. CASE ConfigReg \/ ScanWindow \/ ScanDram
      BY <2>1, <3>1 DEF ConfigReg, ScanWindow, ScanDram
    <3>2. CASE Configured
      <4>1. pc' = CASE store = "r" -> "cold" [] store = "c" -> "col" [] store = "b" -> "frame"
        BY <3>2 DEF Configured
      <4>2. QED
        BY <1>0, <4>1 DEF PlaceInv
    <3>3. CASE EndPass
      <4>1. pc' = CASE pc = "cold" -> "hot" [] pc = "hot" -> "row" [] OTHER -> "frame"
        BY <3>3 DEF EndPass
      <4>2. QED
        BY <4>1
    <3>4. QED
      BY <1>4, <3>1, <3>2, <3>3
  <2>4. QED
    BY <1>0, <2>1, <2>2, <2>3
<1>5. CASE MachineStep \/ UNCHANGED vars
  <2>1. UNCHANGED <<dram, cmd, turn, store, pc, step>>
    BY <1>5 DEF MachineStep, PackAhead, Evict, EvictDram, vars, process, device
  <2>2. Table' = Table /\ num_columns' = num_columns /\ Content(step)' = Content(step)
    BY <2>1, SameTable, SameTurn DEF Content
  <2>3. QED
    BY <1>0, <2>1, <2>2
<1>6. QED
  BY <1>1, <1>2, <1>3, <1>4, <1>5 DEF Next, ProcessStep

\* The registers are stored one by one and then stay until the engine is left.
LEMMA NextRegsInv == IInv /\ [Next]_vars => RegsInv'
<1> SUFFICES ASSUME IInv, [Next]_vars PROVE RegsInv'
  OBVIOUS
<1> USE DEF RegsInv
<1>0. /\ PlaceInv /\ ShapeInv /\ RegsInv /\ step \in Nat
      /\ pc # "exec" => Len(Stores) \in Nat /\ Len(This.offsets) \in 0..MaxGroups
                        /\ Stores = StoresFor(Len(This.offsets))
  BY ThisFacts DEF IInv, PlaceInv
<1>1. CASE Exec \/ SetUpSample \/ FlushBefore \/ FlushAfter \/ ZeroTable \/ FillColumn
           \/ ResetFrame \/ ResetToggle \/ SecondRun \/ NextSample \/ Finish \/ Kill
  <2>1. pc' \notin {"config", "cold", "hot"}
    BY <1>1 DEF Exec, SetUpSample, ZeroTable, FillColumn, ResetFrame, ResetToggle, FlushBefore,
       FlushAfter, FlushCache, SecondRun, NextSample, Finish, Kill, Gone
  <2>2. QED
    BY <2>1
<1>2. CASE Generated
  <2>1. pc = "fill" /\ pc' = "config" /\ step' = 0 /\ UNCHANGED <<cmd, turn>>
    BY <1>2 DEF Generated
  <2>2. Stores' = Stores
    BY <2>1, SameTurn
  <2>3. QED
    BY <1>0, <2>1, <2>2
<1>3. CASE ConfigReg
  <2> DEFINE st == Stores
             n == Len(This.offsets)
             r == st[step+1]
  <2>1. /\ step < Len(st) /\ step' = step + 1 /\ UNCHANGED <<pc, cmd, turn>> /\ pc = "config"
        /\ regs' = [regs EXCEPT ![r] = RegValue(r)]
    BY <1>3 DEF ConfigReg, StoreReg
  <2>2. \A j \in 1..step+1 : st[j] \in RegName
    <3>1. n \in 0..MaxGroups /\ st = StoresFor(n) /\ Len(st) \in Nat
      BY <1>0, <2>1
    <3>2. \A j \in 1..Len(st) : st[j] \in RegName
      BY <3>1, StoresExactly
    <3>3. QED
      BY <1>0, <2>1, <3>1, <3>2
  <2>3. ASSUME NEW j \in 1..step+1 PROVE regs'[st[j]] = RegValue(st[j])
    <3>1. CASE st[j] = r
      BY <1>0, <2>1, <2>2, <3>1 DEF ShapeInv
    <3>2. CASE st[j] # r
      <4>1. j \in 1..step
        BY <1>0, <3>2
      <4>2. QED
        BY <1>0, <2>1, <2>2, <3>2, <4>1 DEF ShapeInv
    <3>3. QED
      BY <3>1, <3>2
  <2>4. step' <= Len(st)
    BY <1>0, <2>1
  <2>5. Stores' = Stores /\ \A q : RegValue(q)' = RegValue(q)
    BY <2>1, SameTurn
  <2>6. QED
    BY <2>1, <2>3, <2>4, <2>5
<1>4. CASE Configured
  <2> DEFINE n == Len(This.offsets)
  <2>1. pc = "config" /\ step = Len(Stores) /\ UNCHANGED <<regs, cmd, turn>> /\ pc' # "config"
    <3>1. pc' = CASE store = "r" -> "cold" [] store = "c" -> "col" [] store = "b" -> "frame"
      BY <1>4 DEF Configured
    <3>2. pc' # "config"
      BY <1>0, <3>1 DEF PlaceInv
    <3>3. QED
      BY <1>4, <3>2 DEF Configured, device
  <2>2. ASSUME NEW r \in Significant(n) PROVE regs[r] = RegValue(r)
    <3>1. n \in 0..MaxGroups /\ Stores = StoresFor(n)
      BY <1>0, <2>1
    <3>2. PICK j \in 1..Len(Stores) : Stores[j] = r
      BY <3>1, StoresExactly
    <3>3. QED
      BY <1>0, <2>1, <3>2
  <2>3. This' = This /\ \A q : RegValue(q)' = RegValue(q)
    BY <2>1, SameTurn
  <2>4. QED
    BY <2>1, <2>2, <2>3
<1>5. CASE ScanWindow \/ ScanDram \/ EndPass \/ MachineStep \/ UNCHANGED vars
  <2>1. UNCHANGED <<regs, cmd, turn>>
    BY <1>5 DEF ScanWindow, LoadCached, LoadPacked, ScanDram, EndPass, MachineStep, PackAhead,
       Evict, EvictDram, vars, process, device
  <2>2. /\ pc' \in {"cold", "hot"} => pc \in {"cold", "hot"}
        /\ pc' = "config" => pc = "config" /\ UNCHANGED step
    <3>1. CASE EndPass
      <4>1. /\ pc \in {"cold", "hot", "row", "col"}
            /\ pc' = CASE pc = "cold" -> "hot" [] pc = "hot" -> "row" [] OTHER -> "frame"
        BY <3>1 DEF EndPass
      <4>2. QED
        BY <4>1
    <3>2. CASE ScanWindow \/ ScanDram \/ MachineStep \/ UNCHANGED vars
      BY <3>2 DEF ScanWindow, ScanDram, MachineStep, vars, process
    <3>3. QED
      BY <1>5, <3>1, <3>2
  <2>3. This' = This /\ Stores' = Stores /\ \A q : RegValue(q)' = RegValue(q)
    BY <2>1, SameTurn
  <2>4. QED
    BY <1>0, <2>1, <2>2, <2>3
<1>6. QED
  BY <1>1, <1>2, <1>3, <1>4, <1>5 DEF Next, ProcessStep

\* While a window is read the engine packs exactly what was configured.
LEMMA PackedIsWanted ==
  ASSUME IInv, pc \in {"cold", "hot"}, NEW i \in 0..Rows-1
  PROVE  PackedRow(i) = WantedRow
<1> DEFINE n == Len(This.offsets)
<1>1. \A r \in Significant(n) : regs[r] = RegValue(r)
  BY DEF IInv, RegsInv
<1>2. EnabledColNum \in Significant(n) /\ FrameOffset \in Significant(n)
  BY DEF EnabledColNum, FrameOffset, Significant, ScalarRegs
<1>3. RegValue(EnabledColNum) = n
  BY Zenon DEF RegValue, EnabledColNum
<1>4. RegValue(FrameOffset) = DBFrame
  BY Zenon DEF RegValue, FrameOffset
<1>5. regs[EnabledColNum] = n /\ regs[FrameOffset] = DBFrame
  BY <1>1, <1>2, <1>3, <1>4
<1>6. Image(regs, n) = [r \in RegName |-> IF r \in Significant(n) THEN RegValue(r) ELSE 0]
  BY <1>1 DEF Image
<1>7. dram[DBFrame][i] = Table
  BY DEF IInv, TableInv
<1>8. QED
  BY <1>5, <1>6, <1>7 DEF PackedRow, WantedRow

\* The passes read what was configured and generated, and leave it so.
ReadsInv == PassInv /\ WindowIsCurrent /\ DramIsCurrent /\ ColdIsCold

LEMMA NextReadsInv == IInv /\ [Next]_vars => ReadsInv'
<1> SUFFICES ASSUME IInv, [Next]_vars PROVE ReadsInv'
  OBVIOUS
<1> USE DEF ReadsInv
<1>0. /\ PlaceInv /\ ShapeInv /\ CleanInv /\ FlushInv /\ TableInv
      /\ PassInv /\ WindowIsCurrent /\ DramIsCurrent /\ ColdIsCold
      /\ step \in Nat /\ Rows \in Nat /\ 0..Rows-1 \subseteq Row
  BY EdbtAssumption DEF IInv, PlaceInv
<1>1. CASE Exec \/ SetUpSample \/ FlushBefore \/ FlushAfter \/ ZeroTable \/ FillColumn
           \/ Generated \/ ConfigReg \/ ResetFrame \/ ResetToggle \/ SecondRun \/ NextSample
           \/ Finish \/ Kill
  <2>1. pc' \notin {"cold", "hot", "row", "col"}
    BY <1>1 DEF Exec, SetUpSample, ZeroTable, FillColumn, Generated, ConfigReg, ResetFrame,
       ResetToggle, FlushBefore, FlushAfter, FlushCache, SecondRun, NextSample, Finish, Kill,
       Gone
  <2>2. QED
    BY <2>1 DEF PassInv, WindowIsCurrent, DramIsCurrent, ColdIsCold
<1>2. CASE Configured
  <2>1. /\ pc = "config" /\ step' = 0 /\ UNCHANGED <<packed, cpu, dcache, dirty>>
    BY <1>2 DEF Configured, device
  <2>2. cpu = Nothing /\ dcache = Nothing /\ (~dirty => packed = Nothing)
    BY <1>0, <2>1 DEF CleanInv, FlushInv
  <2>3. \A i \in 0..Rows-1 : cpu'[i] = {} /\ dcache'[i] = {} /\ (~dirty' => packed'[i] = {})
    BY <1>0, <2>1, <2>2 DEF Nothing
  <2>4. QED
    BY <1>0, <2>1, <2>3 DEF PassInv, WindowIsCurrent, DramIsCurrent, ColdIsCold
<1>3. CASE ScanWindow
  <2>1. /\ pc \in {"cold", "hot"} /\ step \in 0..Rows-1 /\ step' = step + 1
        /\ UNCHANGED <<pc, cmd, turn, store, dirty, dcache>>
    BY <1>0, <1>3 DEF ScanWindow
  <2>2. PICK line : /\ LoadCached(step, line) \/ LoadPacked(step, line)
                    /\ seen' = [seen EXCEPT ![step] = {line}]
    BY <1>3 DEF ScanWindow
  <2>3. WantedRow' = WantedRow /\ Table' = Table
    BY <2>1, SameTable
  <2>4. ~dirty => line = WantedRow
    <3>1. PackedRow(step) = WantedRow
      BY <2>1, PackedIsWanted
    <3>2. ~dirty => cpu[step] \subseteq {WantedRow} /\ packed[step] \subseteq {WantedRow}
      BY <1>0, <2>1 DEF PassInv
    <3>3. QED
      BY <2>2, <3>1, <3>2 DEF LoadCached, LoadPacked
  <2>5. \A i \in 0..Rows-1 :
          /\ i = step \/ (cpu'[i] = cpu[i] /\ packed'[i] = packed[i])
          /\ cpu'[i] = cpu[i] \/ cpu'[i] = {line}
          /\ packed'[i] = packed[i] \/ packed'[i] = {line}
    BY <1>0, <2>2 DEF ShapeInv, IsRowMap, LoadCached, LoadPacked, device
  <2>6. PassInv'
    BY <1>0, <2>1, <2>3, <2>4, <2>5 DEF PassInv
  <2>7. WindowIsCurrent'
    <3>1. ASSUME ~dirty, NEW i \in 0..step PROVE seen'[i] = {WantedRow}
      <4>1. i \in Row /\ step \in Row
        BY <1>0, <2>1
      <4>2. CASE i = step
        BY <1>0, <2>2, <2>4, <3>1, <4>1, <4>2 DEF ShapeInv, IsRowMap
      <4>3. CASE i # step
        <5>1. i \in 0..step-1
          BY <1>0, <4>3
        <5>2. seen'[i] = seen[i]
          BY <1>0, <2>2, <4>1, <4>3 DEF ShapeInv, IsRowMap
        <5>3. QED
          BY <1>0, <2>1, <3>1, <5>1, <5>2 DEF WindowIsCurrent
      <4>4. QED
        BY <4>2, <4>3
    <3>2. step' - 1 = step
      BY <1>0, <2>1
    <3>3. QED
      BY <2>1, <2>3, <3>1, <3>2 DEF WindowIsCurrent
  <2>8. ColdIsCold'
    BY <1>0, <2>1, <2>5 DEF ColdIsCold
  <2>9. DramIsCurrent'
    BY <2>1 DEF DramIsCurrent
  <2>10. QED
    BY <2>6, <2>7, <2>8, <2>9
<1>4. CASE ScanDram
  <2>1. /\ pc \in {"row", "col"} /\ step \in 0..Rows-1 /\ step' = step + 1
        /\ UNCHANGED <<pc, cmd, turn, store>>
    BY <1>0, <1>4 DEF ScanDram
  <2>2. PICK d \in IF dcache[step] = {} THEN {dram[DBFrame][step]} ELSE dcache[step] :
          dcache' = [dcache EXCEPT ![step] = {d}] /\ seen' = [seen EXCEPT ![step] = {d}]
    BY <1>4 DEF ScanDram
  <2>3. Table' = Table
    BY <2>1, SameTable
  <2>4. d = Table
    BY <1>0, <2>1, <2>2 DEF PassInv, TableInv
  <2>5. PassInv'
    <3>1. \A i \in 0..Rows-1 : dcache'[i] = dcache[i] \/ dcache'[i] = {Table}
      BY <1>0, <2>1, <2>2, <2>4 DEF ShapeInv, IsRowMap
    <3>2. pc' \in {"row", "col"} /\ step' <= Rows
      BY <1>0, <2>1
    <3>3. QED
      BY <1>0, <2>1, <2>3, <3>1, <3>2 DEF PassInv
  <2>6. DramIsCurrent'
    <3>1. ASSUME NEW i \in 0..step PROVE seen'[i] = {Table}
      <4>1. i \in Row /\ step \in Row
        BY <1>0, <2>1
      <4>2. CASE i = step
        BY <1>0, <2>2, <2>4, <4>1, <4>2 DEF ShapeInv, IsRowMap
      <4>3. CASE i # step
        <5>1. i \in 0..step-1
          BY <1>0, <4>3
        <5>2. seen'[i] = seen[i]
          BY <1>0, <2>2, <4>1, <4>3 DEF ShapeInv, IsRowMap
        <5>3. QED
          BY <1>0, <2>1, <5>1, <5>2 DEF DramIsCurrent
      <4>4. QED
        BY <4>2, <4>3
    <3>2. step' - 1 = step
      BY <1>0, <2>1
    <3>3. QED
      BY <2>1, <2>3, <3>1, <3>2 DEF DramIsCurrent
  <2>7. QED
    BY <2>1, <2>5, <2>6 DEF WindowIsCurrent, ColdIsCold
<1>5. CASE EndPass
  <2>1. /\ pc \in {"cold", "hot", "row", "col"} /\ step' = 0
        /\ UNCHANGED <<packed, cpu, dcache, cmd, turn, store, dirty>>
        /\ pc' = CASE pc = "cold" -> "hot" [] pc = "hot" -> "row" [] OTHER -> "frame"
    BY <1>5 DEF EndPass, device
  <2>2. \/ pc = "cold" /\ pc' = "hot"
        \/ pc = "hot" /\ pc' = "row"
        \/ pc' = "frame"
    BY <2>1
  <2>3. WantedRow' = WantedRow /\ Table' = Table
    BY <2>1, SameTable
  <2>4. pc = "hot" => \A i \in 0..Rows-1 : dcache[i] = {}
    BY <1>0 DEF FlushInv, Nothing
  <2>5. PassInv'
    BY <1>0, <2>1, <2>2, <2>3, <2>4 DEF PassInv
  <2>6. QED
    BY <2>1, <2>2, <2>5 DEF WindowIsCurrent, DramIsCurrent, ColdIsCold
<1>6. CASE MachineStep
  <2>1. UNCHANGED <<pc, cmd, turn, store, step, seen, dirty>>
    BY <1>6 DEF MachineStep, process
  <2>2. WantedRow' = WantedRow /\ Table' = Table
    BY <2>1, SameTable
  <2>3. WindowIsCurrent' /\ DramIsCurrent'
    BY <1>0, <2>1, <2>2 DEF WindowIsCurrent, DramIsCurrent
  <2>4. PICK k \in Row : \/ (PackAhead(k) \/ Evict(k)) /\ UNCHANGED dcache
                         \/ EvictDram(k)
    BY <1>6 DEF MachineStep
  <2>5. pc \in {"cold", "hot"} /\ k \in 0..Rows-1 => PackedRow(k) = WantedRow
    BY PackedIsWanted
  <2>6. \A i \in 0..Rows-1 :
          /\ cpu'[i] \subseteq cpu[i] /\ dcache'[i] \subseteq dcache[i]
          /\ packed'[i] = packed[i] \/ (i = k /\ packed'[i] = {PackedRow(k)})
    <3>0. IsRowMap(packed) /\ IsRowMap(cpu) /\ IsRowMap(dcache)
      BY <1>0 DEF ShapeInv
    <3>1. CASE PackAhead(k) /\ UNCHANGED dcache
      BY <1>0, <3>0, <3>1 DEF IsRowMap, PackAhead
    <3>2. CASE Evict(k) /\ UNCHANGED dcache
      BY <1>0, <3>0, <3>2 DEF IsRowMap, Evict
    <3>3. CASE EvictDram(k)
      BY <1>0, <3>0, <3>3 DEF IsRowMap, EvictDram, device
    <3>4. QED
      BY <2>4, <3>1, <3>2, <3>3
  <2>7. PassInv'
    BY <1>0, <2>1, <2>2, <2>5, <2>6 DEF PassInv
  <2>8. ColdIsCold'
    BY <1>0, <2>1, <2>6 DEF ColdIsCold
  <2>9. QED
    BY <2>3, <2>7, <2>8
<1>7. CASE UNCHANGED vars
  <2>1. UNCHANGED <<pc, cmd, turn, store, step, seen, dirty, packed, cpu, dcache>>
    BY <1>7 DEF vars, process, device
  <2>2. WantedRow' = WantedRow /\ Table' = Table
    BY <2>1, SameTable
  <2>3. QED
    BY <1>0, <2>1, <2>2 DEF PassInv, WindowIsCurrent, DramIsCurrent, ColdIsCold
<1>8. QED
  BY <1>1, <1>2, <1>3, <1>4, <1>5, <1>6, <1>7 DEF Next, ProcessStep

\* What a sample has measured: the row store in its first run, the column
\* store in its second.
LEMMA NextSampleInv == IInv /\ [Next]_vars => SampleInv'
<1> SUFFICES ASSUME IInv, [Next]_vars PROVE SampleInv'
  OBVIOUS
<1> USE DEF SampleInv, StartsWithRows, RowLines, RunOver
<1>0. PlaceInv /\ SampleInv /\ cmd \in Command
  BY DEF IInv, PlaceInv
<1>1. CASE Exec
  BY <1>1 DEF Exec
<1>2. CASE SetUpSample
  <2>1. /\ pc = "setup" /\ pc' = "flush" /\ second' = FALSE
        /\ measured' = {} /\ UNCHANGED <<cmd, sample>>
    BY <1>2 DEF SetUpSample
  <2>2. cmd.kind = "projectivity" => store' = "r"
    BY <1>2, Zenon DEF SetUpSample
  <2>3. cmd.kind = "single" => store' = store
    BY <1>2, Zenon DEF SetUpSample
  <2>4. cmd.kind \in {"row_size", "col_size"} => store' = "b"
    BY <1>2, Zenon DEF SetUpSample
  <2>5. cmd.kind \in {"row_size", "col_size", "projectivity", "single"} /\ cmd.store \in {"r", "c"}
    BY <1>0, CommandFacts
  <2>6. store' = "r" <=> StartsWithRows
    BY <1>0, <2>1, <2>2, <2>3, <2>4, <2>5
  <2>7. QED
    BY <2>1, <2>6
<1>3. CASE FlushBefore \/ ZeroTable \/ FillColumn \/ Generated \/ ConfigReg
  <2>1. /\ pc \in {"flush", "zero", "fill", "config"} /\ pc' \in {"zero", "fill", "config"}
        /\ UNCHANGED <<cmd, sample, second, store, measured>>
    BY <1>3 DEF FlushBefore, FlushCache, ZeroTable, FillColumn, Generated, ConfigReg
  <2>2. QED
    BY <1>0, <2>1
<1>4. CASE Configured
  <2>1. /\ pc = "config" /\ UNCHANGED <<cmd, sample, second, store, measured>>
        /\ pc' = CASE store = "r" -> "cold" [] store = "c" -> "col" [] store = "b" -> "frame"
    BY <1>4 DEF Configured
  <2>2. /\ store = "r" => pc' = "cold"
        /\ store = "c" => pc' = "col"
        /\ store = "b" => pc' = "frame"
        /\ store \in {"r", "c", "b"}
    BY <1>0, <2>1 DEF PlaceInv
  <2>3. QED
    BY <1>0, <2>1, <2>2
<1>5. CASE ScanWindow \/ ScanDram \/ MachineStep \/ UNCHANGED vars
  <2>1. UNCHANGED <<pc, cmd, sample, second, store, measured>>
    BY <1>5 DEF ScanWindow, ScanDram, MachineStep, vars, process
  <2>2. QED
    BY <1>0, <2>1
<1>6. CASE EndPass
  <2>1. /\ pc \in {"cold", "hot", "row", "col"} /\ measured' = measured \cup {pc}
        /\ UNCHANGED <<cmd, sample, second, store>>
        /\ pc' = CASE pc = "cold" -> "hot" [] pc = "hot" -> "row" [] OTHER -> "frame"
    BY <1>6 DEF EndPass
  <2>2. \/ pc = "cold" /\ pc' = "hot"
        \/ pc = "hot" /\ pc' = "row"
        \/ pc \in {"row", "col"} /\ pc' = "frame"
    BY <2>1
  <2>3. QED
    BY <1>0, <2>1, <2>2
<1>7. CASE ResetFrame \/ ResetToggle \/ FlushAfter
  <2>1. /\ pc \in {"frame", "toggle", "flush2"} /\ pc' \in {"toggle", "flush2", "ran"}
        /\ UNCHANGED <<cmd, sample, second, store, measured>>
    BY <1>7 DEF ResetFrame, ResetToggle, FlushAfter, FlushCache
  <2>2. QED
    BY <1>0, <2>1
<1>8. CASE SecondRun
  <2>1. /\ pc = "ran" /\ ~second /\ pc' = "flush" /\ second' /\ store' = "c"
        /\ UNCHANGED <<cmd, sample, measured>>
    BY <1>8 DEF SecondRun
  <2>2. QED
    BY <1>0, <2>1
<1>9. CASE NextSample
  <2>1. pc = "ran" /\ second /\ pc' = "setup" /\ cmd' = cmd /\ store' = store
    BY <1>9 DEF NextSample
  <2>2. ASSUME cmd.kind = "single" PROVE sample' # 1
    <3>1. turn \in 1..Len(Turns(cmd)) /\ sample \in Nat \ {0}
      BY <1>0, <2>1 DEF PlaceInv
    <3>2. turn = 1 /\ Len(Turns(cmd)) = 1
      <4>1. Len(Turns(cmd)) = 1
        BY <1>0, <2>2, TurnFacts, Zenon
      <4>2. QED
        BY <3>1, <4>1
    <3>3. /\ \/ sample' = sample + 1 /\ turn' = turn
             \/ sample' = 1 /\ turn' = turn + 1
          /\ turn' <= Len(Turns(cmd))
      BY <1>9 DEF NextSample
    <3>4. CASE sample' = sample + 1
      BY <3>1, <3>4
    <3>5. CASE turn' = turn + 1
      BY <3>1, <3>2, <3>3, <3>5
    <3>6. QED
      BY <3>3, <3>4, <3>5
  <2>3. QED
    BY <1>0, <2>1, <2>2
<1>10. CASE Finish \/ Kill
  <2>1. pc' = "exec"
    BY <1>10 DEF Finish, Kill, Gone
  <2>2. QED
    BY <2>1
<1>11. QED
  BY <1>1, <1>2, <1>3, <1>4, <1>5, <1>6, <1>7, <1>8, <1>9, <1>10 DEF Next, ProcessStep

-----------------------------------------------------------------------------
\* IInv is inductive.
THEOREM Invariance == Spec => []IInv
<1>1. IInv /\ [Next]_vars => IInv'
  BY NextPlaceInv, NextShapeInv, NextCleanInv, NextFlushInv, NextTableInv, NextRegsInv,
     NextReadsInv, NextSampleInv DEF IInv, ReadsInv
<1>2. QED
  BY InitIInv, <1>1, PTL DEF Spec

\* Every row a cold or hot pass reads was packed under the registers this run
\* stored, from the table this run generated, unless a killed process has left
\* rows in the engine: for every sequence of experiments and samples.
THEOREM WindowCurrent == Spec => []WindowIsCurrent
<1>1. IInv => WindowIsCurrent
  BY DEF IInv
<1>2. QED
  BY Invariance, <1>1, PTL

\* The row and column passes read the table this run generated, whoever was
\* killed before, although no cache is told of the table being written.
THEOREM DramCurrent == Spec => []DramIsCurrent
<1>1. IInv => DramIsCurrent
  BY DEF IInv
<1>2. QED
  BY Invariance, <1>1, PTL

\* A cold pass finds none of its rows in the CPU cache.
THEOREM ColdRunsCold == Spec => []ColdIsCold
<1>1. IInv => ColdIsCold
  BY DEF IInv
<1>2. QED
  BY Invariance, <1>1, PTL

\* A sample of projectivity_exp, and the first of run_single_query over a row
\* store, measures both stores; every other sample measures the column store
\* only (experiments.c, demo.c).
THEOREM SamplesMeasured == Spec => []SamplesMeasureTheirStores
<1>1. IInv => SamplesMeasureTheirStores
  BY DEF IInv, SampleInv, SamplesMeasureTheirStores, RowLines, RunOver
<1>2. QED
  BY Invariance, <1>1, PTL

=============================================================================
