------------------------------ MODULE VldbQuery ------------------------------
(***************************************************************************)
(* vldb2023/query.c as a sequence of processes on one machine: each is     *)
(* started with one command line, populates its table, configures and      *)
(* resets the engine when its store is RME, scans, and resets the engine   *)
(* again before it exits.  A JOIN does the first part twice, for S and     *)
(* then for R.  A process may be killed between any two of its steps; the  *)
(* next one finds the device as it was left.                               *)
(*                                                                         *)
(* A request is a command line that parse_args accepted.  The values of    *)
(* the columns are not modelled: a DRAM row is named by the table that     *)
(* populated it and by the layout it was written in.                       *)
(***************************************************************************)
EXTENDS RelMemory, StoreLayout

CONSTANT Request   \* the command lines

Layout == {"row", "column"}
Blank  == [table |-> [rows |-> 0, widths |-> <<>>], layout |-> "row"]
TableOf(a, sd) == IF sd = "s" THEN a.s ELSE a.r
Tables == {TableOf(a, sd) : a \in Request, sd \in {"s", "r"}}
Data   == [table : Tables, layout : Layout] \cup {Blank}

\* The columns the registers describe: cols[c].col, col, or SEL_COL, JOIN_COL.
ColsOf(a, sd) == IF sd = "s" THEN a.cols ELSE a.rcols
Sides(a)      == IF a.query = "JOIN" THEN {"s", "r"} ELSE {"s"}

VARIABLES
  pc,      \* where the process is
  args,    \* its command line
  side,    \* the table it works on: "s", or "r" in the second half of a JOIN
  step,    \* rows stored, registers stored or turns of the scan so far
  seen     \* [Row -> what that turn of the scan read, as a set of at most 1]

process == <<pc, args, side, step, seen>>
vars == <<device, process>>

Table == TableOf(args, side)
FrameOf(sd)   == IF sd = "s" THEN DBFrame ELSE DB2Frame

\* The value db_config and db2_config give to register r for side sd of
\* request a: for AVRG and SLCT an offset is the distance from the column
\* before it, for JOIN it is the distance from the start of the row.
RegValue(a, sd, r) ==
  LET t    == TableOf(a, sd)
      cols == ColsOf(a, sd)
  IN  CASE r[1] = "row_size"        -> row_size(t)
        [] r[1] = "row_count"       -> t.rows
        [] r[1] = "enabled_col_num" -> Len(cols)
        [] r[1] = "frame_offset"    -> DBFrame
        [] r[1] = "col_widths"      -> t.widths[cols[r[2]+1] + 1]
        [] r[1] = "col_offsets"     -> IF a.query = "JOIN"
                                         THEN FromStart(t, cols)[r[2]+1]
                                         ELSE Distances(t, cols)[r[2]+1]

\* The registers of the columns in the order they are stored: offset and
\* width column by column, except for S of a JOIN, widths first.
ColumnStores(a, sd) ==
  LET n == Len(ColsOf(a, sd))
  IN  IF a.query = "JOIN" /\ sd = "s"
        THEN [j \in 1..2*n |->
                IF j <= n THEN <<"col_widths", j-1>> ELSE <<"col_offsets", j-n-1>>]
        ELSE [j \in 1..2*n |->
                IF j % 2 = 1 THEN <<"col_offsets", (j-1) \div 2>>
                             ELSE <<"col_widths", (j-1) \div 2>>]

\* Every register store of db_config or db2_config, in order.
Stores(a, sd) ==
  LET n == Len(ColsOf(a, sd))
      scalars == <<<<"row_size", 0>>, <<"row_count", 0>>, EnabledColNum>>
  IN  [j \in 1..2*n+4 |-> IF j <= 3 THEN scalars[j]
                          ELSE IF j = 2*n+4 THEN FrameOffset
                          ELSE ColumnStores(a, sd)[j-3]]

\* What parse_args lets through, with as many rows as the model has room for.
\* That register values are naturals is a fact of every request, assumed
\* because a sum over the widths of a row is an induction.
ASSUME VldbAssumption ==
  /\ Request # {}
  /\ \A a \in Request :
       /\ a.store \in {"ROW", "COL", "RME"}
       /\ a.query \in {"AVRG", "SLCT", "JOIN"}
       /\ \A sd \in Sides(a) :
            /\ TableOf(a, sd).rows \in Nat
            /\ 0..TableOf(a, sd).rows-1 \subseteq Row
            /\ Len(ColsOf(a, sd)) \in 1..MaxGroups
            /\ \A r \in Significant(Len(ColsOf(a, sd))) : RegValue(a, sd, r) \in Nat

-----------------------------------------------------------------------------
\* No process runs: what its variables held is gone.
NoArgs == CHOOSE a \in Request : TRUE

Init ==
  /\ RelMemoryInit(Blank)
  /\ pc = "exec"
  /\ args = NoArgs
  /\ side = "s"
  /\ step = 0
  /\ seen = Nothing

Gone ==
  /\ pc' = "exec"
  /\ args' = NoArgs
  /\ side' = "s"
  /\ step' = 0
  /\ seen' = Nothing

\* main: a new process parses its command line and maps the table's DRAM.
Exec ==
  /\ pc = "exec"
  /\ args' \in Request
  /\ pc' = "populate"
  /\ side' = "s"
  /\ step' = 0
  /\ UNCHANGED <<device, seen>>

\* db_populate_row, db_populate_col: one more row of the table is written.
Content ==
  [table |-> Table, layout |-> IF args.store = "COL" THEN "column" ELSE "row"]

\* Broken variant of PopulateRow: R is written over S.
Mut_PopulateRow ==
  /\ pc = "populate"
  /\ step < Table.rows
  /\ StoreRow(DBFrame, step, Content)
  /\ step' = step + 1
  /\ UNCHANGED <<pc, args, side, seen>>

PopulateRow ==
  /\ pc = "populate"
  /\ step < Table.rows
  /\ StoreRow(FrameOf(side), step, Content)
  /\ step' = step + 1
  /\ UNCHANGED <<pc, args, side, seen>>

\* db_init, db2_init: populated; only the RME store configures the engine.
Populated ==
  /\ pc = "populate"
  /\ step = Table.rows
  /\ pc' = IF args.store = "RME" THEN "config" ELSE "scan"
  /\ step' = 0
  /\ UNCHANGED <<device, args, side, seen>>

\* db_config, db2_config: the next register store.
ConfigReg ==
  /\ pc = "config"
  /\ step < Len(Stores(args, side))
  /\ LET r == Stores(args, side)[step+1] IN StoreReg(r, RegValue(args, side, r))
  /\ step' = step + 1
  /\ UNCHANGED <<pc, args, side, seen>>

\* db_reset, first half: frame_offset.
ResetFrame(from, frame, to) ==
  /\ pc = from
  /\ StoreReg(FrameOffset, frame)
  /\ pc' = to
  /\ step' = 0
  /\ UNCHANGED <<args, side, seen>>

\* db_reset, second half: the reset register.
ResetToggle(from, to) ==
  /\ pc = from
  /\ StoreReset((reset + 1) % 2)
  /\ IF to = "exec" THEN Gone
     ELSE pc' = to /\ UNCHANGED <<args, side, step, seen>>

\* Broken variants of the two halves of that reset: the frame of S for R as
\* well, and a store to `reset` that leaves it as it is.
Mut_ConfigResetFrame ==
  /\ step = Len(Stores(args, side))
  /\ ResetFrame("config", DBFrame, "toggle")
Mut_ConfigResetToggle ==
  /\ pc = "toggle"
  /\ StoreReset(reset)
  /\ pc' = "scan" /\ UNCHANGED <<args, side, step, seen>>

\* The db_reset at the end of db_config and of db2_config.
ConfigResetFrame ==
  /\ step = Len(Stores(args, side))
  /\ ResetFrame("config", FrameOf(side), "toggle")
ConfigResetToggle == ResetToggle("toggle", "scan")

\* The row a turn reads: join_rme's loop over R never moves its pointer.
RowRead == IF args.query = "JOIN" /\ side = "r" THEN 0 ELSE step

\* avg_rme, slct_rme, join_rme: the next turn reads its row of the window.
ScanWindow ==
  /\ pc = "scan" /\ args.store = "RME"
  /\ step < Table.rows
  /\ \E line \in cpu[RowRead] \cup packed[RowRead] \cup {PackedRow(RowRead)} :
       /\ LoadCached(RowRead, line) \/ LoadPacked(RowRead, line)
       /\ seen' = [seen EXCEPT ![step] = {line}]
  /\ step' = step + 1
  /\ UNCHANGED <<pc, args, side>>

\* The row and column scans read the (uncached) DRAM mapping itself.
ScanDram ==
  /\ pc = "scan" /\ args.store # "RME"
  /\ step < Table.rows
  /\ seen' = [seen EXCEPT ![step] = {dram[FrameOf(side)][step]}]
  /\ step' = step + 1
  /\ UNCHANGED <<device, pc, args, side>>

\* join_row, join_col, join_rme: S is hashed, db2_init starts on R.
SecondTable ==
  /\ pc = "scan" /\ step = Table.rows
  /\ args.query = "JOIN" /\ side = "s"
  /\ pc' = "populate"
  /\ side' = "r"
  /\ step' = 0
  /\ seen' = Nothing
  /\ UNCHANGED <<device, args>>

\* main: the query is answered; only the RME store resets the engine.
Answered ==
  /\ pc = "scan" /\ step = Table.rows
  /\ args.query # "JOIN" \/ side = "r"
  /\ IF args.store = "RME"
       THEN pc' = "end" /\ seen' = Nothing /\ UNCHANGED <<args, side, step>>
       ELSE Gone
  /\ UNCHANGED device

\* main: db_reset(0), and for a JOIN db_reset(0x40000000) after it.
EndResetFrame  == ResetFrame("end", DBFrame, "endToggle")
EndResetToggle == ResetToggle("endToggle", IF args.query = "JOIN" THEN "end2" ELSE "exec")
EndResetFrame2  == ResetFrame("end2", DB2Frame, "endToggle2")
EndResetToggle2 == ResetToggle("endToggle2", "exec")

\* The process is killed, or exits because a mapping failed.
Kill ==
  /\ pc # "exec"
  /\ Gone
  /\ UNCHANGED device

ProcessStep ==
  \/ Exec \/ PopulateRow \/ Populated
  \/ ConfigReg \/ ConfigResetFrame \/ ConfigResetToggle
  \/ ScanWindow \/ ScanDram \/ SecondTable \/ Answered
  \/ EndResetFrame \/ EndResetToggle \/ EndResetFrame2 \/ EndResetToggle2

MachineStep == \E i \in Row : (PackAhead(i) \/ Evict(i)) /\ UNCHANGED process

Next == ProcessStep \/ Kill \/ MachineStep

Spec == Init /\ [][Next]_vars

-----------------------------------------------------------------------------
\* The registers the scan of side sd of request a is entitled to, and the
\* row the window should then hold at position i.
WantedImage(a, sd) ==
  [r \in RegName |->
     IF r \notin Significant(Len(ColsOf(a, sd))) THEN 0
     ELSE IF r = FrameOffset THEN FrameOf(sd) ELSE RegValue(a, sd, r)]

WantedRow == [image |-> WantedImage(args, side),
              data  |-> [table |-> Table, layout |-> "row"]]

PCs == {"exec", "populate", "config", "toggle", "scan",
        "end", "endToggle", "end2", "endToggle2"}

Scanning == pc = "scan" /\ args.store = "RME"

\* Types of the state.
Line == [image : [RegName -> Nat], data : Data]

TypeOK ==
  /\ coherent \in BOOLEAN
  /\ dram \in [Frame -> [Row -> Data]]
  /\ regs \in [RegName -> Nat]
  /\ reset \in {0, 1}
  /\ regs[EnabledColNum] \in 0..MaxGroups
  /\ regs[FrameOffset] \in Frame
  /\ packed \in [Row -> SUBSET Line]
  /\ cpu \in [Row -> SUBSET Line]
  /\ seen \in [Row -> SUBSET (Line \cup Data)]
  /\ warm \subseteq Row
  /\ pc \in PCs
  /\ args \in Request
  /\ side \in {"s", "r"}
  /\ step \in Nat

\* While a query scans the window the engine holds no row but those of this
\* query's columns of this query's table: neither what an earlier process
\* left behind, killed or not, nor what was packed for the other table of a
\* JOIN (query.c db_config, db2_config, db_reset and the order main calls
\* them in).
EngineIsCurrent ==
  Scanning => \A i \in 0..Table.rows-1 : packed[i] \subseteq {WantedRow}

\* If a reset reaches the CPU caches, every row a query reads from the
\* window is the projection it configured, of the table it populated
\* (query.c maps the window MAP_CACHE and never flushes).
ReadsAreCurrent ==
  coherent /\ Scanning => \A i \in 0..step-1 : seen[i] = {WantedRow}

\* If it does not, the only rows that can be wrong are those the CPU copied
\* before the last reset and kept until the scan.
StaleOnlyFromOldCopies ==
  [][Scanning /\ step' = step + 1 /\ seen'[step] # {WantedRow}
       => cpu[RowRead] # {} /\ RowRead \notin warm]_vars

\* A scan of DRAM, by the CPU or by the engine, meets the table this process populated,
\* in the layout of its store, whatever earlier processes left there.
DramIsCurrent ==
  pc = "scan" => \A i \in 0..Table.rows-1 :
    dram[FrameOf(side)][i] =
      [table |-> Table, layout |-> IF args.store = "COL" THEN "column" ELSE "row"]

-----------------------------------------------------------------------------
(***************************************************************************)
(* The inductive invariant behind EngineIsCurrent and ReadsAreCurrent: the *)
(* DRAM and the registers are right as far as the process has come, and    *)
(* from the reset on they are right entirely and no longer change, so what *)
(* the engine packs and the CPU copies from there on is right too.         *)
(***************************************************************************)
\* Rows of this side already populated.
Filled == IF pc = "populate" THEN step ELSE Table.rows

DramInv ==
  pc \in {"populate", "config", "toggle", "scan"} =>
    /\ Filled <= Table.rows
    /\ \A i \in 0..Filled-1 : dram[FrameOf(side)][i] = Content

RegsInv ==
  /\ pc = "config" =>
       /\ step <= Len(Stores(args, side))
       /\ \A j \in 1..step :
            regs[Stores(args, side)[j]] = RegValue(args, side, Stores(args, side)[j])
  /\ pc = "toggle" \/ Scanning =>
       \A r \in Significant(Len(ColsOf(args, side))) : regs[r] = WantedImage(args, side)[r]

WarmInv ==
  /\ warm \subseteq {i \in Row : cpu[i] # {}}
  /\ coherent => \A i \in Row : cpu[i] # {} => i \in warm
  /\ Scanning => \A i \in 0..Table.rows-1 : i \in warm => cpu[i] \subseteq {WantedRow}

SideInv ==
  /\ side \in Sides(args)
  /\ pc \in {"config", "toggle"} => args.store = "RME"
  /\ pc = "toggle" => step = 0
  /\ pc = "scan" => step <= Table.rows

IInv ==
  /\ TypeOK /\ SideInv /\ DramInv /\ RegsInv /\ WarmInv
  /\ EngineIsCurrent /\ ReadsAreCurrent

=============================================================================
