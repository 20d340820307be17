------------------------------ MODULE EdbtBench ------------------------------
(***************************************************************************)
(* EDBT/rel_mem_bench on the board: one process after the other runs an    *)
(* experiment (demo.c, queries/experiments.c), which is a sequence of      *)
(* run_query calls.  Each of them flushes the CPU caches, generates the    *)
(* table, configures the engine, scans, and only then resets the engine    *)
(* and flushes again: what a run finds in the engine is what the run       *)
(* before it left there.  A process may be killed at any step.             *)
(*                                                                         *)
(* The query functions run_query1 .. run_query4 differ in what they        *)
(* compute; here they are the passes over memory they all make.            *)
(***************************************************************************)
EXTENDS RelMemory, Integers, Sequences

CONSTANTS
  Command,      \* command lines: [kind, offsets, samples, store, num_columns, r_col]
  Rows,         \* config_db.row_count
  RowSizes,     \* row sizes of row_size_exp: 16, 32, ..., 256 in the code
  FixedRowSize, \* row size of col_size_exp and projectivity_exp: 64
  ColSizes,     \* turns of the loop of col_size_exp: 5
  Enabled       \* columns enabled in projectivity_exp: 2, ..., 10

COLUMN_WIDTH == 4

\* The registers have room for the enabled columns.  r_col of a command line is
\* exp_config.r_col, which a config file may set to any width.
ASSUME EdbtAssumption ==
  /\ Rows \in Nat /\ 0..Rows-1 \subseteq Row
  /\ RowSizes \in Seq(Nat) /\ RowSizes # <<>>
  /\ FixedRowSize \in Nat
  /\ ColSizes \in Nat \ {0}
  /\ Enabled \in Seq(0..MaxGroups) /\ Enabled # <<>>
  /\ Command # {}
  /\ \A c \in Command :
       /\ c.kind \in {"row_size", "col_size", "projectivity", "single"}
       /\ c.store \in {"r", "c"}
       /\ c.offsets \in Seq(Nat) /\ Len(c.offsets) <= MaxGroups
       /\ c.samples \in Nat \ {0} /\ c.num_columns \in Nat /\ c.r_col \in Nat \ {0}

VARIABLES
  pc,       \* where the process is
  cmd,      \* its command line
  turn,     \* the iteration of the experiment's loop
  sample,   \* the sample of that iteration
  second,   \* is it the second run_query of the sample?
  store,    \* config_db.store_type
  step,     \* columns generated, registers stored or rows read so far
  dcache,   \* [Row -> the CPU's copy of that row of DRAM, as a set]
  seen,     \* [Row -> what the current pass read, as a set]
  measured, \* kinds of lines written to the output file for this sample
  dirty     \* history: was a process killed while the engine held rows?

process == <<pc, cmd, turn, sample, second, store, step, seen, measured>>
vars == <<device, process, dcache, dirty>>

-----------------------------------------------------------------------------
\* The turns of each experiment: row size, columns and their offsets.  In
\* projectivity_exp parse_exp_offsets overwrites the first offsets with a
\* list no one has initialised, here any list a command may carry.
Turns(c) ==
  CASE c.kind = "row_size" ->
         [n \in 1..Len(RowSizes) |->
            [row_size |-> RowSizes[n], num_columns |-> RowSizes[n] \div c.r_col,
             offsets  |-> c.offsets]]
    [] c.kind = "col_size" ->
         [n \in 1..ColSizes |->
            [row_size |-> FixedRowSize, num_columns |-> FixedRowSize \div c.r_col,
             offsets  |-> c.offsets]]
    [] c.kind = "projectivity" ->
         [n \in 1..Len(Enabled) |->
            [row_size |-> FixedRowSize, num_columns |-> FixedRowSize \div COLUMN_WIDTH,
             offsets  |-> [j \in 1..Enabled[n] |->
                             IF j <= Len(c.offsets) THEN c.offsets[j] ELSE 4 * (j-1)]]]
    [] c.kind = "single" ->
         <<[row_size |-> COLUMN_WIDTH * c.num_columns, num_columns |-> c.num_columns,
            offsets  |-> c.offsets]>>

Samples(c) == IF c.kind = "projectivity" THEN 1 ELSE c.samples

This == Turns(cmd)[turn]

\* column_widths: only projectivity_exp reads no config file.
width == IF cmd.kind = "projectivity" THEN COLUMN_WIDTH ELSE cmd.r_col

num_columns == This.num_columns

\* What generate_db has written when `columns` columns are filled: for a
\* store type other than 'r' and 'c' the table stays zero.
Content(columns) ==
  [row_size |-> num_columns * width,
   store    |-> IF columns = 0 THEN "zero" ELSE IF store = "b" THEN "zero" ELSE store,
   columns  |-> IF store = "b" THEN 0 ELSE columns]

Table == Content(num_columns)

\* The register stores of configure_relcache, in order.
Stores ==
  LET n == Len(This.offsets)
      scalars == <<<<"row_size", 0>>, <<"row_count", 0>>, EnabledColNum>>
  IN  [j \in 1..2*n+4 |-> IF j <= 3 THEN scalars[j]
                          ELSE IF j <= n+3 THEN <<"col_widths", j-4>>
                          ELSE IF j <= 2*n+3 THEN <<"col_offsets", j-n-4>>
                          ELSE FrameOffset]

\* Offsets are stored as 16-bit distances from the column before.
Distance(j) ==
  (IF j = 0 THEN This.offsets[1] ELSE This.offsets[j+1] - This.offsets[j]) % 65536

RegValue(r) ==
  CASE r[1] = "row_size"        -> This.row_size
    [] r[1] = "row_count"       -> Rows
    [] r[1] = "enabled_col_num" -> Len(This.offsets)
    [] r[1] = "frame_offset"    -> DBFrame
    [] r[1] = "col_widths"      -> width
    [] r[1] = "col_offsets"     -> Distance(r[2])

-----------------------------------------------------------------------------
NoCommand == CHOOSE c \in Command : TRUE

Init ==
  /\ RelMemoryInit([row_size |-> 0, store |-> "zero", columns |-> 0])
  /\ pc = "exec" /\ cmd = NoCommand /\ turn = 0 /\ sample = 0 /\ second = FALSE
  /\ store = "r" /\ step = 0 /\ seen = Nothing /\ measured = {}
  /\ dcache = Nothing
  /\ dirty = FALSE

Gone ==
  /\ pc' = "exec" /\ cmd' = NoCommand /\ turn' = 0 /\ sample' = 0 /\ second' = FALSE
  /\ store' = "r" /\ step' = 0 /\ seen' = Nothing /\ measured' = {}

\* main, set_config, parse_args.
Exec ==
  /\ pc = "exec"
  /\ cmd' \in Command
  /\ store' = cmd'.store
  /\ pc' = "setup" /\ turn' = 1 /\ sample' = 1
  /\ UNCHANGED <<device, second, step, seen, measured, dcache, dirty>>

\* The head of the sample loops: only run_single_query leaves store_type
\* as it finds it.
SetUpSample ==
  /\ pc = "setup"
  /\ store' = CASE cmd.kind \in {"row_size", "col_size"} -> "b"
                [] cmd.kind = "projectivity" -> "r"
                [] cmd.kind = "single" -> store
  /\ pc' = "flush" /\ second' = FALSE /\ measured' = {}
  /\ UNCHANGED <<device, cmd, turn, sample, step, seen, dcache, dirty>>

\* flush_cache, taken for what run_query needs of it: no copy survives.  What
\* it does, reading a megabyte of other memory, evicts as much as the cache's
\* size and replacement let it.
FlushCache(from, to) ==
  /\ pc = from
  /\ cpu' = Nothing /\ warm' = {} /\ dcache' = Nothing
  /\ pc' = to
  /\ UNCHANGED <<coherent, dram, regs, reset, packed, cmd, turn, sample, second, store, step,
                 seen, measured, dirty>>

\* Broken variant of FlushBefore: run_query starts with what the caches hold.
Mut_FlushBefore ==
  /\ pc = "flush"
  /\ pc' = "zero"
  /\ UNCHANGED <<device, cmd, turn, sample, second, store, step, seen, measured, dcache, dirty>>

FlushBefore == FlushCache("flush", "zero")

\* generate_db: the table is zeroed, then filled column by column through an
\* uncached mapping.
WriteTable(columns) ==
  /\ dram' = [dram EXCEPT ![DBFrame] =
                [i \in Row |-> IF i < Rows THEN Content(columns) ELSE @[i]]]
  /\ UNCHANGED <<coherent, regs, reset, packed, cpu, warm>>

ZeroTable ==
  /\ pc = "zero"
  /\ WriteTable(0)
  /\ pc' = "fill" /\ step' = 0
  /\ UNCHANGED <<cmd, turn, sample, second, store, seen, measured, dcache, dirty>>

FillColumn ==
  /\ pc = "fill" /\ step < num_columns
  /\ WriteTable(step + 1)
  /\ step' = step + 1
  /\ UNCHANGED <<pc, cmd, turn, sample, second, store, seen, measured, dcache, dirty>>

Generated ==
  /\ pc = "fill" /\ step = num_columns
  /\ pc' = "config" /\ step' = 0
  /\ UNCHANGED <<device, cmd, turn, sample, second, store, seen, measured, dcache, dirty>>

\* configure_relcache: registers only, no reset.
ConfigReg ==
  /\ pc = "config" /\ step < Len(Stores)
  /\ StoreReg(Stores[step+1], RegValue(Stores[step+1]))
  /\ step' = step + 1
  /\ UNCHANGED <<pc, cmd, turn, sample, second, store, seen, measured, dcache, dirty>>

\* The query function: a 'r' table is scanned through the window twice and
\* then in DRAM, a 'c' table in DRAM, and any other not at all.
Configured ==
  /\ pc = "config" /\ step = Len(Stores)
  /\ pc' = CASE store = "r" -> "cold" [] store = "c" -> "col" [] store = "b" -> "frame"
  /\ step' = 0
  /\ UNCHANGED <<device, cmd, turn, sample, second, store, seen, measured, dcache, dirty>>

ScanWindow ==
  /\ pc \in {"cold", "hot"} /\ step < Rows
  /\ \E line \in cpu[step] \cup packed[step] \cup {PackedRow(step)} :
       /\ LoadCached(step, line) \/ LoadPacked(step, line)
       /\ seen' = [seen EXCEPT ![step] = {line}]
  /\ step' = step + 1
  /\ UNCHANGED <<pc, cmd, turn, sample, second, store, measured, dcache, dirty>>

\* The row and column passes read DRAM through a cached mapping.
ScanDram ==
  /\ pc \in {"row", "col"} /\ step < Rows
  /\ \E d \in IF dcache[step] = {} THEN {dram[DBFrame][step]} ELSE dcache[step] :
       /\ dcache' = [dcache EXCEPT ![step] = {d}]
       /\ seen' = [seen EXCEPT ![step] = {d}]
  /\ step' = step + 1
  /\ UNCHANGED <<device, pc, cmd, turn, sample, second, store, measured, dirty>>

\* A pass is over: its line goes to the output file.
EndPass ==
  /\ pc \in {"cold", "hot", "row", "col"} /\ step = Rows
  /\ measured' = measured \cup {pc}
  /\ pc' = CASE pc = "cold" -> "hot" [] pc = "hot" -> "row" [] OTHER -> "frame"
  /\ step' = 0 /\ seen' = Nothing
  /\ UNCHANGED <<device, cmd, turn, sample, second, store, dcache, dirty>>

\* Broken variant of ResetToggle: `reset` is written without the toggle.
Mut_ResetToggle ==
  /\ pc = "toggle"
  /\ StoreReset(reset)
  /\ pc' = "flush2" /\ dirty' = FALSE
  /\ UNCHANGED <<cmd, turn, sample, second, store, step, seen, measured, dcache>>

\* reset_relcache(0): frame_offset, then the toggle of `reset`.
ResetFrame ==
  /\ pc = "frame"
  /\ StoreReg(FrameOffset, DBFrame)
  /\ pc' = "toggle"
  /\ UNCHANGED <<cmd, turn, sample, second, store, step, seen, measured, dcache, dirty>>

ResetToggle ==
  /\ pc = "toggle"
  /\ StoreReset((reset + 1) % 2)
  /\ pc' = "flush2" /\ dirty' = FALSE
  /\ UNCHANGED <<cmd, turn, sample, second, store, step, seen, measured, dcache>>

FlushAfter == FlushCache("flush2", "ran")

\* Broken variant of SecondRun: the second run is over the same store.
Mut_SecondRun ==
  /\ pc = "ran" /\ ~second
  /\ second' = TRUE
  /\ pc' = "flush"
  /\ UNCHANGED <<device, cmd, turn, sample, store, step, seen, measured, dcache, dirty>>

\* Back in the experiment: the column store is next, or the sample is over.
SecondRun ==
  /\ pc = "ran" /\ ~second
  /\ store' = "c" /\ second' = TRUE
  /\ pc' = "flush"
  /\ UNCHANGED <<device, cmd, turn, sample, step, seen, measured, dcache, dirty>>

NextSample ==
  /\ pc = "ran" /\ second
  /\ IF sample < Samples(cmd) THEN sample' = sample + 1 /\ UNCHANGED turn
                              ELSE sample' = 1 /\ turn' = turn + 1
  /\ turn' <= Len(Turns(cmd))
  /\ pc' = "setup"
  /\ UNCHANGED <<device, cmd, second, store, step, seen, measured, dcache, dirty>>

Finish ==
  /\ pc = "ran" /\ second
  /\ sample = Samples(cmd) /\ turn = Len(Turns(cmd))
  /\ Gone
  /\ UNCHANGED <<device, dcache, dirty>>

\* The process is killed.
Kill ==
  /\ pc # "exec"
  /\ Gone
  /\ dirty' = (dirty \/ packed # Nothing)
  /\ UNCHANGED <<device, dcache>>

ProcessStep ==
  \/ Exec \/ SetUpSample \/ FlushBefore \/ ZeroTable \/ FillColumn \/ Generated
  \/ ConfigReg \/ Configured \/ ScanWindow \/ ScanDram \/ EndPass
  \/ ResetFrame \/ ResetToggle \/ FlushAfter \/ SecondRun \/ NextSample \/ Finish

EvictDram(i) ==
  /\ dcache[i] # {}
  /\ dcache' = [dcache EXCEPT ![i] = {}]
  /\ UNCHANGED device

MachineStep ==
  /\ \E i \in Row : \/ (PackAhead(i) \/ Evict(i)) /\ UNCHANGED dcache
                    \/ EvictDram(i)
  /\ UNCHANGED <<process, dirty>>

Next == ProcessStep \/ Kill \/ MachineStep

Spec == Init /\ [][Next]_vars

-----------------------------------------------------------------------------
\* What the window should hold at every row while this run scans it.
WantedRow ==
  [image |-> [r \in RegName |->
                IF r \in Significant(Len(This.offsets)) THEN RegValue(r) ELSE 0],
   data  |-> Table]

\* A cold or hot pass reads the columns this run configured, of the table
\* this run generated, unless an earlier process was killed after the engine
\* had begun to pack and nobody has reset it since: run_query leaves the
\* engine as it needs to find it, whatever row sizes, stores and samples
\* follow each other (demo.c run_query, reset_relcache, flush_cache).
WindowIsCurrent ==
  ~dirty /\ pc \in {"cold", "hot"} => \A i \in 0..step-1 : seen[i] = {WantedRow}

\* The row and column passes read the table this run generated, although
\* generate_db writes it past the cache they read it through.
DramIsCurrent ==
  pc \in {"row", "col"} => \A i \in 0..step-1 : seen[i] = {Table}

\* A cold pass is cold: it finds no row in the CPU cache before it has read
\* it, neither of an earlier run nor of an earlier process.
ColdIsCold ==
  pc = "cold" => \A i \in step..Rows-1 : cpu[i] = {}

\* The samples that measure a row store: every one of projectivity_exp, and
\* the first of run_single_query if the command asks for one.
StartsWithRows ==
  cmd.kind = "projectivity" \/ (cmd.kind = "single" /\ cmd.store = "r" /\ sample = 1)

\* These measure both stores, cold, hot, in rows and in columns, and all other
\* samples the column store and nothing else: row_size_exp and col_size_exp
\* start with a store type no query knows, and run_single_query does not set
\* store_type back (experiments.c, demo.c).
SamplesMeasureTheirStores ==
  pc = "ran" /\ second =>
    measured = (IF StartsWithRows THEN {"cold", "hot", "row"} ELSE {}) \cup {"col"}

=============================================================================
