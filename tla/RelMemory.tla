------------------------------ MODULE RelMemory ------------------------------
(***************************************************************************)
(* The machine the host programs drive: the DRAM that holds row tables,    *)
(* the configuration port (LPD0), the relational-memory engine behind the  *)
(* window at RELCACHE_ADDR, and the CPU's own copies of that window.       *)
(*                                                                         *)
(* The engine and the CPU caches are not in this repository.  They are     *)
(* modelled from how its programs use them:                                *)
(*   - a read of the window returns a row packed from DRAM under the       *)
(*     registers' values at the moment the engine packs it, and the engine *)
(*     keeps what it packed until `reset` is toggled.  query.c configures, *)
(*     then resets, then reads; demo.c configures, reads, then resets:     *)
(*     both work only if the engine packs when it is asked.                *)
(*   - once the window is being read the engine may pack ahead.            *)
(*   - the window is mapped cached (MAP_CACHE, 0x40), so a CPU copy        *)
(*     answers a read without asking the engine, and survives the process. *)
(*     Whether a reset also drops those copies is not known: `coherent`.   *)
(*                                                                         *)
(* One row of the window stands for one unit of packing, of CPU caching    *)
(* and of DRAM; a packed row is the pair of what selected it (the          *)
(* registers) and what it was cut from (the DRAM row).                     *)
(***************************************************************************)
EXTENDS Naturals

CONSTANTS
  Row,         \* row positions, from 0
  MaxGroups    \* columns the registers have room for (MAX_GROUPS)

ASSUME RelMemoryAssumption ==
  /\ Row \subseteq Nat
  /\ MaxGroups \in Nat \ {0}

VARIABLES
  coherent, \* does toggling `reset` drop the CPU's copies of the window?
  dram,    \* [Frame -> [Row -> what the row holds]]
  regs,    \* [RegName -> Nat], the LPD0 registers but `reset`
  reset,   \* the `reset` register
  packed,  \* [Row -> the packed row the engine holds, as a set of at most 1]
  cpu,     \* [Row -> the CPU's copy of it, as a set of at most 1]
  warm     \* history: rows whose CPU copy is younger than the last toggle

device == <<coherent, dram, regs, reset, packed, cpu, warm>>

\* Frame offsets: DRAM_DB2_ADDR - DRAM_DB_ADDR = 0x40000000.  One byte behind
\* a table no row is one of its rows: the DRAM of SkewFrame keeps its blanks.
DBFrame   == 0
DB2Frame  == 1073741824
SkewFrame == 1
Frame     == {DBFrame, DB2Frame, SkewFrame}

ColumnRegs(n) == {"col_widths", "col_offsets"} \X (0..n-1)
ScalarRegs ==
  {<<"row_size", 0>>, <<"row_count", 0>>, <<"enabled_col_num", 0>>,
   <<"frame_offset", 0>>}
RegName == ScalarRegs \cup ColumnRegs(MaxGroups)

EnabledColNum == <<"enabled_col_num", 0>>
FrameOffset   == <<"frame_offset", 0>>

\* The registers the engine looks at when n columns are enabled.
Significant(n) == ScalarRegs \cup ColumnRegs(n)

\* The registers `from` as the engine sees them, and the row it then packs.
Image(from, n) == [r \in RegName |-> IF r \in Significant(n) THEN from[r] ELSE 0]

PackedRow(i) ==
  [image |-> Image(regs, regs[EnabledColNum]),
   data  |-> dram[regs[FrameOffset]][i]]

Nothing == [i \in Row |-> {}]

RelMemoryInit(blank) ==
  /\ coherent \in BOOLEAN
  /\ dram = [f \in Frame |-> [i \in Row |-> blank]]
  /\ regs = [r \in RegName |-> 0]
  /\ reset = 0
  /\ packed = Nothing
  /\ cpu = Nothing
  /\ warm = {}

\* An uncached store of one row into the DRAM behind frame f.
StoreRow(f, i, d) ==
  /\ dram' = [dram EXCEPT ![f][i] = d]
  /\ UNCHANGED <<coherent, regs, reset, packed, cpu, warm>>

\* A store to one register of the configuration port.
StoreReg(r, v) ==
  /\ regs' = [regs EXCEPT ![r] = v]
  /\ UNCHANGED <<coherent, dram, reset, packed, cpu, warm>>

\* A store to `reset`: a new value makes the engine forget what it packed.
StoreReset(v) ==
  /\ reset' = v
  /\ IF v = reset
       THEN UNCHANGED <<packed, cpu, warm>>
       ELSE /\ packed' = Nothing
            /\ cpu' = IF coherent THEN Nothing ELSE cpu
            /\ warm' = {}
  /\ UNCHANGED <<coherent, dram, regs>>

\* A load of row i of the window, answered by the CPU's copy ...
LoadCached(i, line) ==
  /\ line \in cpu[i]
  /\ UNCHANGED device

\* ... or by the engine, which packs the row if it does not hold it.
LoadPacked(i, line) ==
  /\ cpu[i] = {}
  /\ line \in IF packed[i] = {} THEN {PackedRow(i)} ELSE packed[i]
  /\ packed' = [packed EXCEPT ![i] = {line}]
  /\ cpu' = [cpu EXCEPT ![i] = {line}]
  /\ warm' = warm \cup {i}
  /\ UNCHANGED <<coherent, dram, regs, reset>>

\* The engine packs row i before it is asked for it.
PackAhead(i) ==
  /\ packed # Nothing
  /\ packed[i] = {}
  /\ packed' = [packed EXCEPT ![i] = {PackedRow(i)}]
  /\ UNCHANGED <<coherent, dram, regs, reset, cpu, warm>>

\* The CPU drops its copy of row i.
Evict(i) ==
  /\ cpu[i] # {}
  /\ cpu' = [cpu EXCEPT ![i] = {}]
  /\ warm' = warm \ {i}
  /\ UNCHANGED <<coherent, dram, regs, reset, packed>>

=============================================================================
