------------------------------ MODULE RiseTools ------------------------------
(***************************************************************************)
(* RISE on the board: scripts that run one tool after the other, each a    *)
(* process of its own.  db_generate writes the table, db_config_relcache   *)
(* the registers, q1 .. q4 scan, db_reset_relcache toggles `reset`; q5     *)
(* does all of it by itself, for two tables.  Nobody flushes a cache.  A   *)
(* tool may fail at any step, and its script goes on with the next one (no *)
(* script sets -e): a script that is interrupted is one whose tools all    *)
(* fail from there on.                                                     *)
(***************************************************************************)
EXTENDS RelMemory, Integers, Sequences

CONSTANTS
  Script,  \* sequences of command lines:
           \*   [tool, store, row_size, columns, offsets, frame_offset]
  Rows,    \* ROW_COUNT
  MaxFaults \* bound of the model: tools that fail

Queries == {"q1", "q2", "q3", "q4"}
Tools == Queries \cup {"db_generate", "db_config_relcache", "db_reset_relcache", "q5"}

CommandLine ==
  [tool : Tools, store : {"r", "c"}, row_size : Nat, columns : Nat, offsets : Seq(Nat),
   frame_offset : Frame]

\* One round of a script prepares, each preparation at most once and with
\* frame_offset 0 (FRAME_OFF), runs one query, and resets twice.
IsRound(s) ==
  LET n == Len(s)
  IN  /\ n >= 4
      /\ s[n].tool = "db_reset_relcache" /\ s[n-1].tool = "db_reset_relcache"
      /\ s[n-2].tool \in Queries
      /\ \A i \in 1..n-3 : /\ s[i].tool \in {"db_generate", "db_config_relcache"}
                          /\ s[i].frame_offset = DBFrame
                          /\ \A j \in 1..n-3 : s[j].tool = s[i].tool => j = i

\* q5 is run by itself.
ASSUME RiseAssumption ==
  /\ Rows \in Nat /\ 0..Rows-1 \subseteq Row
  /\ Script \subseteq Seq(CommandLine)
  /\ \A s \in Script :
       /\ IsRound(s) \/ (Len(s) = 1 /\ s[1].tool = "q5")
       /\ \A n \in 1..Len(s) : Len(s[n].offsets) <= MaxGroups

VARIABLES
  linux,    \* does the compiler define `linux`, so that db_generate writes to its heap?
  script, line,  \* the script, and the command line that runs
  at, step, \* the stage of that tool, and the stores or rows it has done
  dcache,   \* [Tables -> [Row -> the CPU's copy of that row of DRAM, as a set]]
  seen,     \* [Row -> what the current pass read, as a set]
  dfresh,   \* history: [Tables -> rows copied since the frame was last written]
  done,     \* history: tools of this script that ended well
  failures, \* history: 0, 1 or more tools failed since the last toggle; 2
            \* also when q5 ends, which leaves without a reset
  faults    \* history: how many tools have failed

progress == <<script, line, at, step>>
history == <<dfresh, done, failures, faults>>
vars == <<device, linux, progress, dcache, seen, history>>

-----------------------------------------------------------------------------
command == script[line]

\* The frames of the two tables.
Tables == {DBFrame, DB2Frame}

\* What each tool does, in order.  A query that is given -S takes it for an
\* option it does not know and exits (getopt strings of q1 .. q4).
Stages(c) ==
  CASE c.tool = "db_generate" -> <<<<"zero", DBFrame>>, <<"fill", DBFrame>>>>
    [] c.tool = "db_config_relcache" -> <<<<"config", c.frame_offset>>>>
    [] c.tool = "db_reset_relcache" -> <<<<"frame", c.frame_offset>>, <<"toggle", c.frame_offset>>>>
    [] c.tool = "q1" /\ c.store = "r" ->
         <<<<"cold", DBFrame>>, <<"hot", DBFrame>>, <<"row", DBFrame>>, <<"col", DBFrame>>>>
    [] c.tool \in Queries \ {"q1"} /\ c.store = "r" ->
         <<<<"cold", DBFrame>>, <<"hot", DBFrame>>, <<"row", DBFrame>>>>
    [] c.tool = "q5" ->
         <<<<"zero", DBFrame>>, <<"fill", DBFrame>>,
           <<"config", c.frame_offset>>, <<"frame", DBFrame>>, <<"toggle", DBFrame>>,
           <<"cold", DBFrame>>, <<"row", DBFrame>>,
           <<"frame", DB2Frame>>, <<"toggle", DB2Frame>>,
           <<"zero", DB2Frame>>, <<"fill", DB2Frame>>,
           <<"cold", DB2Frame>>, <<"row", DB2Frame>>>>
    [] OTHER -> <<>>

Running == at <= Len(Stages(command))
stage == Stages(command)[at]
In(names) == Running /\ stage[1] \in names

\* A row of the table that c writes behind frame f, with so many columns.
TableRow(c, f, columns) == [by |-> c, frame |-> f, columns |-> columns]

Blank == TableRow([tool |-> "none", store |-> "r", row_size |-> 0, columns |-> 0,
                   offsets |-> <<>>, frame_offset |-> 0], DBFrame, 0)

\* db_generate fills column by column, q5 row by row.
FillSteps == IF command.tool = "q5" THEN Rows ELSE command.columns
Filled(i, n) == IF command.tool # "q5" THEN n ELSE IF i < n THEN command.columns ELSE 0

\* The register stores of db_config_relcache and of q5.
Stores ==
  LET n == Len(command.offsets)
      scalars == <<<<"row_size", 0>>, <<"row_count", 0>>, EnabledColNum>>
  IN  [j \in 1..2*n+4 |-> IF j <= 3 THEN scalars[j]
                          ELSE IF j <= n+3 THEN <<"col_widths", j-4>>
                          ELSE IF j <= 2*n+3 THEN <<"col_offsets", j-n-4>>
                          ELSE FrameOffset]

\* Offsets are stored as 16-bit distances from the column before.
Distance(c, j) ==
  (IF j = 0 THEN c.offsets[1] ELSE c.offsets[j+1] - c.offsets[j]) % 65536

RegValue(c, r) ==
  CASE r[1] = "row_size"        -> c.row_size
    [] r[1] = "row_count"       -> Rows
    [] r[1] = "enabled_col_num" -> Len(c.offsets)
    [] r[1] = "frame_offset"    -> c.frame_offset
    [] r[1] = "col_widths"      -> 4
    [] r[1] = "col_offsets"     -> Distance(c, r[2])

Init ==
  /\ RelMemoryInit(Blank)
  /\ linux \in BOOLEAN
  /\ script \in Script /\ line = 1 /\ at = 1 /\ step = 0
  /\ dcache = [f \in Tables |-> Nothing] /\ seen = Nothing
  /\ dfresh = [f \in Tables |-> {}] /\ done = {} /\ failures = 0 /\ faults = 0

\* The tool goes on to its next stage.
NextStage == at' = at + 1 /\ step' = 0 /\ UNCHANGED <<script, line>>
Stay == step' = step + 1 /\ UNCHANGED <<script, line, at>>

\* The uncached stores of db_generate and q5, unless the former has been
\* given memory of its own instead of the DRAM.
Write(n) ==
  IF linux /\ command.tool = "db_generate"
    THEN UNCHANGED <<device, dfresh>>
    ELSE /\ dram' = [dram EXCEPT ![stage[2]] =
                       [i \in Row |-> IF i < Rows THEN TableRow(command, stage[2], Filled(i, n))
                                                  ELSE @[i]]]
         /\ dfresh' = [dfresh EXCEPT ![stage[2]] = {}]
         /\ UNCHANGED <<coherent, regs, reset, packed, cpu, warm>>

ZeroTable ==
  /\ In({"zero"})
  /\ Write(0) /\ NextStage
  /\ UNCHANGED <<linux, dcache, seen, done, failures, faults>>

\* Broken variant of FillTable: the last column or row is left out.
Mut_FillTable ==
  /\ In({"fill"})
  /\ IF step < FillSteps - 1 THEN Write(step + 1) /\ Stay
                             ELSE NextStage /\ UNCHANGED <<device, dfresh>>
  /\ UNCHANGED <<linux, dcache, seen, done, failures, faults>>

FillTable ==
  /\ In({"fill"})
  /\ IF step < FillSteps THEN Write(step + 1) /\ Stay
                         ELSE NextStage /\ UNCHANGED <<device, dfresh>>
  /\ UNCHANGED <<linux, dcache, seen, done, failures, faults>>

ConfigReg ==
  /\ In({"config"})
  /\ IF step < Len(Stores)
       THEN StoreReg(Stores[step+1], RegValue(command, Stores[step+1])) /\ Stay
       ELSE NextStage /\ UNCHANGED device
  /\ UNCHANGED <<linux, dcache, seen, history>>

\* db_reset_relcache and q5 write frame_offset before they toggle.
ResetFrame ==
  /\ In({"frame"})
  /\ StoreReg(FrameOffset, stage[2]) /\ NextStage
  /\ UNCHANGED <<linux, dcache, seen, history>>

\* Broken variant of ResetToggle: `reset` is set instead of toggled.
Mut_ResetToggle ==
  /\ In({"toggle"})
  /\ StoreReset(1) /\ NextStage
  /\ failures' = 0
  /\ UNCHANGED <<linux, dcache, seen, dfresh, done, faults>>

ResetToggle ==
  /\ In({"toggle"})
  /\ StoreReset((reset + 1) % 2) /\ NextStage
  /\ failures' = 0
  /\ UNCHANGED <<linux, dcache, seen, dfresh, done, faults>>

ScanWindow ==
  /\ In({"cold", "hot"}) /\ step < Rows
  /\ \E row \in cpu[step] \cup packed[step] \cup {PackedRow(step)} :
       /\ LoadCached(step, row) \/ LoadPacked(step, row)
       /\ seen' = [seen EXCEPT ![step] = {row}]
  /\ Stay
  /\ UNCHANGED <<linux, dcache, history>>

\* DRAM is read through a cached mapping.
ScanDram ==
  /\ In({"row", "col"}) /\ step < Rows
  /\ LET f == stage[2]
     IN  \/ /\ dcache[f][step] # {}
            /\ seen' = [seen EXCEPT ![step] = dcache[f][step]]
            /\ UNCHANGED <<dcache, dfresh>>
         \/ /\ dcache[f][step] = {}
            /\ seen' = [seen EXCEPT ![step] = {dram[f][step]}]
            /\ dcache' = [dcache EXCEPT ![f][step] = {dram[f][step]}]
            /\ dfresh' = [dfresh EXCEPT ![f] = @ \cup {step}]
  /\ Stay
  /\ UNCHANGED <<device, linux, done, failures, faults>>

EndPass ==
  /\ In({"cold", "hot", "row", "col"}) /\ step = Rows
  /\ NextStage
  /\ seen' = Nothing
  /\ UNCHANGED <<device, linux, dcache, history>>

\* The script goes on: with its next line, with itself for the next sample,
\* or another script is started.
Advance(ended) ==
  /\ at' = 1 /\ step' = 0
  /\ \/ line < Len(script) /\ line' = line + 1 /\ done' = ended /\ UNCHANGED script
     \/ line = Len(script) /\ line' = 1 /\ done' = {} /\ script' \in Script

EndTool ==
  /\ ~Running
  /\ Advance(done \cup {command.tool})
  /\ failures' = IF command.tool = "q5" THEN 2 ELSE failures
  /\ UNCHANGED <<device, linux, dcache, seen, dfresh, faults>>

\* The tool fails or is killed.
Fail ==
  /\ Running /\ faults < MaxFaults
  /\ Advance(done)
  /\ seen' = Nothing
  /\ failures' = IF failures = 0 /\ command.tool # "q5" THEN 1 ELSE 2
  /\ faults' = faults + 1
  /\ UNCHANGED <<device, linux, dcache, dfresh>>

ToolStep ==
  \/ ZeroTable \/ FillTable \/ ConfigReg \/ ResetFrame \/ ResetToggle
  \/ ScanWindow \/ ScanDram \/ EndPass \/ EndTool

EvictDram(f, i) ==
  /\ dcache[f][i] # {}
  /\ dcache' = [dcache EXCEPT ![f][i] = {}]
  /\ dfresh' = [dfresh EXCEPT ![f] = @ \ {i}]
  /\ UNCHANGED device

MachineStep ==
  /\ \E i \in Row : \/ (PackAhead(i) \/ Evict(i)) /\ UNCHANGED <<dcache, dfresh>>
                    \/ \E f \in Tables : EvictDram(f, i)
  /\ UNCHANGED <<linux, progress, seen, done, failures, faults>>

Next == ToolStep \/ Fail \/ MachineStep

Spec == Init /\ [][Next]_vars

-----------------------------------------------------------------------------
\* What the running scan is entitled to: q5 to its own tables, and q1 .. q4 to
\* those of their script, if its generator and its configuration ended well.
LineOf(tool) ==
  IF command.tool = "q5" THEN command
  ELSE script[CHOOSE n \in DOMAIN script : script[n].tool = tool]

WantedTable ==
  LET c == LineOf("db_generate") IN TableRow(c, stage[2], c.columns)

WantedRow ==
  LET c == LineOf("db_config_relcache")
  IN  [image |-> [r \in RegName |->
                    IF r \notin Significant(Len(c.offsets)) THEN 0
                    ELSE IF r = FrameOffset THEN stage[2] ELSE RegValue(c, r)],
       data  |-> WantedTable]

Generated == command.tool = "q5" \/ ("db_generate" \in done /\ ~linux)
Configured ==
  command.tool = "q5" \/ ("db_config_relcache" \in done /\ failures < 2)

\* A window pass reads the columns its script configured, of the table its
\* script generated, although configuring does not reset: one of the two
\* resets that end a script is enough to empty the engine, so the other may
\* fail.  q5 reads S and then R, whatever ran before it and although it
\* resets the engine to R before it writes R (db_config_relcache.c,
\* db_reset_relcache.c, q5.c).
WindowIsCurrent ==
  coherent /\ In({"cold", "hot"}) /\ Generated /\ Configured =>
    \A i \in 0..step-1 : seen[i] = {WantedRow}

\* If a reset does not reach the CPU caches, the only window rows that can be
\* wrong are those the CPU copied before the last toggle; and no reset reaches
\* the copies of DRAM, of which those can be wrong that the CPU made before
\* the table was last written.
StaleOnlyFromOldCopies ==
  [][\A i \in Row : i = step /\ step' = step + 1 =>
       /\ In({"cold", "hot"}) /\ Generated /\ Configured /\ seen'[i] # {WantedRow}
            => cpu[i] # {} /\ i \notin warm
       /\ In({"row", "col"}) /\ Generated /\ seen'[i] # {WantedTable}
            => dcache[stage[2]][i] # {} /\ i \notin dfresh[stage[2]]]_vars

=============================================================================
