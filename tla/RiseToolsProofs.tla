--------------------------- MODULE RiseToolsProofs ---------------------------
(***************************************************************************)
(* For every set of scripts, every number of rows, both kinds of CPU cache *)
(* and tools failing anywhere: a window pass reads what its script         *)
(* configured and generated, unless the CPU answers it from a copy that no *)
(* reset has dropped.                                                      *)
(***************************************************************************)
EXTENDS RiseTools, TLAPS

USE RelMemoryAssumption

IsRowMap(f) == f = [i \in Row |-> f[i]]

Tool == command.tool

\* The line of the query of a round.
QueryLine == Len(script) - 2

PlaceInv ==
  /\ script \in Script /\ line \in 1..Len(script)
  /\ at \in 1..Len(Stages(command))+1 /\ step \in Nat
  /\ failures \in 0..2
  /\ \A t \in done : \E n \in 1..line-1 : script[n].tool = t

ShapeInv ==
  /\ IsRowMap(packed) /\ IsRowMap(cpu) /\ IsRowMap(seen)
  /\ dram = [f \in Frame |-> dram[f]] /\ \A f \in Frame : IsRowMap(dram[f])
  /\ dcache = [f \in Tables |-> dcache[f]] /\ \A f \in Tables : IsRowMap(dcache[f])
  /\ dfresh = [f \in Tables |-> dfresh[f]] /\ \A f \in Tables : dfresh[f] \subseteq Row
  /\ regs = [r \in RegName |-> regs[r]]
  /\ reset \in {0, 1}
  /\ warm \subseteq Row

\* The only command of the round with that tool.
The(tool) == script[CHOOSE n \in DOMAIN script : script[n].tool = tool]

\* What is behind frame f when c has written it up to its last column.
Written(c, f) == \A i \in 0..Rows-1 : dram[f][i] = TableRow(c, f, c.columns)

TableInv ==
  /\ In({"fill"}) =>
       /\ step <= FillSteps
       /\ ~(linux /\ Tool = "db_generate") =>
            \A i \in 0..Rows-1 :
              dram[stage[2]][i] = TableRow(command, stage[2], Filled(i, step))
  /\ Tool = "db_generate" /\ at = 3 /\ ~linux => Written(command, DBFrame)
  /\ Tool = "q5" /\ at >= 3 => Written(command, DBFrame)
  /\ Tool = "q5" /\ at >= 12 => Written(command, DB2Frame)
  /\ "db_generate" \in done /\ ~linux => Written(The("db_generate"), DBFrame)

\* The registers but frame_offset are those c configures.
Set(c) == \A r \in Significant(Len(c.offsets)) \ {FrameOffset} : regs[r] = RegValue(c, r)

RegsInv ==
  /\ In({"config"}) =>
       step <= Len(Stores) /\ \A j \in 1..step : regs[Stores[j]] = RegValue(command, Stores[j])
  /\ Tool = "db_config_relcache" /\ at = 2 => Set(command) /\ regs[FrameOffset] = DBFrame
  /\ Tool = "q5" /\ at >= 4 => Set(command)
  /\ Tool = "q5" /\ at \in 5..8 => regs[FrameOffset] = DBFrame
  /\ Tool = "q5" /\ at >= 9 => regs[FrameOffset] = DB2Frame
  /\ "db_config_relcache" \in done /\ line <= QueryLine =>
       Set(The("db_config_relcache")) /\ regs[FrameOffset] = DBFrame

\* Where the engine is empty: before the query of a round, unless both resets
\* of the round before have failed, and after a toggle.
EmptyInv ==
  /\ Tool # "q5" /\ line < QueryLine /\ failures < 2 => packed = Nothing
  /\ Tool = "db_reset_relcache" /\ at = 3 => packed = Nothing
  /\ Tool # "q5" /\ line = Len(script) /\ failures = 0 => packed = Nothing
  /\ Tool = "q5" /\ at \in {10, 11} => packed = Nothing

CopiesInv ==
  /\ packed = Nothing => warm = {}
  /\ coherent => \A i \in Row : cpu[i] = {} \/ i \in warm
  /\ \A f \in Tables : \A i \in dfresh[f] : dcache[f][i] \subseteq {dram[f][i]}

\* A window pass that may rely on its script.
Relying == In({"cold", "hot"}) /\ Generated /\ Configured

PassInv ==
  Relying => \A i \in 0..Rows-1 : /\ packed[i] \subseteq {WantedRow}
                                  /\ i \in warm => cpu[i] \subseteq {WantedRow}

IInv ==
  /\ PlaceInv /\ ShapeInv /\ TableInv /\ RegsInv /\ EmptyInv /\ CopiesInv /\ PassInv
  /\ WindowIsCurrent


-----------------------------------------------------------------------------
\* The lines of a script.
LEMMA ScriptFacts ==
  ASSUME NEW s \in Script
  PROVE  /\ Len(s) \in Nat \ {0} /\ DOMAIN s = 1..Len(s)
         /\ \A n \in 1..Len(s) : s[n] \in CommandLine /\ Len(s[n].offsets) \in 0..MaxGroups
         /\ s[1].tool = "q5" => Len(s) = 1
         /\ s[1].tool # "q5" => IsRound(s)
<1>1. s \in Seq(CommandLine) /\ (IsRound(s) \/ (Len(s) = 1 /\ s[1].tool = "q5"))
      /\ \A n \in 1..Len(s) : Len(s[n].offsets) <= MaxGroups
  BY RiseAssumption
<1>2. Len(s) \in Nat \ {0} /\ DOMAIN s = 1..Len(s)
  BY <1>1 DEF IsRound
<1>3. \A n \in 1..Len(s) : s[n] \in CommandLine
  BY <1>1
<1>4. \A n \in 1..Len(s) : Len(s[n].offsets) \in 0..MaxGroups
  <2> TAKE n \in 1..Len(s)
  <2>1. s[n].offsets \in Seq(Nat)
    BY <1>3 DEF CommandLine
  <2>2. QED
    BY <1>1, <2>1
<1>5. IsRound(s) => s[1].tool # "q5"
  BY DEF IsRound
<1>6. QED
  BY <1>1, <1>2, <1>3, <1>4, <1>5

\* Where each tool stands in its round.
LEMMA LineFacts ==
  ASSUME NEW s \in Script, NEW n \in 1..Len(s)
  PROVE  /\ s[n].tool \in Tools
         /\ s[n].tool = "q5" => Len(s) = 1 /\ n = 1
         /\ s[n].tool # "q5" => Len(s) >= 4 /\ s[1].tool # "q5"
         /\ s[n].tool \in Queries => n = Len(s) - 2
         /\ s[n].tool = "db_reset_relcache" => n \in {Len(s)-1, Len(s)}
         /\ s[n].tool \in {"db_generate", "db_config_relcache"} =>
              /\ n <= Len(s) - 3 /\ s[n].frame_offset = DBFrame
              /\ \A m \in 1..Len(s) : s[m].tool = s[n].tool => m = n
<1>1. Len(s) \in Nat \ {0} /\ s[n] \in CommandLine
  BY ScriptFacts
<1>2. CASE s[1].tool = "q5"
  <2>1. n = 1 /\ Len(s) = 1
    BY <1>1, <1>2, ScriptFacts
  <2>2. QED
    BY <1>2, <2>1 DEF Tools, Queries
<1>3. CASE s[1].tool # "q5"
  <2>1. IsRound(s)
    BY <1>3, ScriptFacts
  <2>2. \A m \in 1..Len(s) : m <= Len(s)-3 \/ m = Len(s)-2 \/ m = Len(s)-1 \/ m = Len(s)
    BY <1>1
  <2>3. Len(s) >= 4
    BY <2>1 DEF IsRound
  <2>4. CASE n <= Len(s)-3
    <3>1. n \in 1..Len(s)-3
      BY <1>1, <2>3, <2>4
    <3>2. /\ s[n].tool \in {"db_generate", "db_config_relcache"}
          /\ s[n].frame_offset = DBFrame
          /\ \A m \in 1..Len(s)-3 : s[m].tool = s[n].tool => m = n
      BY <2>1, <3>1 DEF IsRound
    <3>3. \A m \in 1..Len(s) : m \notin 1..Len(s)-3 =>
             s[m].tool \in Queries \cup {"db_reset_relcache"}
      BY <1>1, <2>1, <2>2 DEF IsRound
    <3>4. \A m \in 1..Len(s) : s[m].tool = s[n].tool => m = n
      BY <3>2, <3>3 DEF Queries
    <3>5. s[n].tool \in Tools \ (Queries \cup {"q5", "db_reset_relcache"})
      BY <3>2 DEF Tools, Queries
    <3>6. QED
      BY <1>3, <2>3, <2>4, <3>2, <3>4, <3>5
  <2>5. CASE n = Len(s)-2
    <3>1. s[n].tool \in Queries
      BY <2>1, <2>5 DEF IsRound
    <3>2. QED
      BY <1>3, <2>3, <2>5, <3>1 DEF Tools, Queries
  <2>6. CASE n = Len(s)-1 \/ n = Len(s)
    <3>1. s[n].tool = "db_reset_relcache"
      BY <2>1, <2>6 DEF IsRound
    <3>2. QED
      BY <1>3, <2>3, <2>6, <3>1 DEF Tools, Queries
  <2>7. QED
    BY <2>2, <2>4, <2>5, <2>6
<1>4. QED
  BY <1>2, <1>3

LEMMA TheOnly ==
  ASSUME NEW s \in Script, s = script, NEW n \in 1..Len(s), NEW tool,
         s[n].tool = tool, tool \in {"db_generate", "db_config_relcache"}
  PROVE  The(tool) = s[n]
<1>1. DOMAIN s = 1..Len(s) /\ \A m \in 1..Len(s) : s[m].tool = tool => m = n
  BY ScriptFacts, LineFacts
<1>2. (CHOOSE m \in DOMAIN s : s[m].tool = tool) = n
  BY <1>1
<1>3. QED
  BY <1>2 DEF The

-----------------------------------------------------------------------------
\* The stages of each tool.
LEMMA GenerateStages ==
  ASSUME NEW c, c.tool = "db_generate"
  PROVE  /\ Len(Stages(c)) = 2
         /\ Stages(c)[1] = <<"zero", DBFrame>> /\ Stages(c)[2] = <<"fill", DBFrame>>
<1>1. Stages(c) = <<<<"zero", DBFrame>>, <<"fill", DBFrame>>>>
  BY DEF Stages, Queries
<1>2. QED
  BY <1>1

LEMMA ConfigStages ==
  ASSUME NEW c, c.tool = "db_config_relcache"
  PROVE  Len(Stages(c)) = 1 /\ Stages(c)[1] = <<"config", c.frame_offset>>
<1>1. Stages(c) = <<<<"config", c.frame_offset>>>>
  BY DEF Stages, Queries
<1>2. QED
  BY <1>1

LEMMA ResetStages ==
  ASSUME NEW c, c.tool = "db_reset_relcache"
  PROVE  /\ Len(Stages(c)) = 2
         /\ Stages(c)[1] = <<"frame", c.frame_offset>>
         /\ Stages(c)[2] = <<"toggle", c.frame_offset>>
<1>1. Stages(c) = <<<<"frame", c.frame_offset>>, <<"toggle", c.frame_offset>>>>
  BY DEF Stages, Queries
<1>2. QED
  BY <1>1

LEMMA QueryStages ==
  ASSUME NEW c, c.tool \in Queries
  PROVE  /\ Len(Stages(c)) \in {0, 3, 4}
         /\ Len(Stages(c)) > 0 =>
              /\ Stages(c)[1] = <<"cold", DBFrame>> /\ Stages(c)[2] = <<"hot", DBFrame>>
              /\ Stages(c)[3] = <<"row", DBFrame>>
         /\ Len(Stages(c)) = 4 => Stages(c)[4] = <<"col", DBFrame>>
<1> USE DEF Queries
<1>1. CASE c.tool = "q1" /\ c.store = "r"
  <2>1. Stages(c) = <<<<"cold", DBFrame>>, <<"hot", DBFrame>>, <<"row", DBFrame>>, <<"col", DBFrame>>>>
    BY <1>1, Zenon DEF Stages
  <2>2. QED
    BY <2>1
<1>2. CASE c.tool \in Queries \ {"q1"} /\ c.store = "r"
  <2>1. Stages(c) = <<<<"cold", DBFrame>>, <<"hot", DBFrame>>, <<"row", DBFrame>>>>
    BY <1>2, Zenon DEF Stages
  <2>2. QED
    BY <2>1
<1>3. CASE c.store # "r"
  <2>1. Stages(c) = <<>>
    BY <1>3, Zenon DEF Stages
  <2>2. QED
    BY <2>1
<1>4. QED
  BY <1>1, <1>2, <1>3

LEMMA Q5Stages ==
  ASSUME NEW c, c.tool = "q5"
  PROVE  /\ Len(Stages(c)) = 13
         /\ Stages(c)[1] = <<"zero", DBFrame>> /\ Stages(c)[2] = <<"fill", DBFrame>>
         /\ Stages(c)[3] = <<"config", c.frame_offset>> /\ Stages(c)[4] = <<"frame", DBFrame>>
         /\ Stages(c)[5] = <<"toggle", DBFrame>> /\ Stages(c)[6] = <<"cold", DBFrame>>
         /\ Stages(c)[7] = <<"row", DBFrame>> /\ Stages(c)[8] = <<"frame", DB2Frame>>
         /\ Stages(c)[9] = <<"toggle", DB2Frame>> /\ Stages(c)[10] = <<"zero", DB2Frame>>
         /\ Stages(c)[11] = <<"fill", DB2Frame>> /\ Stages(c)[12] = <<"cold", DB2Frame>>
         /\ Stages(c)[13] = <<"row", DB2Frame>>
<1>1. Stages(c) = <<<<"zero", DBFrame>>, <<"fill", DBFrame>>,
           <<"config", c.frame_offset>>, <<"frame", DBFrame>>, <<"toggle", DBFrame>>,
           <<"cold", DBFrame>>, <<"row", DBFrame>>,
           <<"frame", DB2Frame>>, <<"toggle", DB2Frame>>,
           <<"zero", DB2Frame>>, <<"fill", DB2Frame>>,
           <<"cold", DB2Frame>>, <<"row", DB2Frame>>>>
  BY DEF Stages, Queries
<1>2. QED
  BY <1>1

\* At which tool and place a stage of each kind is found.
LEMMA StagePlaces ==
  ASSUME NEW c \in CommandLine, NEW k \in 1..Len(Stages(c))
  PROVE  LET g == Stages(c)[k]
         IN  /\ g[1] \in {"zero", "fill", "config", "frame", "toggle", "cold", "hot", "row", "col"}
             /\ g[2] \in Frame
             /\ g[1] = "zero" => \/ c.tool = "db_generate" /\ k = 1 /\ g[2] = DBFrame
                                 \/ c.tool = "q5" /\ k = 1 /\ g[2] = DBFrame
                                 \/ c.tool = "q5" /\ k = 10 /\ g[2] = DB2Frame
             /\ g[1] = "fill" => \/ c.tool = "db_generate" /\ k = 2 /\ g[2] = DBFrame
                                 \/ c.tool = "q5" /\ k = 2 /\ g[2] = DBFrame
                                 \/ c.tool = "q5" /\ k = 11 /\ g[2] = DB2Frame
             /\ g[1] = "config" => \/ c.tool = "db_config_relcache" /\ k = 1
                                   \/ c.tool = "q5" /\ k = 3
             /\ g[1] = "frame" => \/ c.tool = "db_reset_relcache" /\ k = 1
                                  \/ c.tool = "q5" /\ k = 4 /\ g[2] = DBFrame
                                  \/ c.tool = "q5" /\ k = 8 /\ g[2] = DB2Frame
             /\ g[1] = "toggle" => \/ c.tool = "db_reset_relcache" /\ k = 2
                                   \/ c.tool = "q5" /\ k \in {5, 9}
             /\ g[1] = "cold" => \/ c.tool \in Queries /\ k = 1 /\ g[2] = DBFrame
                                 \/ c.tool = "q5" /\ k = 6 /\ g[2] = DBFrame
                                 \/ c.tool = "q5" /\ k = 12 /\ g[2] = DB2Frame
             /\ g[1] = "hot" => c.tool \in Queries /\ k = 2 /\ g[2] = DBFrame
             /\ g[1] \in {"row", "col"} => \/ c.tool \in Queries /\ k \in {3, 4} /\ g[2] = DBFrame
                                           \/ c.tool = "q5" /\ k = 7 /\ g[2] = DBFrame
                                           \/ c.tool = "q5" /\ k = 13 /\ g[2] = DB2Frame
<1> DEFINE g == Stages(c)[k]
<1>0. c.tool \in Tools /\ c.frame_offset \in Frame /\ DBFrame \in Frame /\ DB2Frame \in Frame
  BY DEF CommandLine, Frame
<1>1. CASE c.tool = "db_generate"
  <2>1. k \in {1, 2} /\ g = <<IF k = 1 THEN "zero" ELSE "fill", DBFrame>>
    BY <1>1, GenerateStages
  <2>2. QED
    BY <1>0, <1>1, <2>1
<1>2. CASE c.tool = "db_config_relcache"
  <2>1. k = 1 /\ g = <<"config", c.frame_offset>>
    BY <1>2, ConfigStages
  <2>2. QED
    BY <1>0, <1>2, <2>1
<1>3. CASE c.tool = "db_reset_relcache"
  <2>1. k \in {1, 2} /\ g = <<IF k = 1 THEN "frame" ELSE "toggle", c.frame_offset>>
    BY <1>3, ResetStages
  <2>2. QED
    BY <1>0, <1>3, <2>1
<1>4. CASE c.tool \in Queries
  <2>1. \/ k = 1 /\ g = <<"cold", DBFrame>>
        \/ k = 2 /\ g = <<"hot", DBFrame>>
        \/ k = 3 /\ g = <<"row", DBFrame>>
        \/ k = 4 /\ g = <<"col", DBFrame>>
    BY <1>4, QueryStages
  <2>2. QED
    BY <1>0, <1>4, <2>1
<1>5. CASE c.tool = "q5"
  <2>0. Len(Stages(c)) = 13
    BY <1>5, Q5Stages
  <2>1. CASE k = 1
    <3>1. g = <<"zero", DBFrame>>
      BY <1>5, <2>1, Q5Stages
    <3>2. QED
      BY <1>0, <1>5, <2>1, <3>1
  <2>2. CASE k = 2
    <3>1. g = <<"fill", DBFrame>>
      BY <1>5, <2>2, Q5Stages
    <3>2. QED
      BY <1>0, <1>5, <2>2, <3>1
  <2>3. CASE k = 3
    <3>1. g = <<"config", c.frame_offset>>
      BY <1>5, <2>3, Q5Stages
    <3>2. QED
      BY <1>0, <1>5, <2>3, <3>1
  <2>4. CASE k = 4
    <3>1. g = <<"frame", DBFrame>>
      BY <1>5, <2>4, Q5Stages
    <3>2. QED
      BY <1>0, <1>5, <2>4, <3>1
  <2>5. CASE k = 5
    <3>1. g = <<"toggle", DBFrame>>
      BY <1>5, <2>5, Q5Stages
    <3>2. QED
      BY <1>0, <1>5, <2>5, <3>1
  <2>6. CASE k = 6
    <3>1. g = <<"cold", DBFrame>>
      BY <1>5, <2>6, Q5Stages
    <3>2. QED
      BY <1>0, <1>5, <2>6, <3>1
  <2>7. CASE k = 7
    <3>1. g = <<"row", DBFrame>>
      BY <1>5, <2>7, Q5Stages
    <3>2. QED
      BY <1>0, <1>5, <2>7, <3>1
  <2>8. CASE k = 8
    <3>1. g = <<"frame", DB2Frame>>
      BY <1>5, <2>8, Q5Stages
    <3>2. QED
      BY <1>0, <1>5, <2>8, <3>1
  <2>9. CASE k = 9
    <3>1. g = <<"toggle", DB2Frame>>
      BY <1>5, <2>9, Q5Stages
    <3>2. QED
      BY <1>0, <1>5, <2>9, <3>1
  <2>10. CASE k = 10
    <3>1. g = <<"zero", DB2Frame>>
      BY <1>5, <2>10, Q5Stages
    <3>2. QED
      BY <1>0, <1>5, <2>10, <3>1
  <2>11. CASE k = 11
    <3>1. g = <<"fill", DB2Frame>>
      BY <1>5, <2>11, Q5Stages
    <3>2. QED
      BY <1>0, <1>5, <2>11, <3>1
  <2>12. CASE k = 12
    <3>1. g = <<"cold", DB2Frame>>
      BY <1>5, <2>12, Q5Stages
    <3>2. QED
      BY <1>0, <1>5, <2>12, <3>1
  <2>13. CASE k = 13
    <3>1. g = <<"row", DB2Frame>>
      BY <1>5, <2>13, Q5Stages
    <3>2. QED
      BY <1>0, <1>5, <2>13, <3>1
  <2>14. \/ k = 1 \/ k = 2 \/ k = 3 \/ k = 4 \/ k = 5 \/ k = 6 \/ k = 7
         \/ k = 8 \/ k = 9 \/ k = 10 \/ k = 11 \/ k = 12 \/ k = 13
    BY <2>0
  <2>15. QED
    BY <2>14, <2>1, <2>2, <2>3, <2>4, <2>5, <2>6, <2>7, <2>8, <2>9, <2>10, <2>11, <2>12, <2>13,
       Zenon
<1>6. QED
  BY <1>0, <1>1, <1>2, <1>3, <1>4, <1>5 DEF Tools

\* The command line that runs.
LEMMA CommandFacts ==
  ASSUME PlaceInv
  PROVE  /\ command \in CommandLine /\ Len(command.offsets) \in 0..MaxGroups
         /\ Len(script) \in Nat \ {0} /\ Len(Stages(command)) \in Nat
         /\ Running <=> at \in 1..Len(Stages(command))
         /\ command.columns \in Nat /\ command.offsets \in Seq(Int)
         /\ FillSteps \in Nat /\ Rows \in Nat /\ 0..Rows-1 \subseteq Row
<1>1. command \in CommandLine /\ Len(command.offsets) \in 0..MaxGroups /\ Len(script) \in Nat \ {0}
  BY ScriptFacts DEF PlaceInv, command
<1>2. Len(Stages(command)) \in Nat
  <2>1. command.tool \in Tools
    BY <1>1 DEF CommandLine
  <2>2. QED
    BY <2>1, GenerateStages, ConfigStages, ResetStages, QueryStages, Q5Stages DEF Tools
<1>3. Running <=> at \in 1..Len(Stages(command))
  BY <1>2 DEF Running, PlaceInv
<1>4. command.columns \in Nat /\ command.offsets \in Seq(Int)
  BY <1>1 DEF CommandLine
<1>5. FillSteps \in Nat /\ Rows \in Nat /\ 0..Rows-1 \subseteq Row
  BY <1>4, RiseAssumption DEF FillSteps
<1>6. QED
  BY <1>1, <1>2, <1>3, <1>4, <1>5

\* While a tool runs nothing that depends on it changes.
LEMMA SameCommand ==
  ASSUME UNCHANGED <<script, line>>
  PROVE  /\ command' = command /\ Tool' = Tool /\ QueryLine' = QueryLine
         /\ FillSteps' = FillSteps /\ Stores' = Stores
         /\ \A i, n : Filled(i, n)' = Filled(i, n)
         /\ \A t : The(t)' = The(t)
<1>1. command' = command
  BY DEF command
<1>2. QED
  BY <1>1 DEF Tool, QueryLine, FillSteps, Stores, Filled, The

LEMMA SameStage ==
  ASSUME UNCHANGED <<script, line, at>>
  PROVE  /\ stage' = stage /\ Running' = Running
         /\ \A names : In(names)' <=> In(names)
<1>1. command' = command
  BY DEF command
<1>2. stage' = stage /\ Running' = Running
  BY <1>1 DEF stage, Running
<1>3. QED
  BY <1>2 DEF In

-----------------------------------------------------------------------------
LEMMA InitIInv == Init => IInv
<1> SUFFICES ASSUME Init PROVE IInv
  OBVIOUS
<1> USE DEF Init, RelMemoryInit
<1>1. PlaceInv
  <2>1. /\ script \in Script /\ line = 1 /\ at = 1 /\ step = 0 /\ done = {} /\ failures = 0
    OBVIOUS
  <2>2. command \in CommandLine /\ line \in 1..Len(script)
    BY <2>1, ScriptFacts DEF command
  <2>3. Len(Stages(command)) \in Nat
    <3>1. command.tool \in Tools
      BY <2>2 DEF CommandLine
    <3>2. QED
      BY <3>1, GenerateStages, ConfigStages, ResetStages, QueryStages, Q5Stages DEF Tools
  <2>4. QED
    BY <2>1, <2>2, <2>3 DEF PlaceInv
<1>2. ShapeInv
  BY DEF ShapeInv, IsRowMap, Nothing
<1>3. ~In({"fill"}) /\ ~In({"cold", "hot"})
  <2>1. command \in CommandLine /\ (Running => at \in 1..Len(Stages(command)))
    BY <1>1, CommandFacts
  <2>2. Tool \notin Queries
    BY LineFacts, ScriptFacts DEF Tool, command
  <2>3. CASE Running
    <3>1. stage[1] \notin {"fill", "cold", "hot"}
      BY <2>1, <2>2, <2>3, StagePlaces DEF stage, Tool
    <3>2. QED
      BY <3>1 DEF In
  <2>4. QED
    BY <2>3 DEF In
<1>4. TableInv
  BY <1>3 DEF TableInv
<1>5. RegsInv
  <2>1. Len(Stores) \in Nat
    BY <1>1, CommandFacts DEF Stores
  <2>2. QED
    BY <2>1 DEF RegsInv
<1>6. EmptyInv /\ CopiesInv
  BY DEF EmptyInv, CopiesInv, Nothing
<1>7. PassInv /\ WindowIsCurrent
  BY <1>3 DEF PassInv, Relying, WindowIsCurrent
<1>8. QED
  BY <1>1, <1>2, <1>4, <1>5, <1>6, <1>7 DEF IInv

\* A tool is done before the lines behind it run.
LEMMA NextPlaceInv == IInv /\ [Next]_vars => PlaceInv'
<1> SUFFICES ASSUME IInv, [Next]_vars PROVE PlaceInv'
  OBVIOUS
<1> USE DEF PlaceInv
<1>0. PlaceInv /\ Len(script) \in Nat \ {0} /\ Len(Stages(command)) \in Nat
  BY CommandFacts DEF IInv
<1>1. ASSUME Running, NextStage, UNCHANGED done, failures' \in 0..2
      PROVE  PlaceInv'
  <2>1. command' = command
    BY <1>1, SameCommand DEF NextStage
  <2>2. QED
    BY <1>0, <1>1, <2>1 DEF NextStage, Running
<1>2. ASSUME Stay, UNCHANGED <<done, failures>>
      PROVE  PlaceInv'
  <2>1. command' = command
    BY <1>2, SameCommand DEF Stay
  <2>2. QED
    BY <1>0, <1>2, <2>1 DEF Stay
<1>3. ASSUME NEW ended, \A t \in ended : t \in done \/ t = command.tool, Advance(ended),
             failures' \in 0..2
      PROVE  PlaceInv'
  <2>1. /\ script' \in Script /\ line' \in 1..Len(script')
        /\ \A t \in done' : \E n \in 1..line'-1 : script'[n].tool = t
    <3>1. CASE line < Len(script) /\ line' = line + 1 /\ done' = ended /\ UNCHANGED script
      <4>1. line' \in 1..Len(script') /\ line \in 1..line'-1
        BY <1>0, <3>1
      <4>2. \A t \in done' : \E n \in 1..line'-1 : script'[n].tool = t
        <5> TAKE t \in done'
        <5>1. CASE t = command.tool
          BY <3>1, <4>1, <5>1 DEF command
        <5>2. CASE t \in done
          <6>1. PICK n \in 1..line-1 : script[n].tool = t
            BY <1>0, <5>2
          <6>2. n \in 1..line'-1
            BY <1>0, <3>1
          <6>3. QED
            BY <3>1, <6>1, <6>2
        <5>3. QED
          BY <1>3, <3>1, <5>1, <5>2
      <4>3. QED
        BY <1>0, <3>1, <4>1, <4>2
    <3>2. CASE line = Len(script) /\ line' = 1 /\ done' = {} /\ script' \in Script
      BY <3>2, ScriptFacts
    <3>3. QED
      BY <1>3, <3>1, <3>2 DEF Advance
  <2>2. command' \in CommandLine
    BY <2>1, ScriptFacts DEF command
  <2>3. Len(Stages(command')) \in Nat
    <3>1. command'.tool \in Tools
      BY <2>2 DEF CommandLine
    <3>2. QED
      BY <3>1, GenerateStages, ConfigStages, ResetStages, QueryStages, Q5Stages DEF Tools
  <2>4. at' = 1 /\ step' = 0
    BY <1>3 DEF Advance
  <2>5. at' \in 1..Len(Stages(command'))+1
    BY <2>3, <2>4
  <2>6. QED
    BY <1>3, <2>1, <2>4, <2>5
<1>4. CASE ZeroTable \/ EndPass
  BY <1>0, <1>1, <1>4 DEF ZeroTable, EndPass, In, history
<1>5. CASE ResetFrame \/ ResetToggle
  BY <1>0, <1>1, <1>5 DEF ResetFrame, ResetToggle, In, history
<1>6. CASE FillTable \/ ConfigReg
  BY <1>0, <1>1, <1>2, <1>6 DEF FillTable, ConfigReg, In, history
<1>7. CASE ScanWindow \/ ScanDram
  BY <1>0, <1>2, <1>7 DEF ScanWindow, ScanDram, history
<1>8. CASE EndTool
  BY <1>0, <1>3, <1>8 DEF EndTool
<1>9. CASE Fail
  BY <1>0, <1>3, <1>9 DEF Fail
<1>10. CASE MachineStep \/ UNCHANGED vars
  <2>1. UNCHANGED <<script, line, at, step, done, failures>>
    BY <1>10 DEF MachineStep, vars, progress, history
  <2>2. command' = command
    BY <2>1, SameCommand
  <2>3. QED
    BY <1>0, <2>1, <2>2
<1>11. QED
  BY <1>4, <1>5, <1>6, <1>7, <1>8, <1>9, <1>10 DEF Next, ToolStep

\* The stores to the table.
LEMMA WriteFacts ==
  ASSUME ShapeInv, NEW n, Write(n), stage[2] \in Tables, 0..Rows-1 \subseteq Row, Rows \in Nat
  PROVE  LET f == stage[2]
         IN  /\ UNCHANGED <<coherent, regs, reset, packed, cpu, warm>>
             /\ dram' = [g \in Frame |-> dram'[g]] /\ \A g \in Frame : IsRowMap(dram'[g])
             /\ dfresh' = [g \in Tables |-> dfresh'[g]] /\ \A g \in Tables : dfresh'[g] \subseteq Row
             /\ \A g \in Tables : \/ dram'[g] = dram[g] /\ dfresh'[g] = dfresh[g]
                                  \/ g = f /\ dfresh'[g] = {}
             /\ \A g \in Frame \ {f} : dram'[g] = dram[g]
             /\ linux /\ Tool = "db_generate" => UNCHANGED dram
             /\ ~(linux /\ Tool = "db_generate") =>
                  \A i \in 0..Rows-1 : dram'[f][i] = TableRow(command, f, Filled(i, n))
<1> USE DEF ShapeInv, IsRowMap
<1> DEFINE f == stage[2]
<1>0. f \in Frame /\ Tables \subseteq Frame
  BY DEF Tables, Frame
<1>1. CASE linux /\ Tool = "db_generate"
  <2>1. UNCHANGED <<device, dfresh>>
    BY <1>1 DEF Write, Tool
  <2>2. QED
    BY <1>1, <2>1 DEF device
<1>2. CASE ~(linux /\ Tool = "db_generate")
  <2>1. /\ dram' = [dram EXCEPT ![f] =
                      [i \in Row |-> IF i < Rows THEN TableRow(command, f, Filled(i, n)) ELSE @[i]]]
        /\ dfresh' = [dfresh EXCEPT ![f] = {}]
        /\ UNCHANGED <<coherent, regs, reset, packed, cpu, warm>>
    BY <1>2 DEF Write, Tool
  <2>2. dram'[f] = [i \in Row |-> IF i < Rows THEN TableRow(command, f, Filled(i, n)) ELSE dram[f][i]]
        /\ dram' = [g \in Frame |-> dram'[g]] /\ \A g \in Frame \ {f} : dram'[g] = dram[g]
    BY <1>0, <2>1
  <2>3. /\ dfresh' = [g \in Tables |-> dfresh'[g]] /\ dfresh'[f] = {}
        /\ \A g \in Tables \ {f} : dfresh'[g] = dfresh[g]
    BY <2>1
  <2>4. \A i \in 0..Rows-1 : dram'[f][i] = TableRow(command, f, Filled(i, n))
    BY <2>2
  <2>5. \A g \in Frame : IsRowMap(dram'[g])
    BY <2>2
  <2> HIDE DEF f
  <2>6. \A g \in Tables : \/ dram'[g] = dram[g] /\ dfresh'[g] = dfresh[g]
                          \/ g = f /\ dfresh'[g] = {}
    BY <1>0, <2>2, <2>3
  <2>7. \A g \in Tables : dfresh'[g] \subseteq Row
    BY <2>3, <2>6
  <2>8. QED
    BY <1>2, <2>1, <2>2, <2>3, <2>4, <2>5, <2>6, <2>7 DEF f
<1>3. QED
  BY <1>1, <1>2

\* The machine keeps its shape.
LEMMA NextShapeInv == IInv /\ [Next]_vars => ShapeInv'
<1> SUFFICES ASSUME IInv, [Next]_vars PROVE ShapeInv'
  OBVIOUS
<1> USE DEF ShapeInv, IsRowMap
<1>0. /\ PlaceInv /\ ShapeInv /\ Rows \in Nat /\ 0..Rows-1 \subseteq Row
      /\ command \in CommandLine /\ (Running => at \in 1..Len(Stages(command)))
  BY CommandFacts DEF IInv
<1>1. CASE ZeroTable \/ FillTable
  <2>1. UNCHANGED <<dcache, seen>> /\ (UNCHANGED <<device, dfresh>> \/ \E n : Write(n))
    BY <1>1 DEF ZeroTable, FillTable
  <2>2. stage[2] \in Tables
    BY <1>0, <1>1, StagePlaces DEF ZeroTable, FillTable, In, stage, Tables
  <2>3. CASE UNCHANGED <<device, dfresh>>
    BY <1>0, <2>1, <2>3 DEF device
  <2>4. ASSUME NEW n, Write(n) PROVE ShapeInv'
    <3>1. /\ UNCHANGED <<coherent, regs, reset, packed, cpu, warm>>
          /\ dram' = [g \in Frame |-> dram'[g]] /\ \A g \in Frame : IsRowMap(dram'[g])
          /\ dfresh' = [g \in Tables |-> dfresh'[g]] /\ \A g \in Tables : dfresh'[g] \subseteq Row
      BY <1>0, <2>2, <2>4, WriteFacts
    <3>2. QED
      BY <1>0, <2>1, <3>1
  <2>5. QED
    BY <2>1, <2>3, <2>4
<1>2. CASE ConfigReg \/ ResetFrame
  <2>1. UNCHANGED <<dcache, seen, dfresh>>
        /\ (UNCHANGED device \/ \E r, v : StoreReg(r, v))
    BY <1>2 DEF ConfigReg, ResetFrame, history
  <2>2. CASE UNCHANGED device
    BY <1>0, <2>1, <2>2 DEF device
  <2>3. ASSUME NEW r, NEW v, StoreReg(r, v) PROVE ShapeInv'
    <3>1. regs' = [regs EXCEPT ![r] = v] /\ UNCHANGED <<dram, reset, packed, cpu, warm>>
      BY <2>3 DEF StoreReg
    <3>2. regs' = [q \in RegName |-> regs'[q]]
      BY <1>0, <3>1
    <3>3. QED
      BY <1>0, <2>1, <3>1, <3>2
  <2>4. QED
    BY <2>1, <2>2, <2>3
<1>3. CASE ResetToggle
  <2>1. UNCHANGED <<dram, regs, dcache, seen, dfresh>> /\ reset' = (reset + 1) % 2
    BY <1>3 DEF ResetToggle, StoreReset
  <2>2. reset' \in {0, 1}
    BY <1>0, <2>1
  <2>3. IsRowMap(packed') /\ IsRowMap(cpu') /\ warm' \subseteq Row
    BY <1>0, <1>3 DEF ResetToggle, StoreReset, Nothing
  <2>4. QED
    BY <1>0, <2>1, <2>2, <2>3
<1>4. CASE ScanWindow
  <2>1. PICK row : /\ LoadCached(step, row) \/ LoadPacked(step, row)
                   /\ seen' = [seen EXCEPT ![step] = {row}]
    BY <1>4 DEF ScanWindow
  <2>2. UNCHANGED <<dcache, dfresh>> /\ step \in Row
    BY <1>0, <1>4 DEF ScanWindow, history, PlaceInv
  <2>3. IsRowMap(seen')
    BY <1>0, <2>1
  <2>4. UNCHANGED <<dram, regs, reset>>
    BY <2>1 DEF LoadCached, LoadPacked, device
  <2>5. IsRowMap(packed') /\ IsRowMap(cpu') /\ warm' \subseteq Row
    BY <1>0, <2>1, <2>2 DEF LoadCached, LoadPacked, device
  <2>6. QED
    BY <1>0, <2>2, <2>3, <2>4, <2>5
<1>5. CASE ScanDram
  <2> DEFINE f == stage[2]
  <2>1. UNCHANGED device
    BY <1>5 DEF ScanDram
  <2>2. f \in Tables /\ step \in Row
    <3>1. Running /\ stage[1] \in {"row", "col"} /\ step \in Row
      BY <1>0, <1>5 DEF ScanDram, In, PlaceInv
    <3>2. f \in Tables
      BY <1>0, <3>1, StagePlaces DEF stage, Tables
    <3>3. QED
      BY <3>1, <3>2
  <2>3. \/ seen' = [seen EXCEPT ![step] = dcache[f][step]]
        \/ seen' = [seen EXCEPT ![step] = {dram[f][step]}]
    BY <1>5 DEF ScanDram
  <2>4. \/ UNCHANGED <<dcache, dfresh>>
        \/ /\ dcache' = [dcache EXCEPT ![f][step] = {dram[f][step]}]
           /\ dfresh' = [dfresh EXCEPT ![f] = @ \cup {step}]
    BY <1>5 DEF ScanDram
  <2> HIDE DEF f
  <2>5. dcache' = [g \in Tables |-> dcache'[g]] /\ \A g \in Tables : IsRowMap(dcache'[g])
    <3>1. CASE UNCHANGED <<dcache, dfresh>>
      BY <1>0, <3>1
    <3>2. CASE dcache' = [dcache EXCEPT ![f][step] = {dram[f][step]}]
      <4>1. dcache' = [dcache EXCEPT ![f] = [dcache[f] EXCEPT ![step] = {dram[f][step]}]]
        BY <3>2, Zenon
      <4>2. dcache'[f] = [dcache[f] EXCEPT ![step] = {dram[f][step]}]
            /\ \A g \in Tables \ {f} : dcache'[g] = dcache[g]
        BY <1>0, <2>2, <4>1
      <4>3. IsRowMap(dcache'[f])
        BY <1>0, <2>2, <4>2, Zenon
      <4>4. QED
        BY <1>0, <4>1, <4>2, <4>3, ZenonT(60)
    <3>3. QED
      BY <2>4, <3>1, <3>2
  <2>6. dfresh' = [g \in Tables |-> dfresh'[g]] /\ \A g \in Tables : dfresh'[g] \subseteq Row
    <3>1. CASE UNCHANGED dfresh
      BY <1>0, <3>1
    <3>2. CASE dfresh' = [dfresh EXCEPT ![f] = @ \cup {step}]
      <4>1. /\ dfresh'[f] = dfresh[f] \cup {step}
            /\ \A g \in Tables \ {f} : dfresh'[g] = dfresh[g]
        BY <1>0, <2>2, <3>2
      <4>2. dfresh' = [g \in Tables |-> dfresh'[g]]
        BY <1>0, <3>2, Zenon
      <4>3. ASSUME NEW g \in Tables PROVE dfresh'[g] \subseteq Row
        <5>1. CASE g = f
          BY <1>0, <2>2, <4>1, <5>1
        <5>2. CASE g # f
          BY <1>0, <4>1, <5>2
        <5>3. QED
          BY <5>1, <5>2
      <4>4. QED
        BY <4>2, <4>3
    <3>3. QED
      BY <2>4, <3>1, <3>2
  <2>7. IsRowMap(seen')
    BY <1>0, <2>3
  <2>8. QED
    BY <1>0, <2>1, <2>5, <2>6, <2>7 DEF device
<1>6. CASE EndPass \/ EndTool \/ Fail \/ UNCHANGED vars
  <2>1. UNCHANGED <<device, dcache, dfresh>> /\ (seen' = Nothing \/ UNCHANGED seen)
    BY <1>6 DEF EndPass, EndTool, Fail, vars, history
  <2>2. QED
    BY <1>0, <2>1 DEF device, Nothing
<1>7. CASE MachineStep
  <2>1. UNCHANGED <<dram, regs, reset, seen>>
    BY <1>7 DEF MachineStep, PackAhead, Evict, EvictDram, device
  <2>2. PICK i \in Row : \/ (PackAhead(i) \/ Evict(i)) /\ UNCHANGED <<dcache, dfresh>>
                         \/ \E f \in Tables : EvictDram(f, i)
    BY <1>7 DEF MachineStep
  <2>3. CASE (PackAhead(i) \/ Evict(i)) /\ UNCHANGED <<dcache, dfresh>>
    <3>1. IsRowMap(packed') /\ IsRowMap(cpu') /\ warm' \subseteq Row
      BY <1>0, <2>3 DEF PackAhead, Evict
    <3>2. QED
      BY <1>0, <2>1, <2>3, <3>1
  <2>4. ASSUME NEW f \in Tables, EvictDram(f, i) PROVE ShapeInv'
    <3>1. /\ dcache' = [dcache EXCEPT ![f][i] = {}] /\ dfresh' = [dfresh EXCEPT ![f] = @ \ {i}]
          /\ UNCHANGED device
      BY <2>4 DEF EvictDram
    <3>2. dcache' = [g \in Tables |-> dcache'[g]] /\ \A g \in Tables : IsRowMap(dcache'[g])
      <4>1. dcache' = [dcache EXCEPT ![f] = [dcache[f] EXCEPT ![i] = {}]]
        BY <3>1, Zenon
      <4>2. dcache'[f] = [dcache[f] EXCEPT ![i] = {}]
            /\ \A g \in Tables \ {f} : dcache'[g] = dcache[g]
        BY <1>0, <2>4, <4>1
      <4>3. IsRowMap(dcache'[f])
        BY <1>0, <2>4, <4>2
      <4>4. dcache' = [g \in Tables |-> dcache'[g]]
        BY <1>0, <4>1
      <4>5. ASSUME NEW g \in Tables PROVE IsRowMap(dcache'[g])
        <5>1. g # f => dcache'[g] = dcache[g]
          BY <4>2
        <5>2. QED
          BY <1>0, <4>3, <5>1
      <4>6. QED
        BY <4>4, <4>5
    <3>3. dfresh' = [g \in Tables |-> dfresh'[g]] /\ \A g \in Tables : dfresh'[g] \subseteq Row
      <4>1. dfresh' = [dfresh EXCEPT ![f] = dfresh[f] \ {i}]
        BY <3>1, Zenon
      <4>2. dfresh' = [g \in Tables |-> dfresh'[g]]
        BY <1>0, <4>1
      <4>3. \A g \in Tables : dfresh'[g] = IF g = f THEN dfresh[f] \ {i} ELSE dfresh[g]
        BY <1>0, <4>1
      <4>4. QED
        BY <1>0, <4>2, <4>3
    <3>4. UNCHANGED <<packed, cpu, warm>>
      BY <3>1 DEF device
    <3>5. QED
      BY <1>0, <2>1, <3>2, <3>3, <3>4
  <2>5. QED
    BY <2>2, <2>3, <2>4
<1>8. QED
  BY <1>1, <1>2, <1>3, <1>4, <1>5, <1>6, <1>7 DEF Next, ToolStep

-----------------------------------------------------------------------------
\* A tool that is done is not the one that runs, and is the only one of its
\* kind in the script.
LEMMA DoneFacts ==
  ASSUME PlaceInv, NEW t \in done, t \in {"db_generate", "db_config_relcache"}
  PROVE  /\ Tool # t /\ Tool # "q5"
         /\ The(t) \in CommandLine /\ Len(The(t).offsets) \in 0..MaxGroups
         /\ The(t).tool = t /\ The(t).frame_offset = DBFrame
<1>1. PICK n \in 1..line-1 : script[n].tool = t
  BY DEF PlaceInv
<1>2. script \in Script /\ line \in 1..Len(script) /\ Len(script) \in Nat /\ n \in 1..Len(script)
      /\ n < line
  BY <1>1, ScriptFacts DEF PlaceInv
<1>3. The(t) = script[n]
  BY <1>1, <1>2, TheOnly
<1>4. Tool # t
  BY <1>1, <1>2, LineFacts DEF Tool, command
<1>5. Tool # "q5"
  BY <1>1, <1>2, LineFacts DEF Tool, command
<1>6. QED
  BY <1>1, <1>2, <1>3, <1>4, <1>5, ScriptFacts, LineFacts

\* While no table is written, the tables stay as far as they have come.
LEMMA TableStays ==
  ASSUME IInv, UNCHANGED <<linux, dram, script, line, done>>,
         \/ UNCHANGED <<at, step>>
         \/ Running /\ stage[1] \notin {"zero", "fill"} /\ at' \in {at, at+1}
  PROVE  TableInv'
<1>0. /\ PlaceInv /\ TableInv /\ command \in CommandLine
      /\ (Running => at \in 1..Len(Stages(command))) /\ Len(Stages(command)) \in Nat
  BY CommandFacts DEF IInv
<1>1. /\ command' = command /\ Tool' = Tool /\ FillSteps' = FillSteps
      /\ \A t : The(t)' = The(t)
      /\ \A i, n : Filled(i, n)' = Filled(i, n)
  BY SameCommand
<1>2. \A c, f : Written(c, f)' = Written(c, f)
  BY DEF Written
<1>3. CASE UNCHANGED <<at, step>>
  <2>1. stage' = stage /\ (In({"fill"})' <=> In({"fill"}))
    BY <1>3, SameStage
  <2>2. \A i : Filled(i, step)' = Filled(i, step)
    BY <1>1, <1>3 DEF Filled
  <2>3. QED
    BY <1>0, <1>1, <1>2, <1>3, <2>1, <2>2 DEF TableInv
<1>4. CASE Running /\ stage[1] \notin {"zero", "fill"} /\ at' \in {at, at+1}
  <2>1. at \in 1..Len(Stages(command)) /\ stage = Stages(command)[at]
    BY <1>0, <1>4 DEF stage
  <2>2. /\ Tool = "db_generate" => at \notin {1, 2}
        /\ Tool = "q5" => at \notin {1, 2, 10, 11}
    <3>1. Tool = "db_generate" =>
            Stages(command)[1][1] = "zero" /\ Stages(command)[2][1] = "fill"
      BY GenerateStages DEF Tool
    <3>2. Tool = "q5" =>
            /\ Stages(command)[1][1] = "zero" /\ Stages(command)[2][1] = "fill"
            /\ Stages(command)[10][1] = "zero" /\ Stages(command)[11][1] = "fill"
      BY Q5Stages DEF Tool
    <3>3. QED
      BY <1>4, <2>1, <3>1, <3>2
  <2>3. ~In({"fill"})'
    <3>1. SUFFICES ASSUME In({"fill"})' PROVE FALSE
      OBVIOUS
    <3>2. at' \in 1..Len(Stages(command)) /\ Stages(command)[at'][1] = "fill"
      BY <1>0, <1>1, <1>4, <2>1, <3>1 DEF In, Running, stage
    <3>3. (Tool = "db_generate" /\ at' = 2) \/ (Tool = "q5" /\ at' \in {2, 11})
      BY <1>0, <3>2, StagePlaces DEF Tool
    <3>4. QED
      BY <1>4, <2>1, <2>2, <3>3
  <2>4. /\ Tool = "db_generate" => at' # 3 \/ at = 3
        /\ Tool = "q5" /\ at' >= 3 => at >= 3
        /\ Tool = "q5" /\ at' >= 12 => at >= 12
    BY <1>4, <2>1, <2>2
  <2>5. QED
    BY <1>0, <1>1, <1>2, <2>3, <2>4 DEF TableInv
<1>5. QED
  BY <1>3, <1>4

\* The tables stand in DRAM as far as they have been written.
LEMMA NextTableInv == IInv /\ [Next]_vars => TableInv'
<1> SUFFICES ASSUME IInv, [Next]_vars PROVE TableInv'
  OBVIOUS
<1>0. /\ PlaceInv /\ ShapeInv /\ TableInv /\ command \in CommandLine
      /\ (Running <=> at \in 1..Len(Stages(command))) /\ Len(Stages(command)) \in Nat
      /\ FillSteps \in Nat /\ command.columns \in Nat /\ step \in Nat
      /\ Rows \in Nat /\ 0..Rows-1 \subseteq Row
  BY CommandFacts DEF IInv, PlaceInv
<1>1. CASE ConfigReg \/ ResetFrame \/ ResetToggle \/ ScanWindow \/ ScanDram \/ EndPass
  <2>1. UNCHANGED <<linux, dram, script, line, done>>
    BY <1>1 DEF ConfigReg, ResetFrame, ResetToggle, ScanWindow, ScanDram, EndPass, NextStage,
       Stay, StoreReg, StoreReset, LoadCached, LoadPacked, device, history
  <2>2. Running /\ stage[1] \notin {"zero", "fill"}
    BY <1>1 DEF ConfigReg, ResetFrame, ResetToggle, ScanWindow, ScanDram, EndPass, In
  <2>3. at' \in {at, at+1}
    BY <1>1 DEF ConfigReg, ResetFrame, ResetToggle, ScanWindow, ScanDram, EndPass, NextStage,
       Stay
  <2>4. QED
    BY <2>1, <2>2, <2>3, TableStays
<1>2. CASE MachineStep \/ UNCHANGED vars
  <2>1. UNCHANGED <<linux, dram, script, line, done, at, step>>
    BY <1>2 DEF MachineStep, PackAhead, Evict, EvictDram, vars, device, progress, history
  <2>2. QED
    BY <2>1, TableStays
<1>3. ASSUME NEW n \in Nat, Write(n), n <= FillSteps, step' = n,
             UNCHANGED <<linux, script, line, done>>,
             \/ In({"zero"}) /\ at' = at+1 /\ n = 0
             \/ In({"fill"}) /\ at' = at
      PROVE  TableInv'
  <2> DEFINE f == stage[2]
  <2>1. /\ command' = command /\ Tool' = Tool /\ FillSteps' = FillSteps
        /\ \A t : The(t)' = The(t)
        /\ \A i, m : Filled(i, m)' = Filled(i, m)
    BY <1>3, SameCommand
  <2>2. \/ Tool = "db_generate" /\ at' = 2 /\ f = DBFrame
        \/ Tool = "q5" /\ at' = 2 /\ f = DBFrame
        \/ Tool = "q5" /\ at' = 11 /\ f = DB2Frame
    <3>1. Running /\ stage = Stages(command)[at]
      BY <1>3 DEF In, stage
    <3>2. stage[1] = IF at' = at THEN "fill" ELSE "zero"
      BY <1>0, <1>3, <3>1 DEF In
    <3>3. CASE at' = at
      BY <1>0, <3>1, <3>2, <3>3, StagePlaces DEF Tool
    <3>4. CASE at' = at + 1
      BY <1>0, <3>1, <3>2, <3>4, StagePlaces DEF Tool
    <3>5. QED
      BY <1>3, <3>3, <3>4
  <2>3. Stages(command)[at'] = <<"fill", f>> /\ stage' = <<"fill", f>>
    <3>1. Stages(command)[at'] = <<"fill", f>>
      BY <2>2, GenerateStages, Q5Stages DEF Tool
    <3>2. QED
      BY <2>1, <3>1 DEF stage
  <2>4. f \in Tables
    BY <2>2 DEF Tables
  <2>5. /\ \A g \in Frame \ {f} : dram'[g] = dram[g]
        /\ ~(linux /\ Tool = "db_generate") =>
             \A i \in 0..Rows-1 : dram'[f][i] = TableRow(command, f, Filled(i, n))
    BY <1>0, <1>3, <2>4, WriteFacts
  <2>6. "db_generate" \notin done'
    BY <1>0, <1>3, <2>2, DoneFacts
  <2>7. \A i : Filled(i, step)' = Filled(i, n)
    BY <1>3, <2>1 DEF Filled
  <2>8. Tool = "q5" /\ at' >= 3 => Written(command, DBFrame)'
    <3> SUFFICES ASSUME Tool = "q5", at' >= 3 PROVE Written(command, DBFrame)'
      OBVIOUS
    <3>1. at' = 11 /\ at >= 3 /\ f = DB2Frame
      BY <1>0, <1>3, <2>2 DEF PlaceInv
    <3>2. Written(command, DBFrame)
      BY <1>0, <3>1 DEF TableInv
    <3>3. dram'[DBFrame] = dram[DBFrame]
      BY <2>5, <3>1 DEF Frame, DBFrame, DB2Frame
    <3>4. QED
      BY <2>1, <3>2, <3>3 DEF Written
  <2> HIDE DEF f
  <2>9. In({"fill"})' => step' <= FillSteps' /\ (~(linux' /\ Tool' = "db_generate") =>
            \A i \in 0..Rows-1 : dram'[stage'[2]][i] = TableRow(command', stage'[2], Filled(i, step)'))
    BY <1>3, <2>1, <2>3, <2>5, <2>7
  <2>10. ~(Tool' = "db_generate" /\ at' = 3) /\ ~(Tool' = "q5" /\ at' >= 12)
    BY <2>1, <2>2
  <2>11. QED
    BY <2>1, <2>6, <2>8, <2>9, <2>10 DEF TableInv
<1>4. CASE ZeroTable
  BY <1>0, <1>3, <1>4 DEF ZeroTable, NextStage
<1>5. CASE FillTable /\ step < FillSteps
  <2>1. step+1 \in Nat /\ step+1 <= FillSteps
    BY <1>0, <1>5
  <2>2. In({"fill"}) /\ Write(step+1) /\ Stay /\ UNCHANGED <<linux, done>>
    BY <1>5 DEF FillTable
  <2>3. QED
    BY <1>3, <2>1, <2>2 DEF Stay
<1>6. CASE FillTable /\ ~(step < FillSteps)
  <2>1. In({"fill"}) /\ NextStage /\ UNCHANGED <<device, linux, done>>
    BY <1>6 DEF FillTable
  <2>2. step = FillSteps
    BY <1>0, <1>6, <2>1 DEF TableInv
  <2>3. command' = command /\ Tool' = Tool /\ \A t : The(t)' = The(t)
    BY <2>1, SameCommand DEF NextStage
  <2>4. \/ Tool = "db_generate" /\ at = 2 /\ stage[2] = DBFrame
        \/ Tool = "q5" /\ at = 2 /\ stage[2] = DBFrame
        \/ Tool = "q5" /\ at = 11 /\ stage[2] = DB2Frame
    BY <1>0, <2>1, StagePlaces DEF In, stage, Tool
  <2>5. ~(linux /\ Tool = "db_generate") => Written(command, stage[2])
    <3>1. \A i \in 0..Rows-1 : Filled(i, step) = command.columns
      BY <1>0, <2>2 DEF Filled, FillSteps
    <3>2. QED
      BY <1>0, <2>1, <3>1 DEF TableInv, Written
  <2>6. UNCHANGED <<dram, linux, done>> /\ at' = at + 1
    BY <2>1 DEF device, NextStage
  <2>7. ~In({"fill"})'
    <3>1. SUFFICES ASSUME In({"fill"})' PROVE FALSE
      OBVIOUS
    <3>2. at' \in 1..Len(Stages(command)) /\ Stages(command)[at'][1] = "fill"
      BY <1>0, <2>3, <2>4, <2>6, <3>1 DEF In, Running, stage
    <3>3. (Tool = "db_generate" /\ at' = 2) \/ (Tool = "q5" /\ at' \in {2, 11})
      BY <1>0, <3>2, StagePlaces DEF Tool
    <3>4. QED
      BY <2>4, <2>6, <3>3
  <2>8. \A c, g : Written(c, g)' = Written(c, g)
    BY <2>6 DEF Written
  <2>9. /\ (Tool = "q5" /\ at' >= 3) => Written(command, DBFrame)
        /\ (Tool = "q5" /\ at' >= 12) => Written(command, DB2Frame)
        /\ (Tool = "db_generate" /\ ~linux) => Written(command, DBFrame)
    BY <1>0, <2>4, <2>5, <2>6 DEF TableInv
  <2>10. QED
    BY <1>0, <2>3, <2>6, <2>7, <2>8, <2>9 DEF TableInv
<1>7. CASE EndTool \/ Fail
  <2>1. PICK ended : /\ Advance(ended)
                     /\ ended = done \/ (ended = done \cup {Tool} /\ ~Running)
    BY <1>7 DEF EndTool, Fail, Tool
  <2>2. UNCHANGED <<dram, linux>> /\ at' = 1
    BY <1>7, <2>1 DEF EndTool, Fail, device, Advance
  <2>3. ~In({"fill"})'
    <3>1. PlaceInv'
      BY NextPlaceInv
    <3>2. command' \in CommandLine /\ (Running' => 1 \in 1..Len(Stages(command')))
      BY <2>2, <3>1, ScriptFacts DEF PlaceInv, command, Running
    <3>3. Running' => Stages(command')[1][1] # "fill"
      BY <3>2, StagePlaces
    <3>4. QED
      BY <2>2, <3>3 DEF In, stage
  <2>4. "db_generate" \in done' /\ ~linux => Written(The("db_generate"), DBFrame)'
    <3> SUFFICES ASSUME "db_generate" \in done', ~linux
                 PROVE  Written(The("db_generate"), DBFrame)'
      OBVIOUS
    <3>1. UNCHANGED script /\ done' = ended
      BY <2>1 DEF Advance
    <3>2. The("db_generate")' = The("db_generate")
      BY <3>1 DEF The
    <3>3. Written(The("db_generate"), DBFrame)
      <4>1. CASE "db_generate" \in done
        BY <1>0, <4>1 DEF TableInv
      <4>2. CASE "db_generate" \notin done
        <5>1. Tool = "db_generate" /\ ~Running
          BY <2>1, <3>1, <4>2
        <5>2. at = 3
          <6>1. Len(Stages(command)) = 2
            BY <5>1, GenerateStages DEF Tool
          <6>2. at \in 1..3 /\ at \notin 1..2
            BY <1>0, <5>1, <6>1 DEF PlaceInv
          <6>3. QED
            BY <6>2
        <5>3. The("db_generate") = command
          BY <1>0, <5>1, TheOnly DEF PlaceInv, command, Tool
        <5>4. QED
          BY <1>0, <5>1, <5>2, <5>3 DEF TableInv
      <4>3. QED
        BY <4>1, <4>2
    <3>4. QED
      BY <2>2, <3>2, <3>3 DEF Written
  <2>5. QED
    BY <2>2, <2>3, <2>4 DEF TableInv
<1>8. QED
  BY <1>1, <1>2, <1>4, <1>5, <1>6, <1>7 DEF Next, ToolStep

-----------------------------------------------------------------------------
\* The order of the stores for n enabled columns.
StoresFor(n) ==
  LET scalars == <<<<"row_size", 0>>, <<"row_count", 0>>, EnabledColNum>>
  IN  [j \in 1..2*n+4 |-> IF j <= 3 THEN scalars[j]
                          ELSE IF j <= n+3 THEN <<"col_widths", j-4>>
                          ELSE IF j <= 2*n+3 THEN <<"col_offsets", j-n-4>>
                          ELSE FrameOffset]

LEMMA StoresForFacts ==
  ASSUME NEW n \in Nat
  PROVE  /\ Len(StoresFor(n)) = 2*n+4
         /\ StoresFor(n)[1] = <<"row_size", 0>> /\ StoresFor(n)[2] = <<"row_count", 0>>
         /\ StoresFor(n)[3] = EnabledColNum /\ StoresFor(n)[2*n+4] = FrameOffset
         /\ \A j \in 4..n+3 : StoresFor(n)[j] = <<"col_widths", j-4>>
         /\ \A j \in n+4..2*n+3 : StoresFor(n)[j] = <<"col_offsets", j-n-4>>
<1>1. Len(StoresFor(n)) = 2*n+4
  BY DEF StoresFor
<1>2. {1, 2, 3, 2*n+4} \subseteq 1..2*n+4 /\ 4..n+3 \subseteq 1..2*n+4 /\ n+4..2*n+3 \subseteq 1..2*n+4
  OBVIOUS
<1>3. /\ StoresFor(n)[1] = <<"row_size", 0>> /\ StoresFor(n)[2] = <<"row_count", 0>>
      /\ StoresFor(n)[3] = EnabledColNum /\ StoresFor(n)[2*n+4] = FrameOffset
  BY DEF StoresFor
<1>4. \A j \in 4..n+3 : StoresFor(n)[j] = <<"col_widths", j-4>>
  BY <1>2 DEF StoresFor
<1>5. \A j \in n+4..2*n+3 : StoresFor(n)[j] = <<"col_offsets", j-n-4>>
  BY <1>2 DEF StoresFor
<1>6. QED
  BY <1>1, <1>3, <1>4, <1>5

\* configure_relcache stores the registers the engine looks at and no other.
LEMMA StoresExactly ==
  ASSUME NEW n \in 0..MaxGroups
  PROVE  /\ \A j \in 1..Len(StoresFor(n)) : StoresFor(n)[j] \in Significant(n)
         /\ \A r \in Significant(n) : \E j \in 1..Len(StoresFor(n)) : StoresFor(n)[j] = r
         /\ Significant(n) \subseteq RegName
<1> USE DEF Significant, ScalarRegs, ColumnRegs, EnabledColNum, FrameOffset
<1> DEFINE st == StoresFor(n)
<1>0. /\ n \in Nat
      /\ Len(st) = 2*n+4
      /\ st[1] = <<"row_size", 0>> /\ st[2] = <<"row_count", 0>>
      /\ st[3] = EnabledColNum /\ st[2*n+4] = FrameOffset
      /\ \A j \in 4..n+3 : st[j] = <<"col_widths", j-4>>
      /\ \A j \in n+4..2*n+3 : st[j] = <<"col_offsets", j-n-4>>
  <2>1. n \in Nat
    OBVIOUS
  <2>2. QED
    BY <2>1, StoresForFacts
<1> HIDE DEF st
<1>1. ASSUME NEW j \in 1..2*n+4 PROVE st[j] \in Significant(n)
  <2>1. j \in {1, 2, 3, 2*n+4} \/ j \in 4..n+3 \/ j \in n+4..2*n+3
    OBVIOUS
  <2>2. CASE j \in {1, 2, 3, 2*n+4}
    BY <2>2, <1>0
  <2>3. CASE j \in 4..n+3
    <3>1. j-4 \in 0..n-1 /\ st[j] = <<"col_widths", j-4>>
      BY <2>3, <1>0
    <3>2. QED
      BY <3>1
  <2>4. CASE j \in n+4..2*n+3
    <3>1. j-n-4 \in 0..n-1 /\ st[j] = <<"col_offsets", j-n-4>>
      BY <2>4, <1>0
    <3>2. QED
      BY <3>1
  <2>5. QED
    BY <2>1, <2>2, <2>3, <2>4
<1>2. ASSUME NEW r \in Significant(n) PROVE \E j \in 1..2*n+4 : st[j] = r
  <2>1. CASE r \in ScalarRegs
    BY <2>1, <1>0, {1, 2, 3, 2*n+4} \subseteq 1..2*n+4
  <2>2. CASE r \in ColumnRegs(n)
    <3>1. PICK w \in {"col_widths", "col_offsets"}, c \in 0..n-1 : r = <<w, c>>
      BY <2>2
    <3>2. CASE w = "col_widths"
      <4>1. c+4 \in 4..n+3 /\ c+4 \in 1..2*n+4 /\ (c+4)-4 = c
        OBVIOUS
      <4>2. st[c+4] = <<"col_widths", c>>
        BY <4>1, <1>0
      <4>3. QED
        BY <3>1, <3>2, <4>1, <4>2
    <3>3. CASE w = "col_offsets"
      <4>1. c+n+4 \in n+4..2*n+3 /\ c+n+4 \in 1..2*n+4 /\ (c+n+4)-n-4 = c
        OBVIOUS
      <4>2. st[c+n+4] = <<"col_offsets", c>>
        BY <4>1, <1>0
      <4>3. QED
        BY <3>1, <3>3, <4>1, <4>2
    <3>4. QED
      BY <3>1, <3>2, <3>3
  <2>3. QED
    BY <2>1, <2>2
<1>3. Significant(n) \subseteq RegName
  BY DEF RegName
<1>4. QED
  BY <1>0, <1>1, <1>2, <1>3 DEF st

LEMMA StoresFacts ==
  ASSUME PlaceInv
  PROVE  /\ Stores = StoresFor(Len(command.offsets))
         /\ Len(Stores) \in Nat
         /\ \A j \in 1..Len(Stores) : Stores[j] \in RegName
         /\ \A r \in Significant(Len(command.offsets)) : \E j \in 1..Len(Stores) : Stores[j] = r
<1>1. Len(command.offsets) \in 0..MaxGroups /\ Len(command.offsets) \in Nat
  BY CommandFacts
<1>2. Stores = StoresFor(Len(command.offsets))
  BY Zenon DEF Stores, StoresFor
<1>3. Len(Stores) \in Nat
  BY <1>1, <1>2, StoresForFacts
<1>4. QED
  BY <1>1, <1>2, <1>3, StoresExactly

\* While no register is stored, the registers stay as far as they have come.
LEMMA RegsStay ==
  ASSUME IInv, UNCHANGED <<regs, script, line, done>>,
         \/ UNCHANGED <<at, step>>
         \/ Running /\ stage[1] \notin {"config", "frame"} /\ at' = at
         \/ Running /\ stage[1] \notin {"config", "frame"} /\ at' = at+1 /\ step' = 0
  PROVE  RegsInv'
<1>0. /\ PlaceInv /\ RegsInv /\ command \in CommandLine
      /\ (Running => at \in 1..Len(Stages(command))) /\ Len(Stages(command)) \in Nat
      /\ Len(Stores) \in Nat
  BY CommandFacts, StoresFacts DEF IInv
<1>1. /\ command' = command /\ Tool' = Tool /\ Stores' = Stores /\ QueryLine' = QueryLine
      /\ \A t : The(t)' = The(t)
  BY SameCommand
<1>2. \A c : Set(c)' <=> Set(c)
  BY DEF Set
<1>3. CASE UNCHANGED <<at, step>>
  <2>1. In({"config"})' <=> In({"config"})
    BY <1>3, SameStage
  <2>2. QED
    BY <1>0, <1>1, <1>2, <1>3, <2>1 DEF RegsInv
<1>4. CASE Running /\ stage[1] \notin {"config", "frame"} /\ (at' = at \/ (at' = at+1 /\ step' = 0))
  <2>1. at \in 1..Len(Stages(command)) /\ stage = Stages(command)[at]
    BY <1>0, <1>4 DEF stage
  <2>2. /\ Tool = "db_config_relcache" => at # 1
        /\ Tool = "q5" => at \notin {3, 4, 8}
    <3>1. Tool = "db_config_relcache" => Stages(command)[1][1] = "config"
      BY ConfigStages DEF Tool
    <3>2. Tool = "q5" => /\ Stages(command)[3][1] = "config"
                         /\ Stages(command)[4][1] = "frame" /\ Stages(command)[8][1] = "frame"
      BY Q5Stages DEF Tool
    <3>3. QED
      BY <1>4, <2>1, <3>1, <3>2
  <2>3. In({"config"})' => step' = 0
    <3>1. CASE at' = at
      <4>1. stage' = stage
        BY <1>1, <3>1 DEF stage
      <4>2. QED
        BY <1>4, <4>1 DEF In
    <3>2. CASE at' = at+1
      BY <1>4, <2>1, <3>2
    <3>3. QED
      BY <1>4, <3>1, <3>2
  <2>4. /\ Tool = "db_config_relcache" /\ at' = 2 => at = 2
        /\ Tool = "q5" /\ at' >= 4 => at >= 4
        /\ Tool = "q5" /\ at' \in 5..8 => at \in 5..8
        /\ Tool = "q5" /\ at' >= 9 => at >= 9
    BY <1>4, <2>1, <2>2
  <2>5. QED
    BY <1>0, <1>1, <1>2, <2>3, <2>4 DEF RegsInv
<1>5. QED
  BY <1>3, <1>4

\* The registers hold what has been stored in them.
LEMMA NextRegsInv == IInv /\ [Next]_vars => RegsInv'
<1> SUFFICES ASSUME IInv, [Next]_vars PROVE RegsInv'
  OBVIOUS
<1>0. /\ PlaceInv /\ ShapeInv /\ RegsInv /\ command \in CommandLine
      /\ (Running <=> at \in 1..Len(Stages(command))) /\ Len(Stages(command)) \in Nat
      /\ step \in Nat /\ Len(Stores) \in Nat
      /\ \A j \in 1..Len(Stores) : Stores[j] \in RegName
      /\ FrameOffset \in RegName
  <2>1. FrameOffset \in RegName
    BY DEF RegName, ScalarRegs, FrameOffset
  <2>2. QED
    BY <2>1, CommandFacts, StoresFacts DEF IInv, PlaceInv
<1>1. CASE ZeroTable \/ FillTable \/ ResetToggle \/ ScanWindow \/ ScanDram \/ EndPass
  <2>1. UNCHANGED <<regs, script, line, done>>
    BY <1>1 DEF ZeroTable, FillTable, Write, ResetToggle, ScanWindow, ScanDram, EndPass, NextStage,
       Stay, StoreReset, LoadCached, LoadPacked, device, history
  <2>2. Running /\ stage[1] \notin {"config", "frame"}
    BY <1>1 DEF ZeroTable, FillTable, ResetToggle, ScanWindow, ScanDram, EndPass, In
  <2>3. at' = at \/ (at' = at+1 /\ step' = 0)
    BY <1>1 DEF ZeroTable, FillTable, ResetToggle, ScanWindow, ScanDram, EndPass, NextStage,
       Stay
  <2>4. QED
    BY <2>1, <2>2, <2>3, RegsStay
<1>2. CASE MachineStep \/ UNCHANGED vars
  <2>1. UNCHANGED <<regs, script, line, done, at, step>>
    BY <1>2 DEF MachineStep, PackAhead, Evict, EvictDram, vars, device, progress, history
  <2>2. QED
    BY <2>1, RegsStay
<1>3. ASSUME In({"config"}) PROVE /\ "db_config_relcache" \notin done
                                  /\ \/ Tool = "db_config_relcache" /\ at = 1
                                     \/ Tool = "q5" /\ at = 3
  <2>1. \/ Tool = "db_config_relcache" /\ at = 1
        \/ Tool = "q5" /\ at = 3
    BY <1>0, <1>3, StagePlaces DEF In, stage, Tool
  <2>2. QED
    BY <1>0, <2>1, DoneFacts
<1>4. CASE ConfigReg /\ step < Len(Stores)
  <2> DEFINE r == Stores[step+1]
  <2>1. /\ In({"config"}) /\ step' = step + 1 /\ UNCHANGED <<script, line, at, done>>
        /\ regs' = [regs EXCEPT ![r] = RegValue(command, r)]
    BY <1>4 DEF ConfigReg, StoreReg, Stay, history
  <2>2. command' = command /\ Stores' = Stores /\ Tool' = Tool
    BY <2>1, SameCommand
  <2>3. ASSUME NEW j \in 1..step+1 PROVE regs'[Stores[j]] = RegValue(command, Stores[j])
    <3>0. j \in 1..Len(Stores) /\ step+1 \in 1..Len(Stores)
      BY <1>0, <1>4
    <3>1. CASE Stores[j] = r
      BY <1>0, <2>1, <3>0, <3>1 DEF ShapeInv
    <3>2. CASE Stores[j] # r
      <4>1. j \in 1..step
        BY <1>0, <3>2
      <4>2. QED
        BY <1>0, <2>1, <3>0, <3>2, <4>1 DEF ShapeInv, RegsInv
    <3>3. QED
      BY <3>1, <3>2
  <2>4. step' <= Len(Stores)
    BY <1>0, <1>4, <2>1
  <2>5. QED
    BY <1>3, <2>1, <2>2, <2>3, <2>4 DEF RegsInv
<1>5. CASE ConfigReg /\ ~(step < Len(Stores))
  <2>1. In({"config"}) /\ NextStage /\ UNCHANGED <<regs, done>>
    BY <1>5 DEF ConfigReg, device, history
  <2>2. step = Len(Stores) /\ at' = at + 1
    BY <1>0, <1>5, <2>1 DEF RegsInv, NextStage
  <2>3. command' = command /\ Stores' = Stores /\ Tool' = Tool
    BY <2>1, SameCommand DEF NextStage
  <2>4. \A r \in Significant(Len(command.offsets)) : regs[r] = RegValue(command, r)
    <3> TAKE r \in Significant(Len(command.offsets))
    <3>1. PICK j \in 1..Len(Stores) : Stores[j] = r
      BY <1>0, StoresFacts
    <3>2. QED
      BY <1>0, <2>1, <2>2, <3>1 DEF RegsInv
  <2>5. Set(command)'
    BY <2>1, <2>3, <2>4 DEF Set
  <2>6. Tool = "db_config_relcache" => regs'[FrameOffset] = DBFrame
    <3>1. RegValue(command, FrameOffset) = command.frame_offset
      BY Zenon DEF RegValue, FrameOffset
    <3>2. FrameOffset \in Significant(Len(command.offsets))
      BY DEF Significant, ScalarRegs, FrameOffset
    <3>3. Tool = "db_config_relcache" => command.frame_offset = DBFrame
      BY <1>0, LineFacts DEF PlaceInv, command, Tool
    <3>4. QED
      BY <2>1, <2>4, <3>1, <3>2, <3>3
  <2>7. step' = 0
    BY <2>1 DEF NextStage
  <2>8. QED
    BY <1>0, <1>3, <2>1, <2>2, <2>3, <2>5, <2>6, <2>7 DEF RegsInv
<1>6. CASE ResetFrame
  <2>1. In({"frame"}) /\ NextStage /\ UNCHANGED done /\ regs' = [regs EXCEPT ![FrameOffset] = stage[2]]
    BY <1>6 DEF ResetFrame, StoreReg, history
  <2>2. /\ command' = command /\ Stores' = Stores /\ Tool' = Tool /\ QueryLine' = QueryLine
        /\ at' = at + 1 /\ step' = 0 /\ line' = line
    BY <2>1, SameCommand DEF NextStage
  <2>3. /\ regs'[FrameOffset] = stage[2]
        /\ \A r \in RegName \ {FrameOffset} : regs'[r] = regs[r]
    BY <1>0, <2>1 DEF ShapeInv
  <2>4. \/ Tool = "db_reset_relcache" /\ at = 1
        \/ Tool = "q5" /\ at = 4 /\ stage[2] = DBFrame
        \/ Tool = "q5" /\ at = 8 /\ stage[2] = DB2Frame
    BY <1>0, <2>1, StagePlaces DEF In, stage, Tool
  <2>5. CASE Tool = "db_reset_relcache"
    <3>1. line > QueryLine
      BY <1>0, <2>5, LineFacts, ScriptFacts DEF PlaceInv, command, Tool, QueryLine
    <3>2. QueryLine \in Int /\ line \in Int
      BY <1>0, ScriptFacts DEF PlaceInv, QueryLine
    <3>3. ~(line' <= QueryLine')
      BY <2>2, <3>1, <3>2
    <3>4. QED
      BY <1>0, <2>2, <2>5, <3>3 DEF RegsInv
  <2>6. CASE Tool = "q5"
    <3>1. Significant(Len(command.offsets)) \subseteq RegName
      BY CommandFacts, StoresExactly DEF IInv
    <3>2. Set(command)'
      BY <1>0, <2>2, <2>3, <2>4, <2>6, <3>1 DEF RegsInv, Set
    <3>3. "db_config_relcache" \notin done'
      BY <1>0, <2>1, <2>6, DoneFacts
    <3>4. /\ at' \in 5..8 => regs'[FrameOffset] = DBFrame
          /\ at' >= 9 => regs'[FrameOffset] = DB2Frame
      BY <2>2, <2>3, <2>4, <2>6
    <3>5. QED
      BY <1>0, <2>2, <2>6, <3>2, <3>3, <3>4 DEF RegsInv
  <2>7. QED
    BY <2>4, <2>5, <2>6
<1>7. CASE EndTool \/ Fail
  <2>1. PICK ended : /\ Advance(ended)
                     /\ ended = done \/ (ended = done \cup {Tool} /\ ~Running)
    BY <1>7 DEF EndTool, Fail, Tool
  <2>2. UNCHANGED regs /\ at' = 1 /\ step' = 0
    BY <1>7, <2>1 DEF EndTool, Fail, device, Advance
  <2>3. Len(Stores)' \in Nat
    <3>1. PlaceInv'
      BY NextPlaceInv
    <3>2. command' \in CommandLine
      BY <3>1, ScriptFacts DEF PlaceInv, command
    <3>3. Len(command'.offsets) \in Nat
      BY <3>2 DEF CommandLine
    <3>4. QED
      BY <3>3 DEF Stores
  <2>4. "db_config_relcache" \in done' /\ line' <= QueryLine' =>
          Set(The("db_config_relcache"))' /\ regs'[FrameOffset] = DBFrame
    <3> SUFFICES ASSUME "db_config_relcache" \in done', line' <= QueryLine'
                 PROVE  Set(The("db_config_relcache"))' /\ regs'[FrameOffset] = DBFrame
      OBVIOUS
    <3>1. UNCHANGED script /\ done' = ended /\ line' = line + 1
      BY <2>1 DEF Advance
    <3>2. The("db_config_relcache")' = The("db_config_relcache") /\ line <= QueryLine
      <4>1. QueryLine' = QueryLine /\ QueryLine \in Int /\ line \in Int
        BY <1>0, <3>1, ScriptFacts DEF PlaceInv, QueryLine
      <4>2. QED
        BY <3>1, <4>1 DEF The
    <3>3. Set(The("db_config_relcache")) /\ regs[FrameOffset] = DBFrame
      <4>1. CASE "db_config_relcache" \in done
        BY <1>0, <3>2, <4>1 DEF RegsInv
      <4>2. CASE "db_config_relcache" \notin done
        <5>1. Tool = "db_config_relcache" /\ ~Running
          BY <2>1, <3>1, <4>2
        <5>2. at = 2
          <6>1. Len(Stages(command)) = 1
            BY <5>1, ConfigStages DEF Tool
          <6>2. at \in 1..2 /\ at \notin 1..1
            BY <1>0, <5>1, <6>1 DEF PlaceInv
          <6>3. QED
            BY <6>2
        <5>3. The("db_config_relcache") = command
          BY <1>0, <5>1, TheOnly DEF PlaceInv, command, Tool
        <5>4. QED
          BY <1>0, <5>1, <5>2, <5>3 DEF RegsInv
      <4>3. QED
        BY <4>1, <4>2
    <3>4. QED
      BY <2>2, <3>2, <3>3 DEF Set
  <2>5. QED
    BY <2>2, <2>3, <2>4 DEF RegsInv
<1>8. QED
  BY <1>1, <1>2, <1>4, <1>5, <1>6, <1>7 DEF Next, ToolStep

-----------------------------------------------------------------------------
\* The last two lines of a round.
LEMMA ResetLines ==
  ASSUME NEW s \in Script, NEW n \in 1..Len(s), n >= Len(s) - 1, s[n].tool # "q5"
  PROVE  s[n].tool = "db_reset_relcache"
<1>1. Len(s) \in Nat
  BY ScriptFacts
<1>2. IsRound(s)
  BY LineFacts, ScriptFacts
<1>3. n = Len(s) \/ n = Len(s) - 1
  BY <1>1
<1>4. QED
  BY <1>2, <1>3 DEF IsRound

\* While the engine packs nothing it stays where it was.
LEMMA EmptyStays ==
  ASSUME IInv, UNCHANGED <<script, line, failures>>,
         \/ UNCHANGED at
         \/ Running /\ stage[1] # "toggle" /\ at' = at+1,
         packed = Nothing => packed' = Nothing
  PROVE  EmptyInv'
<1>1. command' = command /\ Tool' = Tool /\ QueryLine' = QueryLine
  BY SameCommand
<1>2. PlaceInv /\ EmptyInv
  BY DEF IInv
<1>3. Tool = "db_reset_relcache" /\ at' = 3 => at = 3
  <2>1. Tool = "db_reset_relcache" => Stages(command)[2][1] = "toggle"
    BY ResetStages DEF Tool
  <2>2. QED
    BY <1>2, <2>1 DEF stage, PlaceInv
<1>4. Tool = "q5" /\ at' \in {10, 11} => at \in {10, 11}
  <2>1. Tool = "q5" => Stages(command)[9][1] = "toggle"
    BY Q5Stages DEF Tool
  <2>2. QED
    BY <1>2, <2>1 DEF stage, PlaceInv
<1>5. QED
  BY <1>1, <1>2, <1>3, <1>4 DEF EmptyInv

\* One of the two resets of a round is enough for the next one to find the
\* engine empty.
LEMMA NextEmptyInv == IInv /\ [Next]_vars => EmptyInv'
<1> SUFFICES ASSUME IInv, [Next]_vars PROVE EmptyInv'
  OBVIOUS
<1>0. /\ PlaceInv /\ ShapeInv /\ EmptyInv /\ command \in CommandLine
      /\ (Running <=> at \in 1..Len(Stages(command))) /\ Len(Stages(command)) \in Nat
      /\ script \in Script /\ line \in 1..Len(script) /\ Len(script) \in Nat \ {0}
  BY CommandFacts DEF IInv, PlaceInv
<1>1. CASE ZeroTable \/ FillTable \/ ConfigReg \/ ResetFrame \/ ScanDram \/ EndPass
  <2>1. UNCHANGED <<script, line, failures>> /\ (UNCHANGED at \/ at' = at + 1)
    BY <1>1 DEF ZeroTable, FillTable, ConfigReg, ResetFrame, ScanDram, EndPass, NextStage, Stay,
       history
  <2>2. Running /\ stage[1] # "toggle"
    BY <1>1 DEF ZeroTable, FillTable, ConfigReg, ResetFrame, ScanDram, EndPass, In
  <2>3. UNCHANGED packed
    BY <1>1 DEF ZeroTable, FillTable, Write, ConfigReg, ResetFrame, StoreReg, ScanDram, EndPass,
       device
  <2>4. QED
    BY <2>1, <2>2, <2>3, EmptyStays
<1>2. CASE ScanWindow
  <2>1. UNCHANGED <<script, line, at>> /\ In({"cold", "hot"})
    BY <1>2 DEF ScanWindow, Stay
  <2>2. Tool' = Tool /\ QueryLine' = QueryLine
    BY <2>1, SameCommand
  <2>3. (Tool \in Queries /\ line = QueryLine) \/ (Tool = "q5" /\ at \in {6, 12})
    <3>1. Tool \in Queries \/ (Tool = "q5" /\ at \in {6, 12})
      BY <1>0, <2>1, StagePlaces DEF In, stage, Tool
    <3>2. Tool \in Queries => line = QueryLine
      BY <1>0, LineFacts DEF Tool, command, QueryLine
    <3>3. QED
      BY <3>1, <3>2
  <2>4. QED
    BY <1>0, <2>1, <2>2, <2>3 DEF EmptyInv, Queries, QueryLine
<1>3. CASE ResetToggle
  <2>1. packed' = Nothing
    <3>1. (reset + 1) % 2 # reset
      BY <1>0 DEF ShapeInv
    <3>2. QED
      BY <1>3, <3>1 DEF ResetToggle, StoreReset
  <2>2. QED
    BY <2>1 DEF EmptyInv, Nothing
<1>4. CASE EndTool \/ Fail
  <2>1. /\ UNCHANGED packed /\ at' = 1
        /\ \/ line < Len(script) /\ line' = line + 1 /\ UNCHANGED script
           \/ line = Len(script) /\ line' = 1 /\ script' \in Script
        /\ Tool = "q5" => failures' = 2
        /\ \/ ~Running /\ (Tool # "q5" => failures' = failures)
           \/ failures' = 2 \/ (failures = 0 /\ failures' = 1)
    BY <1>4 DEF EndTool, Fail, Advance, device, Tool
  <2>2. Tool = "db_reset_relcache" /\ ~Running => packed = Nothing
    <3>1. ASSUME Tool = "db_reset_relcache", ~Running PROVE at = 3
      <4>1. Len(Stages(command)) = 2
        BY <3>1, ResetStages DEF Tool
      <4>2. at \in 1..3 /\ at \notin 1..2
        BY <1>0, <3>1, <4>1 DEF PlaceInv
      <4>3. QED
        BY <4>2
    <3>2. QED
      BY <1>0, <3>1 DEF EmptyInv
  <2>3. Tool # "q5" /\ line >= Len(script) - 1 => Tool = "db_reset_relcache"
    BY <1>0, ResetLines DEF Tool, command
  <2>4. ASSUME Tool' # "q5", line' < QueryLine', failures' < 2 PROVE packed = Nothing
    <3>1. Tool # "q5"
      BY <2>1, <2>4
    <3>2. CASE line < Len(script) /\ line' = line + 1 /\ UNCHANGED script
      <4>1. line < QueryLine
        BY <1>0, <2>4, <3>2 DEF QueryLine
      <4>2. failures < 2
        BY <2>1, <2>4, <3>1
      <4>3. QED
        BY <1>0, <3>1, <4>1, <4>2 DEF EmptyInv
    <3>3. CASE line = Len(script)
      <4>1. CASE ~Running
        BY <1>0, <2>2, <2>3, <3>1, <3>3, <4>1
      <4>2. CASE failures = 0
        BY <1>0, <3>1, <3>3, <4>2 DEF EmptyInv
      <4>3. QED
        BY <2>1, <2>4, <4>1, <4>2
    <3>4. QED
      BY <2>1, <3>2, <3>3
  <2>5. ASSUME Tool' # "q5", line' = Len(script'), failures' = 0 PROVE packed = Nothing
    <3>1. Tool # "q5" /\ ~Running
      BY <2>1, <2>5
    <3>2. line' # 1
      <4>1. script' \in Script /\ line' \in 1..Len(script')
        BY NextPlaceInv DEF PlaceInv
      <4>2. Len(script') >= 4
        BY <2>5, <4>1, LineFacts DEF Tool, command
      <4>3. QED
        BY <2>5, <4>2
    <3>3. line = Len(script) - 1
      BY <1>0, <2>1, <2>5, <3>2
    <3>4. QED
      BY <1>0, <2>2, <2>3, <3>1, <3>3
  <2>6. QED
    BY <2>1, <2>4, <2>5 DEF EmptyInv, Nothing
<1>5. CASE MachineStep \/ UNCHANGED vars
  <2>1. UNCHANGED <<script, line, at, failures>> /\ (packed = Nothing => packed' = Nothing)
    BY <1>5 DEF MachineStep, PackAhead, Evict, EvictDram, vars, device, progress, history, Nothing
  <2>2. QED
    BY <2>1, EmptyStays
<1>6. QED
  BY <1>1, <1>2, <1>3, <1>4, <1>5 DEF Next, ToolStep

\* What the CPU copied, and which of its copies are young.
LEMMA NextCopiesInv == IInv /\ [Next]_vars => CopiesInv'
<1> SUFFICES ASSUME IInv, [Next]_vars PROVE CopiesInv'
  OBVIOUS
<1> USE DEF CopiesInv
<1>0. /\ PlaceInv /\ ShapeInv /\ CopiesInv /\ command \in CommandLine
      /\ (Running <=> at \in 1..Len(Stages(command))) /\ Rows \in Nat /\ 0..Rows-1 \subseteq Row
  BY CommandFacts DEF IInv
<1>1. CASE ZeroTable \/ FillTable
  <2>1. UNCHANGED dcache /\ (UNCHANGED <<device, dfresh>> \/ \E n : Write(n))
    BY <1>1 DEF ZeroTable, FillTable
  <2>2. stage[2] \in Tables
    BY <1>0, <1>1, StagePlaces DEF ZeroTable, FillTable, In, stage, Tables
  <2>3. CASE UNCHANGED <<device, dfresh>>
    BY <1>0, <2>1, <2>3 DEF device, Nothing
  <2>4. ASSUME NEW n, Write(n) PROVE CopiesInv'
    <3>1. /\ UNCHANGED <<coherent, packed, cpu, warm>>
          /\ \A g \in Tables : \/ dram'[g] = dram[g] /\ dfresh'[g] = dfresh[g]
                               \/ dfresh'[g] = {}
      BY <1>0, <2>2, <2>4, WriteFacts
    <3>2. \A g \in Tables : \A i \in dfresh'[g] : dcache'[g][i] \subseteq {dram'[g][i]}
      <4> TAKE g \in Tables
      <4> TAKE i \in dfresh'[g]
      <4>1. dram'[g] = dram[g] /\ dfresh'[g] = dfresh[g]
        BY <3>1
      <4>2. QED
        BY <1>0, <2>1, <4>1
    <3>3. QED
      BY <1>0, <3>1, <3>2 DEF Nothing
  <2>5. QED
    BY <2>1, <2>3, <2>4
<1>2. CASE ConfigReg \/ ResetFrame \/ EndPass \/ EndTool \/ Fail \/ UNCHANGED vars
  <2>1. UNCHANGED <<coherent, dram, packed, cpu, warm, dcache, dfresh>>
    BY <1>2 DEF ConfigReg, ResetFrame, StoreReg, EndPass, EndTool, Fail, vars, device, history
  <2>2. QED
    BY <1>0, <2>1 DEF Nothing
<1>3. CASE ResetToggle
  <2>1. UNCHANGED <<coherent, dram, dcache, dfresh>>
    BY <1>3 DEF ResetToggle, StoreReset
  <2>2. (reset + 1) % 2 # reset
    BY <1>0 DEF ShapeInv
  <2>3. warm' = {} /\ (coherent => cpu' = Nothing)
    BY <1>3, <2>2 DEF ResetToggle, StoreReset
  <2>4. QED
    BY <1>0, <2>1, <2>3 DEF Nothing
<1>4. CASE ScanWindow
  <2>1. PICK row : LoadCached(step, row) \/ LoadPacked(step, row)
    BY <1>4 DEF ScanWindow
  <2>2. UNCHANGED <<coherent, dram, dcache, dfresh>> /\ step \in Row
    BY <1>0, <1>4, <2>1 DEF ScanWindow, LoadCached, LoadPacked, device, history, PlaceInv
  <2>3. CASE LoadCached(step, row)
    BY <1>0, <2>2, <2>3 DEF LoadCached, device, Nothing
  <2>4. CASE LoadPacked(step, row)
    <3>1. /\ packed' = [packed EXCEPT ![step] = {row}] /\ cpu' = [cpu EXCEPT ![step] = {row}]
          /\ warm' = warm \cup {step}
      BY <2>4 DEF LoadPacked
    <3>2. packed'[step] = {row} /\ \A i \in Row : cpu'[i] = {} \/ i = step \/ cpu'[i] = cpu[i]
      BY <1>0, <2>2, <3>1 DEF ShapeInv, IsRowMap
    <3>3. packed' # Nothing'
      BY <2>2, <3>2 DEF Nothing
    <3>4. coherent => \A i \in Row : cpu'[i] = {} \/ i \in warm'
      <4> SUFFICES ASSUME coherent, NEW i \in Row PROVE cpu'[i] = {} \/ i \in warm'
        OBVIOUS
      <4>1. CASE i = step
        BY <3>1, <4>1
      <4>2. CASE i # step
        BY <1>0, <3>1, <3>2, <4>2
      <4>3. QED
        BY <4>1, <4>2
    <3>5. QED
      BY <1>0, <2>2, <3>3, <3>4
  <2>5. QED
    BY <2>1, <2>3, <2>4
<1>5. CASE ScanDram
  <2> DEFINE f == stage[2]
  <2>1. UNCHANGED <<coherent, dram, packed, cpu, warm>>
    BY <1>5 DEF ScanDram, device
  <2>2. f \in Tables /\ step \in Row
    <3>1. Running /\ stage[1] \in {"row", "col"} /\ step \in Row
      BY <1>0, <1>5 DEF ScanDram, In, PlaceInv
    <3>2. f \in Tables
      BY <1>0, <3>1, StagePlaces DEF stage, Tables
    <3>3. QED
      BY <3>1, <3>2
  <2>3. \/ UNCHANGED <<dcache, dfresh>>
        \/ /\ dcache' = [dcache EXCEPT ![f][step] = {dram[f][step]}]
           /\ dfresh' = [dfresh EXCEPT ![f] = @ \cup {step}]
    BY <1>5 DEF ScanDram
  <2> HIDE DEF f
  <2>4. ASSUME NEW g \in Tables, NEW i \in dfresh'[g] PROVE dcache'[g][i] \subseteq {dram[g][i]}
    <3>1. CASE UNCHANGED <<dcache, dfresh>>
      BY <1>0, <2>4, <3>1
    <3>2. CASE /\ dcache' = [dcache EXCEPT ![f][step] = {dram[f][step]}]
               /\ dfresh' = [dfresh EXCEPT ![f] = @ \cup {step}]
      <4>1. /\ dcache' = [dcache EXCEPT ![f] = [dcache[f] EXCEPT ![step] = {dram[f][step]}]]
            /\ dfresh' = [dfresh EXCEPT ![f] = dfresh[f] \cup {step}]
        BY <3>2, Zenon
      <4>2. /\ dcache'[f] = [dcache[f] EXCEPT ![step] = {dram[f][step]}]
            /\ dfresh'[f] = dfresh[f] \cup {step}
            /\ g # f => dcache'[g] = dcache[g] /\ dfresh'[g] = dfresh[g]
        BY <1>0, <2>2, <4>1 DEF ShapeInv
      <4>3. CASE g # f
        BY <1>0, <2>4, <4>2, <4>3
      <4>4. CASE g = f /\ i = step
        <5>1. dcache[f] = [j \in Row |-> dcache[f][j]]
          BY <1>0, <2>2 DEF ShapeInv, IsRowMap
        <5>2. dcache'[f][step] = {dram[f][step]}
          BY <2>2, <4>2, <5>1
        <5>3. QED
          BY <4>4, <5>2
      <4>5. CASE g = f /\ i # step
        <5>1. dcache[f] = [j \in Row |-> dcache[f][j]] /\ dfresh[f] \subseteq Row
          BY <1>0, <2>2 DEF ShapeInv, IsRowMap
        <5>2. i \in dfresh[f] /\ i \in Row
          BY <2>4, <4>2, <4>5, <5>1
        <5>3. dcache'[f][i] = dcache[f][i]
          BY <4>2, <4>5, <5>1, <5>2
        <5>4. QED
          BY <1>0, <2>2, <4>5, <5>2, <5>3
      <4>6. QED
        BY <4>3, <4>4, <4>5
    <3>3. QED
      BY <2>3, <3>1, <3>2
  <2>5. QED
    BY <1>0, <2>1, <2>4 DEF Nothing
<1>6. CASE MachineStep
  <2>1. PICK i \in Row : \/ (PackAhead(i) \/ Evict(i)) /\ UNCHANGED <<dcache, dfresh>>
                         \/ \E f \in Tables : EvictDram(f, i)
    BY <1>6 DEF MachineStep
  <2>2. CASE PackAhead(i) /\ UNCHANGED <<dcache, dfresh>>
    <3>1. UNCHANGED <<coherent, dram, cpu, warm>> /\ packed'[i] # {}
      BY <1>0, <2>2 DEF PackAhead, ShapeInv, IsRowMap
    <3>2. packed' # Nothing'
      BY <3>1 DEF Nothing
    <3>3. QED
      BY <1>0, <2>2, <3>1, <3>2
  <2>3. CASE Evict(i) /\ UNCHANGED <<dcache, dfresh>>
    <3>1. /\ UNCHANGED <<coherent, dram, packed>> /\ warm' = warm \ {i}
          /\ cpu' = [cpu EXCEPT ![i] = {}]
      BY <2>3 DEF Evict
    <3>2. \A j \in Row : cpu'[j] = IF j = i THEN {} ELSE cpu[j]
      BY <1>0, <3>1 DEF ShapeInv, IsRowMap
    <3>3. QED
      BY <1>0, <2>3, <3>1, <3>2 DEF Nothing
  <2>4. ASSUME NEW f \in Tables, EvictDram(f, i) PROVE CopiesInv'
    <3>1. /\ dcache' = [dcache EXCEPT ![f][i] = {}] /\ dfresh' = [dfresh EXCEPT ![f] = @ \ {i}]
          /\ UNCHANGED <<coherent, dram, packed, cpu, warm>>
      BY <2>4 DEF EvictDram, device
    <3>2. /\ dcache' = [dcache EXCEPT ![f] = [dcache[f] EXCEPT ![i] = {}]]
          /\ dfresh' = [dfresh EXCEPT ![f] = dfresh[f] \ {i}]
      BY <3>1, Zenon
    <3>3. ASSUME NEW g \in Tables, NEW j \in dfresh'[g] PROVE dcache'[g][j] \subseteq {dram[g][j]}
      <4>1. /\ dcache'[f] = [dcache[f] EXCEPT ![i] = {}] /\ dfresh'[f] = dfresh[f] \ {i}
            /\ g # f => dcache'[g] = dcache[g] /\ dfresh'[g] = dfresh[g]
        BY <1>0, <2>4, <3>2 DEF ShapeInv
      <4>2. CASE g # f
        BY <1>0, <3>3, <4>1, <4>2
      <4>3. CASE g = f
        <5>1. dcache[f] = [k \in Row |-> dcache[f][k]] /\ dfresh[f] \subseteq Row
          BY <1>0, <2>4 DEF ShapeInv, IsRowMap
        <5>2. j \in dfresh[f] /\ j \in Row /\ j # i
          BY <3>3, <4>1, <4>3, <5>1
        <5>3. dcache'[f][j] = dcache[f][j]
          BY <4>1, <5>1, <5>2
        <5>4. QED
          BY <1>0, <2>4, <4>3, <5>2, <5>3
      <4>4. QED
        BY <4>2, <4>3
    <3>4. QED
      BY <1>0, <3>1, <3>3 DEF Nothing
  <2>5. QED
    BY <2>1, <2>2, <2>3, <2>4
<1>7. QED
  BY <1>1, <1>2, <1>3, <1>4, <1>5, <1>6 DEF Next, ToolStep

-----------------------------------------------------------------------------
\* While a stage goes on, it wants the same.
LEMMA SameWanted ==
  ASSUME UNCHANGED <<script, line, at>>
  PROVE  WantedRow' = WantedRow /\ WantedTable' = WantedTable
<1>1. command' = command /\ stage' = stage
  BY SameCommand, SameStage
<1>2. \A t : LineOf(t)' = LineOf(t)
  BY <1>1 DEF LineOf
<1>3. WantedTable' = WantedTable
  BY <1>1, <1>2 DEF WantedTable
<1>4. \A c, r : RegValue(c, r)' = RegValue(c, r)
  BY DEF RegValue
<1>5. QED
  BY <1>1, <1>2, <1>3, <1>4 DEF WantedRow

LEMMA LinesWanted ==
  \A t : LineOf(t) = IF Tool = "q5" THEN command ELSE The(t)
BY DEF LineOf, The, Tool

\* The scans of tables find them written.
LEMMA TableIsWanted ==
  ASSUME IInv, In({"cold", "hot", "row", "col"}), Generated, NEW i \in 0..Rows-1
  PROVE  dram[stage[2]][i] = WantedTable
<1>0. /\ PlaceInv /\ TableInv /\ command \in CommandLine
      /\ at \in 1..Len(Stages(command)) /\ stage = Stages(command)[at]
      /\ stage[1] \in {"cold", "hot", "row", "col"}
  BY CommandFacts DEF IInv, In, stage
<1>1. \/ Tool \in Queries /\ stage[2] = DBFrame
      \/ Tool = "q5" /\ at \in {6, 7} /\ stage[2] = DBFrame
      \/ Tool = "q5" /\ at \in {12, 13} /\ stage[2] = DB2Frame
  BY <1>0, StagePlaces DEF Tool
<1>2. WantedTable = TableRow(LineOf("db_generate"), stage[2], LineOf("db_generate").columns)
  BY DEF WantedTable
<1>3. Written(LineOf("db_generate"), stage[2])
  <2>1. CASE Tool = "q5"
    <3>1. LineOf("db_generate") = command /\ Tool \notin Queries
      BY <2>1, LinesWanted DEF Queries
    <3>2. QED
      BY <1>0, <1>1, <2>1, <3>1 DEF TableInv
  <2>2. CASE Tool # "q5"
    <3>1. "db_generate" \in done /\ ~linux /\ stage[2] = DBFrame
      BY <1>1, <2>2 DEF Generated, Tool
    <3>2. LineOf("db_generate") = The("db_generate")
      BY <2>2, LinesWanted
    <3>3. QED
      BY <1>0, <3>1, <3>2 DEF TableInv
  <2>3. QED
    BY <2>1, <2>2
<1>4. QED
  BY <1>2, <1>3 DEF Written

\* The registers of a window pass are those of its script.
LEMMA RegsAreWanted ==
  ASSUME IInv, Relying
  PROVE  /\ Set(LineOf("db_config_relcache")) /\ regs[FrameOffset] = stage[2]
         /\ Len(LineOf("db_config_relcache").offsets) \in 0..MaxGroups
<1>0. /\ PlaceInv /\ RegsInv /\ command \in CommandLine
      /\ at \in 1..Len(Stages(command)) /\ stage = Stages(command)[at]
      /\ stage[1] \in {"cold", "hot"}
  BY CommandFacts DEF IInv, In, stage, Relying
<1>1. \/ Tool \in Queries /\ stage[2] = DBFrame
      \/ Tool = "q5" /\ at = 6 /\ stage[2] = DBFrame
      \/ Tool = "q5" /\ at = 12 /\ stage[2] = DB2Frame
  BY <1>0, StagePlaces DEF Tool
<1>2. CASE Tool = "q5"
  <2>1. LineOf("db_config_relcache") = command /\ Tool \notin Queries
    BY <1>2, LinesWanted DEF Queries
  <2>2. Len(command.offsets) \in 0..MaxGroups
    BY <1>0, CommandFacts
  <2>3. QED
    BY <1>0, <1>1, <1>2, <2>1, <2>2 DEF RegsInv
<1>3. CASE Tool # "q5"
  <2>1. "db_config_relcache" \in done /\ stage[2] = DBFrame /\ Tool \in Queries
    BY <1>1, <1>3 DEF Relying, Configured, Tool
  <2>2. LineOf("db_config_relcache") = The("db_config_relcache")
    BY <1>3, LinesWanted
  <2>3. line = QueryLine
    BY <1>0, <2>1, LineFacts DEF PlaceInv, Tool, command, QueryLine
  <2>4. line <= QueryLine
    BY <1>0, <2>3, ScriptFacts DEF PlaceInv, QueryLine
  <2>5. QED
    BY <1>0, <2>1, <2>2, <2>4, DoneFacts DEF RegsInv
<1>4. QED
  BY <1>2, <1>3

\* What the engine packs now is what the pass wants.
LEMMA PackedIsWanted ==
  ASSUME IInv, Relying, NEW i \in 0..Rows-1
  PROVE  PackedRow(i) = WantedRow
<1> DEFINE c == LineOf("db_config_relcache")
           n == Len(c.offsets)
<1>1. Set(c) /\ regs[FrameOffset] = stage[2] /\ n \in 0..MaxGroups
  BY RegsAreWanted
<1>2. dram[stage[2]][i] = WantedTable
  BY TableIsWanted DEF Relying, In
<1>3. EnabledColNum \in Significant(n) \ {FrameOffset}
  BY DEF EnabledColNum, FrameOffset, Significant, ScalarRegs
<1>4. RegValue(c, EnabledColNum) = n
  BY Zenon DEF RegValue, EnabledColNum
<1>5. regs[EnabledColNum] = n
  BY <1>1, <1>3, <1>4 DEF Set
<1>6. \A r \in Significant(n) :
        regs[r] = IF r = FrameOffset THEN stage[2] ELSE RegValue(c, r)
  BY <1>1 DEF Set
<1>7. Image(regs, n) = [r \in RegName |->
                          IF r \notin Significant(n) THEN 0
                          ELSE IF r = FrameOffset THEN stage[2] ELSE RegValue(c, r)]
  BY <1>6 DEF Image
<1>8. WantedRow = [image |-> [r \in RegName |->
                          IF r \notin Significant(n) THEN 0
                          ELSE IF r = FrameOffset THEN stage[2] ELSE RegValue(c, r)],
                   data  |-> WantedTable]
  BY DEF WantedRow
<1>9. PackedRow(i) = [image |-> Image(regs, n), data |-> WantedTable]
  BY <1>1, <1>2, <1>5 DEF PackedRow
<1>10. QED
  BY <1>7, <1>8, <1>9

-----------------------------------------------------------------------------
\* A pass that finds the engine empty has read nothing wrong yet.
LEMMA FreshPass ==
  ASSUME \/ ~In({"cold", "hot"})'
         \/ packed' = Nothing /\ warm' = {} /\ step' = 0,
         0..Rows-1 \subseteq Row
  PROVE  PassInv' /\ WindowIsCurrent'
<1>1. CASE ~In({"cold", "hot"})'
  BY <1>1 DEF PassInv, Relying, WindowIsCurrent
<1>2. CASE packed' = Nothing /\ warm' = {} /\ step' = 0
  <2>1. \A i \in 0..Rows-1 : packed'[i] = {}
    BY <1>2 DEF Nothing
  <2>2. PassInv'
    BY <1>2, <2>1 DEF PassInv
  <2>3. WindowIsCurrent'
    BY <1>2 DEF WindowIsCurrent
  <2>4. QED
    BY <2>2, <2>3
<1>3. QED
  BY <1>1, <1>2

\* A tool comes from another stage to a window pass only in q5.
LEMMA EnterPass ==
  ASSUME PlaceInv, UNCHANGED <<script, line>>, at' \in {at, at+1}, Running,
         stage[1] \notin {"cold", "hot"}, In({"cold", "hot"})'
  PROVE  /\ Tool = "q5" /\ at' = at+1
         /\ (at = 5 /\ stage[1] = "toggle") \/ (at = 11 /\ stage[1] = "fill")
<1>0. /\ command \in CommandLine /\ Len(Stages(command)) \in Nat
      /\ at \in 1..Len(Stages(command)) /\ stage = Stages(command)[at]
  BY CommandFacts DEF stage
<1>1. command' = command
  BY SameCommand
<1>2. at' \in 1..Len(Stages(command)) /\ Stages(command)[at'][1] \in {"cold", "hot"}
  BY <1>0, <1>1 DEF In, Running, stage
<1>3. (Tool \in Queries /\ at' \in {1, 2}) \/ (Tool = "q5" /\ at' \in {6, 12})
  BY <1>0, <1>2, StagePlaces DEF Tool
<1>4. ~(Tool \in Queries /\ at' \in {1, 2})
  <2>1. ASSUME Tool \in Queries, at' \in {1, 2} PROVE FALSE
    <3>1. at \in {1, 2}
      BY <1>0, <2>1
    <3>2. stage[1] \in {"cold", "hot"}
      BY <1>0, <2>1, <3>1, QueryStages DEF Tool
    <3>3. QED
      BY <3>2
  <2>2. QED
    BY <2>1
<1>5. Tool = "q5" /\ at \in {5, 6, 11, 12}
  BY <1>0, <1>3, <1>4
<1>6. /\ Stages(command)[5][1] = "toggle" /\ Stages(command)[6][1] = "cold"
      /\ Stages(command)[11][1] = "fill" /\ Stages(command)[12][1] = "cold"
  BY <1>5, Q5Stages DEF Tool
<1>7. at \in {5, 11}
  BY <1>0, <1>5, <1>6
<1>8. at' = at+1
  BY <1>3, <1>4, <1>7
<1>9. QED
  BY <1>0, <1>5, <1>6, <1>7, <1>8

\* What one load of the window returns.
LEMMA LoadIsWanted ==
  ASSUME IInv, Relying, NEW i \in 0..Rows-1, NEW row, LoadCached(i, row) \/ LoadPacked(i, row)
  PROVE  row = WantedRow \/ (LoadCached(i, row) /\ cpu[i] # {} /\ i \notin warm)
<1>1. PackedRow(i) = WantedRow
  BY PackedIsWanted
<1>2. packed[i] \subseteq {WantedRow} /\ (i \in warm => cpu[i] \subseteq {WantedRow})
  BY DEF IInv, PassInv
<1>3. QED
  BY <1>1, <1>2 DEF LoadCached, LoadPacked

\* The rows a window pass finds in the engine, and young in the CPU cache, are
\* those it wants.
LEMMA NextPassInv == IInv /\ [Next]_vars => PassInv' /\ WindowIsCurrent'
<1> SUFFICES ASSUME IInv, [Next]_vars PROVE PassInv' /\ WindowIsCurrent'
  OBVIOUS
<1>0. /\ PlaceInv /\ ShapeInv /\ EmptyInv /\ CopiesInv /\ PassInv /\ WindowIsCurrent
      /\ command \in CommandLine /\ step \in Nat /\ Rows \in Nat /\ 0..Rows-1 \subseteq Row
      /\ (Running <=> at \in 1..Len(Stages(command))) /\ Len(Stages(command)) \in Nat
  BY CommandFacts DEF IInv, PlaceInv
<1>1. CASE ZeroTable \/ FillTable \/ ConfigReg \/ ResetFrame \/ ScanDram
  <2>1. UNCHANGED <<script, line>> /\ (UNCHANGED at \/ (at' = at + 1 /\ step' = 0))
    BY <1>1 DEF ZeroTable, FillTable, ConfigReg, ResetFrame, ScanDram, NextStage, Stay
  <2>2. Running /\ stage[1] \in {"zero", "fill", "config", "frame", "row", "col"}
    BY <1>1 DEF ZeroTable, FillTable, ConfigReg, ResetFrame, ScanDram, In
  <2>3. UNCHANGED <<packed, warm>>
    BY <1>1 DEF ZeroTable, FillTable, Write, ConfigReg, ResetFrame, StoreReg, ScanDram, device
  <2>4. CASE ~In({"cold", "hot"})'
    BY <1>0, <2>4, FreshPass
  <2>5. CASE In({"cold", "hot"})'
    <3>1. Tool = "q5" /\ at' = at + 1 /\ at = 11
      BY <1>0, <2>1, <2>2, <2>5, EnterPass
    <3>2. packed = Nothing /\ warm = {}
      BY <1>0, <3>1 DEF EmptyInv, CopiesInv
    <3>3. step' = 0
      BY <1>0, <2>1, <3>1
    <3>4. QED
      BY <1>0, <2>3, <3>2, <3>3, FreshPass
  <2>6. QED
    BY <2>4, <2>5
<1>2. CASE ResetToggle
  <2>1. (reset + 1) % 2 # reset
    BY <1>0 DEF ShapeInv
  <2>2. packed' = Nothing /\ warm' = {} /\ step' = 0
    BY <1>2, <2>1 DEF ResetToggle, StoreReset, NextStage
  <2>3. QED
    BY <1>0, <2>2, FreshPass
<1>3. CASE EndPass
  <2>1. /\ Running /\ stage[1] \in {"cold", "hot", "row", "col"} /\ at' = at+1 /\ step' = 0
        /\ UNCHANGED <<script, line, linux, done, failures, packed, cpu, warm>>
    BY <1>3 DEF EndPass, In, NextStage, device, history
  <2>2. WindowIsCurrent'
    BY <2>1 DEF WindowIsCurrent
  <2>3. CASE ~In({"cold", "hot"})'
    BY <1>0, <2>3, FreshPass
  <2>4. CASE In({"cold", "hot"})'
    <3>1. command' = command
      BY <2>1, SameCommand
    <3>2. at' \in 1..Len(Stages(command)) /\ Stages(command)[at'][1] \in {"cold", "hot"}
      BY <1>0, <2>1, <2>4, <3>1 DEF In, Running, stage
    <3>3. at \in 1..Len(Stages(command)) /\ stage = Stages(command)[at]
      BY <1>0, <2>1 DEF stage
    <3>4. Tool \in Queries /\ at = 1
      <4>1. (Tool \in Queries /\ at' \in {1, 2}) \/ (Tool = "q5" /\ at' \in {6, 12})
        BY <1>0, <3>2, StagePlaces DEF Tool
      <4>2. CASE Tool = "q5" /\ at' \in {6, 12}
        <5>1. Stages(command)[5][1] = "toggle" /\ Stages(command)[11][1] = "fill"
          BY <4>2, Q5Stages DEF Tool
        <5>2. at \in {5, 11}
          BY <2>1, <3>3, <4>2
        <5>3. QED
          BY <2>1, <3>3, <5>1, <5>2
      <4>3. CASE Tool \in Queries /\ at' \in {1, 2}
        BY <2>1, <3>3, <4>3
      <4>4. QED
        BY <4>1, <4>2, <4>3
    <3>5. stage = <<"cold", DBFrame>> /\ stage' = <<"hot", DBFrame>>
      BY <2>1, <3>1, <3>3, <3>4, QueryStages DEF Tool, stage
    <3>6. WantedRow' = WantedRow
      <4>1. \A t : LineOf(t)' = LineOf(t)
        BY <2>1, <3>1 DEF LineOf
      <4>2. WantedTable' = WantedTable
        BY <3>5, <4>1 DEF WantedTable
      <4>3. \A c, r : RegValue(c, r)' = RegValue(c, r)
        BY DEF RegValue
      <4>4. QED
        BY <3>5, <4>1, <4>2, <4>3 DEF WantedRow
    <3>7. Relying' => Relying
      BY <2>1, <3>1, <3>5 DEF Relying, In, Generated, Configured
    <3>8. QED
      BY <1>0, <2>1, <2>2, <3>6, <3>7 DEF PassInv
  <2>5. QED
    BY <2>3, <2>4
<1>4. CASE EndTool \/ Fail
  <2>1. /\ UNCHANGED <<packed, warm>> /\ at' = 1 /\ step' = 0
        /\ \/ line < Len(script) /\ line' = line + 1 /\ UNCHANGED script
           \/ line = Len(script) /\ line' = 1 /\ done' = {} /\ script' \in Script
        /\ failures' < 2 => Tool = "q5" \/ failures < 2
    BY <1>0, <1>4 DEF EndTool, Fail, Advance, device, Tool, PlaceInv
  <2>2. WindowIsCurrent'
    BY <2>1 DEF WindowIsCurrent
  <2>3. CASE ~Relying'
    BY <2>2, <2>3 DEF PassInv
  <2>4. CASE Relying'
    <3>1. script' \in Script /\ line' \in 1..Len(script') /\ Len(script') \in Nat
      BY NextPlaceInv, ScriptFacts DEF PlaceInv
    <3>2. command' \in CommandLine
      BY <3>1, ScriptFacts DEF command
    <3>3. at' \in 1..Len(Stages(command'))
      BY <2>1, <2>4 DEF Relying, In, Running
    <3>4. Tool' \in Queries
      BY <2>1, <2>4, <3>2, <3>3, StagePlaces DEF Relying, In, stage, Tool
    <3>5. Tool' # "q5" /\ line' = Len(script') - 2 /\ Len(script') >= 4
      BY <3>1, <3>4, LineFacts DEF Tool, command, Queries
    <3>6. line' = line + 1 /\ UNCHANGED script
      <4>1. ASSUME NEW n \in Nat, n >= 4 PROVE n - 2 # 1
        BY <4>1
      <4>3. line' # 1
        BY <3>1, <3>5, <4>1
      <4>2. QED
        BY <2>1, <4>3
    <3>7. Tool # "q5"
      <4>1. script \in Script /\ line \in 1..Len(script)
        BY <1>0 DEF PlaceInv
      <4>2. QED
        BY <3>5, <3>6, <4>1, LineFacts DEF Tool, command
    <3>8. line < QueryLine
      BY <1>0, <3>1, <3>5, <3>6 DEF QueryLine, PlaceInv
    <3>9. failures < 2
      BY <2>1, <2>4, <3>5, <3>7 DEF Relying, Configured, Tool
    <3>10. packed = Nothing /\ warm = {}
      BY <1>0, <3>7, <3>8, <3>9 DEF EmptyInv, CopiesInv
    <3>11. QED
      BY <1>0, <2>1, <3>10, FreshPass DEF Nothing
  <2>5. QED
    BY <2>3, <2>4
<1>5. CASE ScanWindow
  <2>1. /\ In({"cold", "hot"}) /\ step \in 0..Rows-1 /\ step' = step + 1
        /\ UNCHANGED <<script, line, at, linux, done, failures>>
    BY <1>0, <1>5 DEF ScanWindow, Stay, history
  <2>2. PICK row : /\ LoadCached(step, row) \/ LoadPacked(step, row)
                   /\ seen' = [seen EXCEPT ![step] = {row}]
    BY <1>5 DEF ScanWindow
  <2>3. WantedRow' = WantedRow
    BY <2>1, SameWanted
  <2>4. /\ Relying' <=> Relying
        /\ In({"cold", "hot"})' /\ (Generated' <=> Generated) /\ (Configured' <=> Configured)
    <3>1. command' = command /\ (In({"cold", "hot"})' <=> In({"cold", "hot"}))
      BY <2>1, SameCommand, SameStage
    <3>2. QED
      BY <2>1, <3>1 DEF Relying, Generated, Configured
  <2>5. Relying => row = WantedRow \/ (LoadCached(step, row) /\ cpu[step] # {} /\ step \notin warm)
    BY <2>1, <2>2, LoadIsWanted
  <2>6. PassInv'
    <3> SUFFICES ASSUME Relying, NEW i \in 0..Rows-1
                 PROVE  /\ packed'[i] \subseteq {WantedRow}
                        /\ i \in warm' => cpu'[i] \subseteq {WantedRow}
      BY <2>3, <2>4 DEF PassInv
    <3>1. packed[i] \subseteq {WantedRow} /\ (i \in warm => cpu[i] \subseteq {WantedRow})
      BY <1>0 DEF PassInv
    <3>2. CASE LoadCached(step, row)
      BY <3>1, <3>2 DEF LoadCached, device
    <3>3. CASE LoadPacked(step, row) /\ ~LoadCached(step, row)
      <4>1. row = WantedRow
        BY <2>5, <3>3
      <4>2. CASE i = step
        BY <1>0, <2>1, <3>3, <4>1, <4>2 DEF LoadPacked, ShapeInv, IsRowMap
      <4>3. CASE i # step
        BY <1>0, <2>1, <3>1, <3>3, <4>3 DEF LoadPacked, ShapeInv, IsRowMap
      <4>4. QED
        BY <4>2, <4>3
    <3>4. QED
      BY <2>2, <3>2, <3>3
  <2>7. WindowIsCurrent'
    <3>1. ASSUME coherent, Relying, NEW i \in 0..step PROVE seen'[i] = {WantedRow}
      <4>1. i \in Row /\ step \in Row
        BY <1>0, <2>1
      <4>2. CASE i = step
        <5>1. cpu[step] = {} \/ step \in warm
          BY <1>0, <3>1, <4>1 DEF CopiesInv
        <5>2. row = WantedRow
          BY <2>5, <3>1, <5>1
        <5>3. QED
          BY <1>0, <2>2, <4>1, <4>2, <5>2 DEF ShapeInv, IsRowMap
      <4>3. CASE i # step
        <5>1. i \in 0..step-1
          BY <1>0, <4>3
        <5>2. seen'[i] = seen[i]
          BY <1>0, <2>2, <4>1, <4>3 DEF ShapeInv, IsRowMap
        <5>3. QED
          BY <1>0, <3>1, <5>1, <5>2 DEF WindowIsCurrent, Relying
      <4>4. QED
        BY <4>2, <4>3
    <3>2. step' - 1 = step /\ coherent' = coherent
      BY <1>0, <2>1, <2>2 DEF LoadCached, LoadPacked, device
    <3>3. QED
      BY <2>1, <2>3, <2>4, <3>1, <3>2 DEF WindowIsCurrent, Relying
  <2>8. QED
    BY <2>6, <2>7
<1>6. CASE MachineStep \/ UNCHANGED vars
  <2>1. /\ UNCHANGED <<coherent, script, line, at, step, linux, done, failures, seen>>
        /\ \/ UNCHANGED <<packed, cpu, warm>>
           \/ \E i \in Row : PackAhead(i) \/ Evict(i)
    BY <1>6 DEF MachineStep, PackAhead, Evict, EvictDram, vars, device, progress, history
  <2>2. WantedRow' = WantedRow
    BY <2>1, SameWanted
  <2>3. /\ Relying' <=> Relying
        /\ (In({"cold", "hot"})' <=> In({"cold", "hot"})) /\ (Generated' <=> Generated)
        /\ (Configured' <=> Configured)
    <3>1. command' = command /\ (In({"cold", "hot"})' <=> In({"cold", "hot"}))
      BY <2>1, SameCommand, SameStage
    <3>2. QED
      BY <2>1, <3>1 DEF Relying, Generated, Configured
  <2>4. WindowIsCurrent'
    BY <1>0, <2>1, <2>2, <2>3 DEF WindowIsCurrent
  <2>5. ASSUME Relying, NEW j \in 0..Rows-1
        PROVE  /\ packed'[j] \subseteq {WantedRow}
               /\ j \in warm' => cpu'[j] \subseteq {WantedRow}
    <3>1. packed[j] \subseteq {WantedRow} /\ (j \in warm => cpu[j] \subseteq {WantedRow})
      BY <1>0, <2>5 DEF PassInv
    <3>2. PackedRow(j) = WantedRow
      BY <2>5, PackedIsWanted
    <3>3. ASSUME NEW i \in Row, PackAhead(i)
          PROVE  UNCHANGED <<cpu, warm>> /\ packed'[j] \subseteq {WantedRow}
      BY <1>0, <3>1, <3>2, <3>3 DEF PackAhead, ShapeInv, IsRowMap
    <3>4. ASSUME NEW i \in Row, Evict(i)
          PROVE  UNCHANGED packed /\ (j \in warm' => cpu'[j] \subseteq {WantedRow})
      BY <1>0, <3>1, <3>4 DEF Evict, ShapeInv, IsRowMap
    <3>5. QED
      BY <2>1, <3>1, <3>3, <3>4
  <2>6. PassInv'
    BY <2>2, <2>3, <2>5 DEF PassInv
  <2>7. QED
    BY <2>4, <2>6
<1>7. QED
  BY <1>1, <1>2, <1>3, <1>4, <1>5, <1>6 DEF Next, ToolStep

-----------------------------------------------------------------------------
\* What a tool relies on, the table, the registers and the engine, is as its
\* script has left it at every step, whichever tools have failed before.
THEOREM Invariance == Spec => []IInv
<1>1. IInv /\ [Next]_vars => IInv'
  BY NextPlaceInv, NextShapeInv, NextTableInv, NextRegsInv, NextEmptyInv, NextCopiesInv,
     NextPassInv DEF IInv
<1>2. QED
  BY InitIInv, <1>1, PTL DEF Spec

\* Where a reset drops the CPU's copies, every row a window pass reads is the
\* row its script configured, of the table its script generated: for every set
\* of scripts, whichever tools have failed, as long as one of the two resets
\* behind the query before has not.
THEOREM WindowCurrent == Spec => []WindowIsCurrent
<1>1. IInv => WindowIsCurrent
  BY DEF IInv
<1>2. QED
  BY Invariance, <1>1, PTL

\* Where it does not, a row can be wrong only if the CPU answered it from a
\* copy older than the last toggle; and a row of DRAM only if the copy is older
\* than the table.
THEOREM OnlyOldCopiesMislead == Spec => StaleOnlyFromOldCopies
<1> DEFINE Step == \A i \in Row : i = step /\ step' = step + 1 =>
       /\ In({"cold", "hot"}) /\ Generated /\ Configured /\ seen'[i] # {WantedRow}
            => cpu[i] # {} /\ i \notin warm
       /\ In({"row", "col"}) /\ Generated /\ seen'[i] # {WantedTable}
            => dcache[stage[2]][i] # {} /\ i \notin dfresh[stage[2]]
<1>1. IInv /\ [Next]_vars => [Step]_vars
  <2> SUFFICES ASSUME IInv, [Next]_vars, step \in Row, step' = step + 1
               PROVE  /\ In({"cold", "hot"}) /\ Generated /\ Configured /\ seen'[step] # {WantedRow}
                           => cpu[step] # {} /\ step \notin warm
                      /\ In({"row", "col"}) /\ Generated /\ seen'[step] # {WantedTable}
                           => dcache[stage[2]][step] # {} /\ step \notin dfresh[stage[2]]
    BY Zenon
  <2>0. /\ ShapeInv /\ CopiesInv /\ step \in Nat /\ Rows \in Nat /\ command \in CommandLine
        /\ (Running => at \in 1..Len(Stages(command)))
    BY CommandFacts DEF IInv, PlaceInv
  <2>1. ScanWindow \/ ScanDram \/ ~In({"cold", "hot", "row", "col"})
    <3>1. CASE ZeroTable \/ FillTable \/ ConfigReg \/ ResetFrame \/ ResetToggle
      BY <3>1 DEF ZeroTable, FillTable, ConfigReg, ResetFrame, ResetToggle, In
    <3>2. CASE EndPass \/ EndTool \/ Fail
      BY <2>0, <3>2 DEF EndPass, EndTool, Fail, NextStage, Advance
    <3>3. CASE MachineStep \/ UNCHANGED vars
      BY <2>0, <3>3 DEF MachineStep, vars, progress
    <3>4. QED
      BY <3>1, <3>2, <3>3 DEF Next, ToolStep
  <2>2. ASSUME In({"cold", "hot"}), Generated, Configured, seen'[step] # {WantedRow}
        PROVE  cpu[step] # {} /\ step \notin warm
    <3>1. ScanWindow
      BY <2>1, <2>2 DEF ScanDram, In
    <3>2. PICK row : /\ LoadCached(step, row) \/ LoadPacked(step, row)
                     /\ seen' = [seen EXCEPT ![step] = {row}]
      BY <3>1 DEF ScanWindow
    <3>3. step \in 0..Rows-1
      BY <2>0, <3>1 DEF ScanWindow
    <3>4. row # WantedRow
      BY <2>0, <2>2, <3>2 DEF ShapeInv, IsRowMap
    <3>5. QED
      BY <2>2, <3>2, <3>3, <3>4, LoadIsWanted DEF Relying
  <2>3. ASSUME In({"row", "col"}), Generated, seen'[step] # {WantedTable}
        PROVE  dcache[stage[2]][step] # {} /\ step \notin dfresh[stage[2]]
    <3>1. ScanDram /\ step \in 0..Rows-1
      BY <2>0, <2>1, <2>3 DEF ScanWindow, ScanDram, In
    <3>2. dram[stage[2]][step] = WantedTable
      BY <2>3, <3>1, TableIsWanted DEF In
    <3>3. \/ dcache[stage[2]][step] # {} /\ seen' = [seen EXCEPT ![step] = dcache[stage[2]][step]]
          \/ seen' = [seen EXCEPT ![step] = {dram[stage[2]][step]}]
      BY <3>1 DEF ScanDram
    <3>4. dcache[stage[2]][step] # {} /\ dcache[stage[2]][step] # {WantedTable}
      BY <2>0, <2>3, <3>2, <3>3 DEF ShapeInv, IsRowMap
    <3>5. stage[2] \in Tables
      BY <2>0, <2>3, StagePlaces DEF In, stage, Tables
    <3>6. QED
      BY <2>0, <3>2, <3>4, <3>5 DEF CopiesInv
  <2>4. QED
    BY <2>2, <2>3
<1>2. QED
  BY Invariance, <1>1, PTL DEF Spec, StaleOnlyFromOldCopies

=============================================================================
