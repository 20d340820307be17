--------------------------- MODULE EdbtFilesProofs ---------------------------
(***************************************************************************)
(* For every sequence of experiments, every limit and whatever counters    *)
(* the kernel refuses: a process that runs out of descriptors leaves no    *)
(* rows in the engine, it leaks descriptors of /dev/mem and no others, and *)
(* with enough of them it prints true counts.                              *)
(***************************************************************************)
EXTENDS EdbtFiles, FiniteSetTheorems, WellFoundedInduction, TLAPS

\* The query has its descriptor of the window until it closes it, and from
\* then on that number is free: nothing is opened before the reset.
InQuery == pc \in {"dram", "setup", "pass", "teardown", "close", "close_dram", "reset"}

Returned == pc \in {"close_dram", "reset"} \/ (pc = "teardown" /\ query = "q2")

HpmInv ==
  /\ InQuery => hpm_fd \in 0..limit-1
  /\ Returned => hpm_fd \notin DOMAIN files

HoldsInv ==
  holds => pc \in {"pass", "teardown", "close", "close_dram", "reset"}

IInv == HpmInv /\ HoldsInv

\* A close leaves the number it is given, and those that are free, free.
LEMMA CloseFrees ==
  ASSUME NEW n, Closed(n)
  PROVE  DOMAIN files' = DOMAIN files \ {n}
BY DEF Closed

LEMMA InitIInv == Init => IInv
BY DEF Init, IInv, HpmInv, HoldsInv, InQuery, Returned

LEMMA NextIInv == IInv /\ [Next]_vars => IInv'
<1> SUFFICES ASSUME IInv, [Next]_vars PROVE IInv'
  OBVIOUS
<1> USE DEF IInv, HpmInv, HoldsInv, InQuery, Returned
<1>1. CASE OpenResult
  BY <1>1 DEF OpenResult, statics
<1>2. CASE GenerateDb
  BY <1>2 DEF GenerateDb, OpenMem, statics
<1>3. CASE ConfigureRelcache
  BY <1>3 DEF ConfigureRelcache, OpenMem, statics
<1>4. CASE OpenHpm
  <2>1. PICK n \in Free \cup {-1} : OpenMem(n, "hpm", "dram") /\ hpm_fd' = n
    BY <1>4 DEF OpenHpm
  <2>2. pc' = "exit" \/ (pc' = "dram" /\ hpm_fd' \in 0..limit-1)
    BY <2>1 DEF OpenMem, Free
  <2> QED
    BY <1>4, <2>2 DEF OpenHpm, statics
<1>5. CASE OpenDram
  <2>1. pc' \in {"setup", "exit"} /\ UNCHANGED <<hpm_fd, limit, holds>> /\ pc = "dram"
    BY <1>5 DEF OpenDram, OpenMem, statics
  <2> QED
    BY <2>1
<1>6. CASE OpenPmc
  BY <1>6 DEF OpenPmc, statics
<1>7. CASE PmcRefused
  BY <1>7 DEF PmcRefused, statics
<1>8. CASE PmcsReady
  BY <1>8 DEF PmcsReady, statics
<1>9. CASE Pass
  BY <1>9 DEF Pass, statics
<1>10. CASE PassesOver
  <2>1. query' = query
    BY <1>10 DEF PassesOver, statics, place, query
  <2> QED
    BY <1>10, <2>1 DEF PassesOver, statics
<1>11. CASE ClosePmc
  <2>1. DOMAIN files' \subseteq DOMAIN files /\ query' = query
    BY <1>11, CloseFrees DEF ClosePmc, statics, place, query
  <2> QED
    BY <1>11, <2>1 DEF ClosePmc, statics
<1>12. CASE TeardownOver
  BY <1>12 DEF TeardownOver, AfterTeardown, statics
<1>13. CASE CloseHpm
  <2>1. hpm_fd' = hpm_fd /\ hpm_fd' \notin DOMAIN files'
    BY <1>13, CloseFrees DEF CloseHpm
  <2> QED
    BY <1>13, <2>1 DEF CloseHpm, statics
<1>14. CASE CloseDram
  <2>1. DOMAIN files' \subseteq DOMAIN files /\ query' = query
    BY <1>14, CloseFrees DEF CloseDram, statics, place, query
  <2> QED
    BY <1>14, <2>1 DEF CloseDram, statics
<1>15. CASE ResetRelcache
  <2>1. hpm_fd \in Free
    BY <1>15 DEF ResetRelcache, Free
  <2>2. pc' = "next" /\ ~holds'
    BY <1>15, <2>1 DEF ResetRelcache, OpenMem
  <2> QED
    BY <2>2
<1>16. CASE NextRun
  BY <1>16 DEF NextRun, statics
<1>17. CASE EndExperiment
  BY <1>17 DEF EndExperiment, statics
<1>18. CASE UNCHANGED vars
  BY <1>18 DEF vars, statics, place, query
<1> QED
  BY <1>1, <1>2, <1>3, <1>4, <1>5, <1>6, <1>7, <1>8, <1>9, <1>10, <1>11, <1>12, <1>13, <1>14,
     <1>15, <1>16, <1>17, <1>18 DEF Next

\* open_fd's exit, wherever it strikes, leaves no packed rows behind: the
\* query has given back the descriptor that reset_relcache opens (open_fd,
\* run_query1, run_query2, reset_relcache).
THEOREM ExitIsHarmless == Spec => []ExitLeavesEngineEmpty
<1>1. IInv => ExitLeavesEngineEmpty
  BY DEF IInv, HoldsInv, ExitLeavesEngineEmpty
<1> QED
  BY <1>1, InitIInv, NextIInv, PTL DEF Spec

-----------------------------------------------------------------------------
\* Descriptors that are open besides those of /dev/mem that nobody closes.
HasResult == pc \notin {"open", "done"}

HasHpm ==
  \/ pc \in {"dram", "setup", "pass", "close"}
  \/ pc = "teardown" /\ query # "q2"

HasDram == (HasHpm /\ pc # "dram") \/ pc = "close_dram"

\* The counters that are open.
Live ==
  CASE pc \in {"setup", "pass"}                         -> 1..opened
    [] pc \in {"close", "close_dram"} /\ query = "q2"   -> 1..opened
    [] pc = "teardown"                                  -> step..opened
    [] OTHER                                            -> {}

\* Descriptors that the run has leaked so far.
LeakedNow ==
  CASE pc \in {"open", "generate", "done"} -> 0
    [] pc = "configure"                    -> 1
    [] pc = "next"                         -> 3
    [] OTHER                               -> 2

PlaceInv ==
  /\ command \in Command /\ limit \in Nat
  /\ experiment \in 1..Len(command)+1
  /\ experiment = Len(command)+1 <=> pc = "done"
  /\ pc # "done" => run \in 1..Len(command[experiment].stores)
  /\ pc \in {"open", "done"} => run = 1

PmcInv ==
  /\ pmcs = [c \in 1..5 |-> pmcs[c]] /\ opened \in 0..5
  /\ pc = "setup" => step = opened + 1
  /\ pc \in {"pass", "teardown"} => step \in Nat \ {0}
  /\ pc = "teardown" => step <= opened + 1
  /\ pc \in {"close", "close_dram"} /\ query = "q2" => step = 1
  /\ pc \in {"pass", "teardown", "close", "close_dram"} /\ opened < 5 => pmcs[opened+1] = -1

Purposes == {"std", "result", "mem", "hpm", "dram"} \cup {Counters[c] : c \in 1..5}

TableInv ==
  /\ DOMAIN files \subseteq 0..limit-1
  /\ \A n \in DOMAIN files : files[n] \in Purposes

OpenInv ==
  /\ OpenFor("std") = Std
  /\ OpenFor("result") = IF HasResult THEN {result_fd} ELSE {}
  /\ OpenFor("hpm") = IF HasHpm THEN {hpm_fd} ELSE {}
  /\ OpenFor("dram") = IF HasDram THEN {dram_fd} ELSE {}
  /\ \A c \in 1..5 : OpenFor(Counters[c]) = IF c \in Live THEN {pmcs[c]} ELSE {}

LeakInv ==
  Cardinality(OpenFor("mem")) =
    IF pc = "done" THEN 3 * Calls ELSE 3 * (CallsBefore(experiment) + run - 1) + LeakedNow

LinesInv ==
  /\ lines \in Seq(SUBSET (1..5))
  /\ ~refused /\ limit >= 10 + 3 * Calls =>
       /\ pc = "pass" => opened = 5
       /\ \A n \in DOMAIN lines : lines[n] = 1..5

FilesInv ==
  pc \notin {"exit", "failed"} => PlaceInv /\ PmcInv /\ TableInv /\ OpenInv /\ LeakInv

-----------------------------------------------------------------------------
\* A set of numbers with 0, and with the successor of each of its members, is
\* Nat.
LEMMA Least ==
  ASSUME NEW T, T \subseteq Nat, T # {}
  PROVE  \E x \in T : \A y \in T : x <= y
<1>1. PICK x \in T : \A y \in T : <<y, x>> \notin OpToRel(<, Nat)
  BY WFMin, NatLessThanWellFounded, Zenon
<1>2. \A y \in T : y \in Nat /\ ~(y < x)
  BY <1>1, Zenon DEF OpToRel
<1>3. QED
  BY <1>2

LEMMA Induct ==
  ASSUME NEW S, S \subseteq Nat, 0 \in S, \A n \in S : n+1 \in S
  PROVE  S = Nat
<1> SUFFICES ASSUME S # Nat PROVE FALSE
  OBVIOUS
<1>1. PICK x \in Nat \ S : \A y \in Nat \ S : x <= y
  BY Least
<1>2. x-1 \in Nat \ S
  BY <1>1
<1>3. QED
  BY <1>1, <1>2

\* The calls of the experiments, as a function.
Runs ==
  CHOOSE calls : calls = [n \in 0..Len(command) |->
    IF n = 0 THEN 0 ELSE calls[n-1] + Len(command[n].stores)]

\* The calls before each experiment add up.
LEMMA CallsFacts ==
  ASSUME command \in Command
  PROVE  /\ CallsBefore(1) = 0 /\ Len(command) \in Nat \ {0}
         /\ \A e \in 1..Len(command) :
              /\ CallsBefore(e) \in Nat /\ CallsBefore(e+1) <= Calls /\ Calls \in Nat
              /\ CallsBefore(e+1) = CallsBefore(e) + Len(command[e].stores)
              /\ Len(command[e].stores) \in Nat \ {0}
<1> DEFINE N == Len(command)
           L(n) == Len(command[n].stores)
<1>1. N \in Nat \ {0} /\ \A e \in 1..N : L(e) \in Nat \ {0}
  <2>1. command \in Seq([query : STRING, stores : Seq(STRING)]) /\ N > 0
        /\ \A e \in 1..N : L(e) > 0
    BY FilesAssumption
  <2>2. N \in Nat \ {0} /\ \A e \in 1..N : command[e] \in [query : STRING, stores : Seq(STRING)]
    <3> DEFINE Experiment == [query : STRING, stores : Seq(STRING)]
    <3>1. command \in Seq(Experiment)
      BY <2>1
    <3> HIDE DEF Experiment
    <3>2. N \in Nat /\ \A e \in 1..N : command[e] \in Experiment
      BY <3>1
    <3>3. QED
      BY <2>1, <3>2 DEF Experiment
  <2>3. \A e \in 1..N : command[e].stores \in Seq(STRING)
    BY <2>2
  <2>4. QED
    BY <2>1, <2>2, <2>3
<1> HIDE DEF N, L
<1>2. \E f : f = [k \in 0..N |-> IF k = 0 THEN 0 ELSE f[k-1] + L(k)]
  <2> DEFINE S == {n \in Nat : n <= N =>
                     \E f : f = [k \in 0..n |-> IF k = 0 THEN 0 ELSE f[k-1] + L(k)]}
  <2>1. 0 \in S
    <3>1. [k \in 0..0 |-> 0] = [k \in 0..0 |-> IF k = 0 THEN 0 ELSE [j \in 0..0 |-> 0][k-1] + L(k)]
      OBVIOUS
    <3>2. QED
      BY <3>1
  <2>2. ASSUME NEW n \in S PROVE n+1 \in S
    <3> SUFFICES ASSUME n+1 <= N
                 PROVE  \E f : f = [k \in 0..n+1 |-> IF k = 0 THEN 0 ELSE f[k-1] + L(k)]
      OBVIOUS
    <3>1. n \in Nat /\ n <= N
      BY <1>1
    <3>2. PICK f : f = [k \in 0..n |-> IF k = 0 THEN 0 ELSE f[k-1] + L(k)]
      BY <3>1
    <3> DEFINE g == [k \in 0..n+1 |-> IF k = n+1 THEN f[n] + L(n+1) ELSE f[k]]
    <3>3. \A k \in 0..n+1 : g[k] = IF k = 0 THEN 0 ELSE g[k-1] + L(k)
      <4> TAKE k \in 0..n+1
      <4>1. CASE k = 0
        BY <3>1, <3>2, <4>1
      <4>2. CASE k \in 1..n
        <5>1. g[k] = f[k] /\ g[k-1] = f[k-1]
          BY <3>1, <4>2
        <5>2. f[k] = f[k-1] + L(k)
          BY <3>1, <3>2, <4>2
        <5>3. QED
          BY <4>2, <5>1, <5>2
      <4>3. CASE k = n+1
        BY <3>1, <4>3
      <4>4. QED
        BY <3>1, <4>1, <4>2, <4>3
    <3>4. g = [k \in 0..n+1 |-> g[k]]
      OBVIOUS
    <3> HIDE DEF g
    <3>5. g = [k \in 0..n+1 |-> IF k = 0 THEN 0 ELSE g[k-1] + L(k)]
      BY <3>3, <3>4
    <3>6. QED
      BY <3>5
  <2> HIDE DEF S
  <2>3. S = Nat
    <3>1. S \subseteq Nat
      BY DEF S
    <3>2. QED
      BY <2>1, <2>2, <3>1, Induct
  <2>4. N \in Nat /\ N <= N
    BY <1>1
  <2>5. QED
    BY <2>3, <2>4, Zenon DEF S
<1>3. Runs = [k \in 0..N |-> IF k = 0 THEN 0 ELSE Runs[k-1] + L(k)]
  BY <1>2, Zenon DEF Runs, N, L
<1>4. Runs[0] = 0 /\ \A k \in 1..N : Runs[k] = Runs[k-1] + L(k)
  BY <1>1, <1>3
<1>5. \A n \in 0..N : Runs[n] \in Nat /\ \A k \in 0..n : Runs[k] <= Runs[n]
  <2> DEFINE S == {n \in Nat : n <= N => Runs[n] \in Nat /\ \A k \in 0..n : Runs[k] <= Runs[n]}
  <2>1. 0 \in S
    BY <1>4
  <2>2. ASSUME NEW n \in S PROVE n+1 \in S
    <3> SUFFICES ASSUME n+1 <= N
                 PROVE  Runs[n+1] \in Nat /\ \A k \in 0..n+1 : Runs[k] <= Runs[n+1]
      OBVIOUS
    <3>1. Runs[n] \in Nat /\ (\A k \in 0..n : Runs[k] <= Runs[n]) /\ n \in Nat
      BY <1>1
    <3>2. Runs[n+1] = Runs[n] + L(n+1) /\ L(n+1) \in Nat
      BY <1>1, <1>4
    <3>3. \A k \in 0..n : Runs[k] \in Nat
      <4>1. \A k \in 0..n : k = 0 \/ (k \in 1..N /\ k-1 \in 0..n)
        BY <1>1, <3>1
      <4>2. \A k \in 0..n : Runs[k] \in Nat
        <5> DEFINE T == {k \in Nat : k <= n => Runs[k] \in Nat}
        <5>1. 0 \in T
          BY <1>4
        <5>2. ASSUME NEW k \in T PROVE k+1 \in T
          BY <1>1, <1>4, <3>1
        <5> HIDE DEF T
        <5>3. T = Nat
          <6>1. T \subseteq Nat
            BY DEF T
          <6>2. QED
            BY <5>1, <5>2, <6>1, Induct
        <5>4. QED
          BY <5>3, <3>1 DEF T
      <4>3. QED
        BY <4>2
    <3>4. QED
      BY <3>1, <3>2, <3>3
  <2> HIDE DEF S
  <2>3. S = Nat
    <3>1. S \subseteq Nat
      BY DEF S
    <3>2. QED
      BY <2>1, <2>2, <3>1, Induct
  <2>4. QED
    BY <1>1, <2>3 DEF S
<1>6. \A e : CallsBefore(e) = Runs[e-1]
  BY DEF CallsBefore, Runs
<1>7. Calls = Runs[N]
  <2>1. N+1-1 = N
    BY <1>1
  <2>2. QED
    BY <1>6, <2>1 DEF Calls, N
<1>8. \A e \in 1..N : /\ Runs[e-1] \in Nat /\ Runs[(e+1)-1] <= Calls /\ Calls \in Nat
                      /\ Runs[(e+1)-1] = Runs[e-1] + L(e) /\ L(e) \in Nat \ {0}
  BY <1>1, <1>4, <1>5, <1>7
<1>9. Runs[1-1] = 0
  BY <1>4
<1>10. QED
  BY <1>1, <1>6, <1>8, <1>9 DEF N, L

-----------------------------------------------------------------------------
\* The purposes of descriptors are told apart.
LEMMA Names ==
  ASSUME NEW c \in 1..5
  PROVE  /\ Counters[c] \notin {"std", "result", "mem", "hpm", "dram"}
         /\ \A d \in 1..5 : Counters[d] = Counters[c] => d = c
<1>1. /\ Counters[1] = "l1_references" /\ Counters[2] = "l1_refills"
      /\ Counters[3] = "l2_references" /\ Counters[4] = "l2_refills"
      /\ Counters[5] = "inst_retired"
  BY DEF Counters
<1>2. QED
  BY <1>1

\* What an open and a close change.
LEMMA OpenedFacts ==
  ASSUME TableInv, UNCHANGED limit, NEW n \in Free, NEW for \in Purposes, Opened(n, for)
  PROVE  /\ TableInv' /\ n \notin DOMAIN files
         /\ OpenFor(for)' = OpenFor(for) \cup {n}
         /\ \A w : w # for => OpenFor(w)' = OpenFor(w)
<1>1. /\ DOMAIN files' = DOMAIN files \cup {n} /\ files'[n] = for
      /\ \A m \in DOMAIN files : m # n => files'[m] = files[m]
  BY DEF Opened
<1>2. n \in 0..limit-1 /\ n \notin DOMAIN files
  BY DEF Free
<1>3. TableInv'
  BY <1>1, <1>2 DEF TableInv, Purposes
<1>4. OpenFor(for)' = OpenFor(for) \cup {n} /\ \A w : w # for => OpenFor(w)' = OpenFor(w)
  BY <1>1, <1>2 DEF OpenFor
<1>5. QED
  BY <1>2, <1>3, <1>4

LEMMA ClosedFacts ==
  ASSUME TableInv, UNCHANGED limit, NEW n, Closed(n), NEW for, n \in OpenFor(for)
  PROVE  /\ TableInv'
         /\ OpenFor(for)' = OpenFor(for) \ {n}
         /\ \A w : w # for => OpenFor(w)' = OpenFor(w)
<1>1. /\ DOMAIN files' = DOMAIN files \ {n} /\ files[n] = for /\ n \in DOMAIN files
      /\ \A m \in DOMAIN files' : files'[m] = files[m]
  BY DEF Closed, OpenFor
<1>2. TableInv'
  BY <1>1 DEF TableInv, Purposes
<1>3. OpenFor(for)' = OpenFor(for) \ {n} /\ \A w : w # for => OpenFor(w)' = OpenFor(w)
  BY <1>1 DEF OpenFor
<1>4. QED
  BY <1>2, <1>3

LEMMA SameFiles ==
  ASSUME UNCHANGED <<files, limit>>
  PROVE  (TableInv => TableInv') /\ \A w : OpenFor(w)' = OpenFor(w)
BY DEF TableInv, OpenFor, Purposes

\* One descriptor more of /dev/mem.
LEMMA OneMore ==
  ASSUME TableInv, limit \in Nat, NEW n, n \notin DOMAIN files,
         OpenFor("mem")' = OpenFor("mem") \cup {n}
  PROVE  /\ Cardinality(OpenFor("mem")') = Cardinality(OpenFor("mem")) + 1
<1>1. IsFiniteSet(0..limit-1)
  BY FS_Interval
<1>2. OpenFor("mem") \subseteq 0..limit-1 /\ n \notin OpenFor("mem")
  BY DEF TableInv, OpenFor
<1>3. IsFiniteSet(OpenFor("mem"))
  BY <1>1, <1>2, FS_Subset
<1>4. QED
  BY <1>2, <1>3, FS_AddElement

\* Within a run the process stays where it is.
LEMMA SamePlace ==
  ASSUME UNCHANGED <<statics, place>>, PlaceInv, pc \notin {"open", "done"}, pc' \notin {"open", "done"}
  PROVE  /\ PlaceInv' /\ query' = query /\ limit' = limit
         /\ CallsBefore(experiment)' = CallsBefore(experiment) /\ run' = run /\ Calls' = Calls
<1>1. UNCHANGED <<command, limit, experiment, run>>
  BY DEF statics, place
<1>2. PlaceInv' /\ query' = query
  BY <1>1 DEF PlaceInv, query
<1>3. CallsBefore(experiment)' = CallsBefore(experiment) /\ Calls' = Calls
  BY <1>1 DEF CallsBefore, Calls
<1>4. QED
  BY <1>1, <1>2, <1>3

\* Where nothing is opened or closed.
LEMMA OpenStays ==
  ASSUME TableInv, OpenInv, UNCHANGED <<files, limit, result_fd, hpm_fd, dram_fd>>,
         HasResult' <=> HasResult, HasHpm' <=> HasHpm, HasDram' <=> HasDram,
         Live' = Live, \A c \in Live : pmcs'[c] = pmcs[c]
  PROVE  TableInv' /\ OpenInv' /\ OpenFor("mem")' = OpenFor("mem")
<1>1. TableInv' /\ \A w : OpenFor(w)' = OpenFor(w)
  BY SameFiles
<1>2. QED
  BY <1>1 DEF OpenInv

\* Where one more descriptor of /dev/mem is opened.
LEMMA MemOpened ==
  ASSUME TableInv, OpenInv, limit \in Nat, UNCHANGED <<limit, result_fd, hpm_fd, dram_fd, pmcs>>,
         HasResult' <=> HasResult, HasHpm' <=> HasHpm, HasDram' <=> HasDram, Live' = Live,
         NEW n \in Free, Opened(n, "mem")
  PROVE  TableInv' /\ OpenInv' /\ Cardinality(OpenFor("mem")') = Cardinality(OpenFor("mem")) + 1
<1>1. /\ TableInv' /\ n \notin DOMAIN files
      /\ OpenFor("mem")' = OpenFor("mem") \cup {n} /\ \A w : w # "mem" => OpenFor(w)' = OpenFor(w)
  BY OpenedFacts DEF Purposes
<1>2. \A c \in 1..5 : Counters[c] # "mem"
  BY Names
<1>3. OpenInv'
  BY <1>1, <1>2 DEF OpenInv
<1>4. QED
  BY <1>1, <1>3, OneMore

\* Every step keeps the table of descriptors what it should be.
LEMMA NextFilesInv == FilesInv /\ [Next]_vars => FilesInv'
<1> SUFFICES ASSUME FilesInv, [Next]_vars, pc' \notin {"exit", "failed"}, pc \notin {"exit", "failed"}
             PROVE  PlaceInv' /\ PmcInv' /\ TableInv' /\ OpenInv' /\ LeakInv'
  <2>1. Next => pc \notin {"exit", "failed"}
    <3>1. OpenResult \/ GenerateDb \/ ConfigureRelcache \/ OpenHpm \/ OpenDram
            => pc \notin {"exit", "failed"}
      BY DEF OpenResult, GenerateDb, ConfigureRelcache, OpenHpm, OpenDram
    <3>2. OpenPmc \/ PmcRefused \/ PmcsReady \/ Pass \/ PassesOver => pc \notin {"exit", "failed"}
      BY DEF OpenPmc, PmcRefused, PmcsReady, Pass, PassesOver
    <3>3. ClosePmc \/ TeardownOver \/ CloseHpm \/ CloseDram => pc \notin {"exit", "failed"}
      BY DEF ClosePmc, TeardownOver, CloseHpm, CloseDram
    <3>4. ResetRelcache \/ NextRun \/ EndExperiment => pc \notin {"exit", "failed"}
      BY DEF ResetRelcache, NextRun, EndExperiment
    <3>5. QED
      BY <3>1, <3>2, <3>3, <3>4 DEF Next
  <2>2. UNCHANGED vars => pc' = pc
    BY DEF vars
  <2>3. QED
    BY <2>1, <2>2 DEF FilesInv
<1>0. /\ PlaceInv /\ PmcInv /\ TableInv /\ OpenInv /\ LeakInv /\ limit \in Nat
      /\ Cardinality(OpenFor("mem")) =
           IF pc = "done" THEN 3 * Calls
           ELSE 3 * (CallsBefore(experiment) + run - 1) + LeakedNow
  BY DEF FilesInv, PlaceInv, LeakInv
<1>15. pc # "done" => CallsBefore(experiment) \in Nat /\ run \in Nat \ {0}
  <2> SUFFICES ASSUME pc # "done"
               PROVE  CallsBefore(experiment) \in Nat /\ run \in Nat \ {0}
    OBVIOUS
  <2>1. experiment \in 1..Len(command) /\ command \in Command /\ run \in Nat \ {0}
    BY <1>0, CallsFacts DEF PlaceInv
  <2>2. QED
    BY <2>1, CallsFacts
<1>1. CASE OpenResult
  <2>1. PICK n \in Free : Opened(n, "result") /\ result_fd' = n /\ pc' = "generate" /\ pc = "open"
    BY <1>1 DEF OpenResult
  <2>2. UNCHANGED <<statics, hpm_fd, dram_fd, pmcs, place, step, opened>>
    BY <1>1 DEF OpenResult
  <2>3. UNCHANGED <<command, limit, experiment, run>>
    BY <2>2 DEF statics, place
  <2>4. /\ TableInv' /\ OpenFor("result")' = OpenFor("result") \cup {n}
        /\ \A w : w # "result" => OpenFor(w)' = OpenFor(w)
    BY <1>0, <2>1, <2>3, OpenedFacts DEF Purposes
  <2>5. /\ ~HasResult /\ ~HasHpm /\ ~HasDram /\ Live = {} /\ LeakedNow = 0
        /\ HasResult' /\ ~HasHpm' /\ ~HasDram' /\ Live' = {} /\ LeakedNow' = 0
    BY <2>1 DEF HasResult, HasHpm, HasDram, Live, LeakedNow
  <2>6. OpenInv'
    <3>1. \A c \in 1..5 : Counters[c] # "result"
      BY Names
    <3>2. QED
      BY <1>0, <2>1, <2>4, <2>5, <3>1 DEF OpenInv
  <2>7. PlaceInv' /\ PmcInv'
    BY <1>0, <2>1, <2>2, <2>3 DEF PlaceInv, PmcInv
  <2>8. LeakInv'
    <3>1. CallsBefore(experiment)' = CallsBefore(experiment)
      BY <2>3 DEF CallsBefore
    <3>2. QED
      BY <1>0, <2>1, <2>3, <2>4, <2>5, <3>1 DEF LeakInv
  <2>9. QED
    BY <2>4, <2>6, <2>7, <2>8
<1>2. CASE GenerateDb \/ ConfigureRelcache \/ ResetRelcache
  <2>1. PICK n \in Free : Opened(n, "mem")
    BY <1>2 DEF GenerateDb, ConfigureRelcache, ResetRelcache, OpenMem
  <2>2. /\ \/ pc = "generate" /\ pc' = "configure"
           \/ pc = "configure" /\ pc' = "hpm"
           \/ pc = "reset" /\ pc' = "next"
        /\ UNCHANGED <<statics, place, result_fd, hpm_fd, dram_fd, pmcs, step, opened>>
    BY <1>2 DEF GenerateDb, ConfigureRelcache, ResetRelcache, OpenMem
  <2>3. /\ PlaceInv' /\ query' = query /\ limit' = limit
        /\ CallsBefore(experiment)' = CallsBefore(experiment) /\ run' = run
    BY <1>0, <2>2, SamePlace
  <2>4. PmcInv'
    BY <1>0, <2>2 DEF PmcInv
  <2>5. /\ HasResult' <=> HasResult
        /\ HasHpm' <=> HasHpm
        /\ HasDram' <=> HasDram
        /\ Live' = Live /\ LeakedNow' = LeakedNow + 1
    BY <2>2 DEF HasResult, HasHpm, HasDram, Live, LeakedNow
  <2>6. /\ TableInv' /\ OpenInv'
        /\ Cardinality(OpenFor("mem")') = Cardinality(OpenFor("mem")) + 1
    BY <1>0, <2>1, <2>2, <2>3, <2>5, MemOpened
  <2>7. LeakedNow \in Int
    BY DEF LeakedNow
  <2>8. LeakInv'
    BY <1>0, <1>15, <2>2, <2>3, <2>5, <2>6, <2>7 DEF LeakInv
  <2>9. QED
    BY <2>3, <2>4, <2>6, <2>8
<1>3. CASE OpenHpm \/ OpenDram
  <2>1. PICK n \in Free, for \in {"hpm", "dram"} :
          /\ Opened(n, for)
          /\ \/ /\ for = "hpm" /\ pc = "hpm" /\ pc' = "dram" /\ hpm_fd' = n /\ dram_fd' = dram_fd
                /\ UNCHANGED <<step, opened>>
             \/ /\ for = "dram" /\ pc = "dram" /\ pc' = "setup" /\ dram_fd' = n /\ hpm_fd' = hpm_fd
                /\ step' = 1 /\ opened' = 0
    <3>1. CASE OpenHpm
      <4>1. \E n \in Free : Opened(n, "hpm") /\ hpm_fd' = n /\ pc = "hpm" /\ pc' = "dram"
                             /\ dram_fd' = dram_fd /\ UNCHANGED <<step, opened>>
        BY <3>1 DEF OpenHpm, OpenMem
      <4>2. QED
        BY <4>1
    <3>2. CASE OpenDram
      <4>1. \E n \in Free : Opened(n, "dram") /\ dram_fd' = n /\ pc = "dram" /\ pc' = "setup"
                             /\ hpm_fd' = hpm_fd /\ step' = 1 /\ opened' = 0
        BY <3>2 DEF OpenDram, OpenMem
      <4>2. QED
        BY <4>1
    <3>3. QED
      BY <1>3, <3>1, <3>2
  <2>2. UNCHANGED <<statics, place, result_fd, pmcs>>
    BY <1>3 DEF OpenHpm, OpenDram
  <2>3. /\ PlaceInv' /\ query' = query /\ limit' = limit
        /\ CallsBefore(experiment)' = CallsBefore(experiment) /\ run' = run
    BY <1>0, <2>1, <2>2, SamePlace
  <2>4. PmcInv'
    BY <1>0, <2>1, <2>2 DEF PmcInv
  <2>5. /\ TableInv' /\ OpenFor(for)' = OpenFor(for) \cup {n}
        /\ \A w : w # for => OpenFor(w)' = OpenFor(w)
    BY <1>0, <2>1, <2>3, OpenedFacts DEF Purposes
  <2>6. /\ HasResult /\ HasResult' /\ LeakedNow' = LeakedNow /\ HasHpm'
        /\ for = "hpm" => ~HasHpm /\ ~HasDram'
        /\ for = "dram" => HasHpm /\ HasDram'
        /\ ~HasDram
        /\ Live' = Live
    BY <2>1 DEF HasResult, HasHpm, HasDram, Live, LeakedNow
  <2>7. OpenInv'
    <3>1. \A c \in 1..5 : Counters[c] # for
      BY Names
    <3>2. for # "mem" /\ for # "std" /\ for # "result"
      OBVIOUS
    <3>3. OpenFor("hpm")' = {hpm_fd'} /\ OpenFor("dram")' = IF for = "dram" THEN {dram_fd'} ELSE {}
      BY <1>0, <2>1, <2>5, <2>6 DEF OpenInv
    <3>4. QED
      BY <1>0, <2>1, <2>2, <2>5, <2>6, <3>1, <3>2, <3>3 DEF OpenInv
  <2>8. LeakInv'
    <3>1. OpenFor("mem")' = OpenFor("mem")
      BY <2>1, <2>5
    <3>2. QED
      BY <1>0, <2>1, <2>3, <2>6, <3>1 DEF LeakInv
  <2>9. QED
    BY <2>3, <2>4, <2>5, <2>7, <2>8
<1>4. CASE OpenPmc
  <2>1. PICK n \in Free, s \in 1..5 :
          Opened(n, Counters[s]) /\ pmcs' = [pmcs EXCEPT ![s] = n] /\ s = step
    <3>1. step \in 1..5
      BY <1>0, <1>4 DEF OpenPmc, PmcInv
    <3>2. QED
      BY <1>4, <3>1 DEF OpenPmc
  <2>2. /\ pc = "setup" /\ pc' = "setup" /\ step' = step + 1 /\ opened' = step
        /\ UNCHANGED <<statics, place, result_fd, hpm_fd, dram_fd>>
    BY <1>4 DEF OpenPmc
  <2>3. /\ PlaceInv' /\ query' = query /\ limit' = limit
        /\ CallsBefore(experiment)' = CallsBefore(experiment) /\ run' = run
    BY <1>0, <2>2, SamePlace
  <2>4. s = opened + 1 /\ opened \in 0..4
    BY <1>0, <2>1, <2>2 DEF PmcInv
  <2>5. /\ pmcs' = [c \in 1..5 |-> pmcs'[c]] /\ pmcs'[s] = n
        /\ \A c \in (1..5) \ {s} : pmcs'[c] = pmcs[c]
    BY <1>0, <2>1 DEF PmcInv
  <2>11. PmcInv'
    BY <1>0, <2>1, <2>2, <2>4, <2>5 DEF PmcInv
  <2>6. /\ TableInv' /\ OpenFor(Counters[s])' = OpenFor(Counters[s]) \cup {n}
        /\ \A w : w # Counters[s] => OpenFor(w)' = OpenFor(w)
    <3>1. Counters[s] \in Purposes
      BY DEF Purposes
    <3>2. QED
      BY <1>0, <2>1, <2>3, <3>1, OpenedFacts
  <2>7. /\ HasResult /\ HasResult' /\ LeakedNow' = LeakedNow /\ HasHpm /\ HasHpm' /\ HasDram /\ HasDram'
        /\ Live = 1..opened /\ Live' = 1..s
    BY <2>1, <2>2 DEF HasResult, HasHpm, HasDram, Live, LeakedNow
  <2>8. OpenInv'
    <3>1. Counters[s] \notin {"std", "result", "mem", "hpm", "dram"}
      BY Names
    <3>2. ASSUME NEW c \in 1..5
          PROVE  OpenFor(Counters[c])' = IF c \in Live' THEN {pmcs'[c]} ELSE {}
      <4>1. CASE c = s
        <5>1. OpenFor(Counters[s]) = {} /\ s \in Live'
          BY <1>0, <2>4, <2>7 DEF OpenInv
        <5>2. OpenFor(Counters[s])' = {n}
          BY <2>6, <5>1
        <5>3. QED
          BY <2>5, <4>1, <5>1, <5>2
      <4>2. CASE c # s
        <5>1. Counters[c] # Counters[s]
          BY <4>2, Names
        <5>2. c \in Live' <=> c \in Live
          BY <2>4, <2>7, <4>2
        <5>3. OpenFor(Counters[c]) = IF c \in Live THEN {pmcs[c]} ELSE {}
          BY <1>0 DEF OpenInv
        <5>4. OpenFor(Counters[c])' = OpenFor(Counters[c]) /\ pmcs'[c] = pmcs[c]
          BY <2>5, <2>6, <4>2, <5>1
        <5>5. QED
          BY <5>2, <5>3, <5>4
      <4>3. QED
        BY <4>1, <4>2
    <3>3. QED
      BY <1>0, <2>2, <2>6, <2>7, <3>1, <3>2 DEF OpenInv
  <2>9. LeakInv'
    <3>1. OpenFor("mem")' = OpenFor("mem")
      BY <2>6, Names
    <3>2. QED
      BY <1>0, <2>2, <2>3, <2>7, <3>1 DEF LeakInv
  <2>10. QED
    BY <2>3, <2>11, <2>6, <2>8, <2>9
<1>5. CASE PmcRefused \/ PmcsReady \/ Pass \/ PassesOver
  <2>1. /\ UNCHANGED <<statics, place, files, result_fd, hpm_fd, dram_fd, opened>>
        /\ pc \in {"setup", "pass"} /\ pc' \in {"pass", "close", "teardown"}
        /\ pc' = "close" => pc = "pass" /\ query = "q2"
        /\ pc' = "teardown" => pc = "pass" /\ query # "q2"
    BY <1>5 DEF PmcRefused, PmcsReady, Pass, PassesOver
  <2>2. /\ PlaceInv' /\ query' = query /\ limit' = limit
        /\ CallsBefore(experiment)' = CallsBefore(experiment) /\ run' = run
    BY <1>0, <2>1, SamePlace
  <2>3. /\ step' \in Nat \ {0} /\ (pc' \in {"close", "teardown"} => step' = 1)
        /\ opened \in 0..5 /\ pmcs' = [c \in 1..5 |-> pmcs'[c]]
        /\ \A c \in 1..opened : pmcs'[c] = pmcs[c]
        /\ opened < 5 => pmcs'[opened+1] = -1
    <3>1. CASE PmcRefused
      <4>1. pmcs' = [pmcs EXCEPT ![step] = -1] /\ step = opened + 1 /\ step <= 5 /\ step' = 1
            /\ pc' = "pass"
        BY <1>0, <3>1 DEF PmcRefused, PmcInv
      <4>2. opened \in 0..4 /\ step \in 1..5 /\ pmcs = [c \in 1..5 |-> pmcs[c]]
        BY <1>0, <4>1 DEF PmcInv
      <4>3. pmcs' = [c \in 1..5 |-> pmcs'[c]] /\ pmcs'[step] = -1
            /\ \A c \in (1..5) \ {step} : pmcs'[c] = pmcs[c]
        BY <4>1, <4>2
      <4>4. \A c \in 1..opened : c \in (1..5) \ {step}
        BY <4>1, <4>2
      <4>5. QED
        BY <4>1, <4>2, <4>3, <4>4
    <3>2. CASE PmcsReady
      BY <1>0, <3>2 DEF PmcsReady, PmcInv
    <3>3. CASE Pass
      BY <1>0, <3>3 DEF Pass, PmcInv
    <3>4. CASE PassesOver
      BY <1>0, <3>4 DEF PassesOver, PmcInv
    <3>5. QED
      BY <1>5, <3>1, <3>2, <3>3, <3>4
  <2>4. PmcInv'
    BY <2>1, <2>2, <2>3 DEF PmcInv
  <2>5. /\ HasResult' <=> HasResult
        /\ HasHpm' <=> HasHpm
        /\ HasDram' <=> HasDram
        /\ Live = 1..opened /\ Live' = Live /\ LeakedNow' = LeakedNow
    BY <2>1, <2>2, <2>3 DEF HasResult, HasHpm, HasDram, Live, LeakedNow
  <2>6. TableInv' /\ OpenInv' /\ OpenFor("mem")' = OpenFor("mem")
    BY <1>0, <2>1, <2>2, <2>3, <2>5, OpenStays
  <2>7. LeakInv'
    BY <1>0, <2>1, <2>2, <2>5, <2>6 DEF LeakInv
  <2>8. QED
    BY <2>2, <2>4, <2>6, <2>7
<1>6. CASE ClosePmc
  <2>1. /\ pc = "teardown" /\ pc' = "teardown" /\ step <= 5 /\ step' = step + 1
        /\ pmcs[step] \in DOMAIN files /\ Closed(pmcs[step])
        /\ UNCHANGED <<statics, place, result_fd, hpm_fd, dram_fd, pmcs, opened>>
    BY <1>6 DEF ClosePmc
  <2>2. /\ PlaceInv' /\ query' = query /\ limit' = limit
        /\ CallsBefore(experiment)' = CallsBefore(experiment) /\ run' = run
    BY <1>0, <2>1, SamePlace
  <2>3. PICK s \in 1..5 : s = step /\ s <= opened
    <3>1. step \in 1..5 /\ opened \in 0..5 /\ step <= opened + 1
      BY <1>0, <2>1 DEF PmcInv
    <3>2. step # opened + 1
      <4>1. step = opened + 1 => pmcs[step] = -1
        BY <1>0, <2>1, <3>1 DEF PmcInv
      <4>2. -1 \notin DOMAIN files
        BY <1>0 DEF TableInv
      <4>3. QED
        BY <2>1, <4>1, <4>2
    <3>3. QED
      BY <3>1, <3>2
  <2>4. PmcInv'
    BY <1>0, <2>1, <2>2, <2>3 DEF PmcInv
  <2>5. /\ HasResult /\ HasResult' /\ LeakedNow' = LeakedNow
        /\ HasHpm' <=> HasHpm
        /\ HasDram' <=> HasDram
        /\ Live = s..opened /\ Live' = s+1..opened
    BY <2>1, <2>2, <2>3 DEF HasResult, HasHpm, HasDram, Live, LeakedNow
  <2>6. OpenFor(Counters[s]) = {pmcs[s]}
    BY <1>0, <2>3, <2>5 DEF OpenInv, PmcInv
  <2>7. /\ TableInv' /\ OpenFor(Counters[s])' = OpenFor(Counters[s]) \ {pmcs[s]}
        /\ \A w : w # Counters[s] => OpenFor(w)' = OpenFor(w)
    BY <1>0, <2>1, <2>2, <2>3, <2>6, ClosedFacts
  <2>8. OpenInv'
    <3>1. Counters[s] \notin {"std", "result", "mem", "hpm", "dram"}
      BY Names
    <3>2. ASSUME NEW c \in 1..5
          PROVE  OpenFor(Counters[c])' = IF c \in Live' THEN {pmcs'[c]} ELSE {}
      <4>1. CASE c = s
        <5>1. OpenFor(Counters[s])' = {}
          BY <2>6, <2>7
        <5>2. s \notin Live'
          BY <2>5
        <5>3. QED
          BY <4>1, <5>1, <5>2
      <4>2. CASE c # s
        <5>1. Counters[c] # Counters[s]
          BY <4>2, Names
        <5>2. c \in Live' <=> c \in Live
          BY <1>0, <2>3, <2>5, <4>2 DEF PmcInv
        <5>3. OpenFor(Counters[c]) = IF c \in Live THEN {pmcs[c]} ELSE {}
          BY <1>0 DEF OpenInv
        <5>4. OpenFor(Counters[c])' = OpenFor(Counters[c])
          BY <2>7, <5>1
        <5>5. QED
          BY <2>1, <5>2, <5>3, <5>4
      <4>3. QED
        BY <4>1, <4>2
    <3>3. QED
      BY <1>0, <2>1, <2>5, <2>7, <3>1, <3>2 DEF OpenInv
  <2>9. LeakInv'
    <3>1. OpenFor("mem")' = OpenFor("mem")
      BY <2>7, Names
    <3>2. QED
      BY <1>0, <2>1, <2>2, <2>5, <3>1 DEF LeakInv
  <2>10. QED
    BY <2>2, <2>4, <2>7, <2>8, <2>9
<1>7. CASE TeardownOver
  <2>1. /\ pc = "teardown" /\ pc' = AfterTeardown /\ (step <= 5 => pmcs[step] \notin DOMAIN files)
        /\ UNCHANGED <<statics, place, files, result_fd, hpm_fd, dram_fd, pmcs, opened>>
    BY <1>7 DEF TeardownOver
  <2>2. pc' = IF query = "q2" THEN "reset" ELSE "close"
    BY <2>1 DEF AfterTeardown
  <2>3. /\ PlaceInv' /\ query' = query /\ limit' = limit
        /\ CallsBefore(experiment)' = CallsBefore(experiment) /\ run' = run
    BY <1>0, <2>1, <2>2, SamePlace
  <2>4. Live = {}
    <3>1. step \in Nat \ {0} /\ opened \in 0..5 /\ Live = step..opened
      BY <1>0, <2>1 DEF PmcInv, Live
    <3>2. ~(step <= opened)
      <4> SUFFICES ASSUME step <= opened PROVE FALSE
        OBVIOUS
      <4>1. step \in 1..5 /\ step \in Live
        BY <3>1
      <4>2. OpenFor(Counters[step]) = {pmcs[step]}
        BY <1>0, <4>1 DEF OpenInv
      <4>3. pmcs[step] \in DOMAIN files
        BY <4>2 DEF OpenFor
      <4>4. QED
        BY <2>1, <4>1, <4>3
    <3>3. QED
      BY <3>1, <3>2
  <2>5. PmcInv'
    <3>1. opened < 5 => pmcs[opened+1] = -1
      BY <1>0, <2>1 DEF PmcInv
    <3>2. QED
      BY <1>0, <2>1, <2>2, <2>3, <3>1 DEF PmcInv
  <2>6. /\ HasResult' <=> HasResult
        /\ HasHpm' <=> HasHpm
        /\ HasDram' <=> HasDram
        /\ Live' = {} /\ LeakedNow' = LeakedNow
    BY <2>1, <2>2, <2>3 DEF HasResult, HasHpm, HasDram, Live, LeakedNow
  <2>7. TableInv' /\ OpenInv' /\ OpenFor("mem")' = OpenFor("mem")
    BY <1>0, <2>1, <2>3, <2>4, <2>6, OpenStays
  <2>8. LeakInv'
    BY <1>0, <2>1, <2>2, <2>3, <2>6, <2>7 DEF LeakInv
  <2>9. QED
    BY <2>3, <2>5, <2>7, <2>8
<1>8. CASE CloseHpm \/ CloseDram
  <2>1. PICK n \in {hpm_fd, dram_fd}, for \in {"hpm", "dram"} :
          /\ Closed(n)
          /\ \/ for = "hpm" /\ n = hpm_fd /\ pc = "close" /\ pc' = "close_dram"
             \/ /\ for = "dram" /\ n = dram_fd /\ pc = "close_dram"
                /\ pc' = IF query = "q2" THEN "teardown" ELSE "reset"
    <3>1. CASE CloseHpm
      BY <3>1 DEF CloseHpm
    <3>2. CASE CloseDram
      BY <3>2 DEF CloseDram
    <3>3. QED
      BY <1>8, <3>1, <3>2
  <2>2. UNCHANGED <<statics, place, result_fd, hpm_fd, dram_fd, pmcs, step, opened>>
    BY <1>8 DEF CloseHpm, CloseDram
  <2>3. /\ PlaceInv' /\ query' = query /\ limit' = limit
        /\ CallsBefore(experiment)' = CallsBefore(experiment) /\ run' = run
    BY <1>0, <2>1, <2>2, SamePlace
  <2>4. PmcInv'
    BY <1>0, <2>1, <2>2, <2>3 DEF PmcInv
  <2>5. /\ HasResult /\ HasResult' /\ LeakedNow' = LeakedNow /\ HasDram /\ ~HasHpm'
        /\ for = "hpm" => HasHpm /\ HasDram'
        /\ for = "dram" => ~HasHpm /\ ~HasDram'
        /\ Live' = Live
    <3>1. HasResult /\ HasResult' /\ LeakedNow' = LeakedNow /\ HasDram /\ ~HasHpm'
          /\ (for = "hpm" => HasHpm /\ HasDram') /\ (for = "dram" => ~HasHpm /\ ~HasDram')
      BY <2>1, <2>3 DEF HasResult, HasHpm, HasDram, LeakedNow
    <3>2. Live' = Live
      BY <1>0, <2>1, <2>2, <2>3 DEF Live, PmcInv
    <3>3. QED
      BY <3>1, <3>2
  <2>6. OpenFor(for) = {n}
    BY <1>0, <2>1, <2>5 DEF OpenInv
  <2>7. /\ TableInv' /\ OpenFor(for)' = OpenFor(for) \ {n}
        /\ \A w : w # for => OpenFor(w)' = OpenFor(w)
    BY <1>0, <2>1, <2>3, <2>6, ClosedFacts
  <2>8. OpenInv'
    <3>1. \A c \in 1..5 : Counters[c] # for
      BY Names
    <3>2. for # "mem" /\ for # "std" /\ for # "result"
      OBVIOUS
    <3>3. OpenFor("hpm")' = {} /\ OpenFor("dram")' = IF for = "hpm" THEN {dram_fd'} ELSE {}
      BY <1>0, <2>1, <2>2, <2>5, <2>6, <2>7 DEF OpenInv
    <3>4. QED
      BY <1>0, <2>1, <2>2, <2>5, <2>7, <3>1, <3>2, <3>3 DEF OpenInv
  <2>9. LeakInv'
    <3>1. OpenFor("mem")' = OpenFor("mem")
      BY <2>1, <2>7
    <3>2. QED
      BY <1>0, <2>1, <2>3, <2>5, <3>1 DEF LeakInv
  <2>10. QED
    BY <2>3, <2>4, <2>7, <2>8, <2>9
<1>9. CASE NextRun
  <2>1. /\ pc = "next" /\ pc' = "generate" /\ run' = run + 1
        /\ run < Len(command[experiment].stores)
        /\ UNCHANGED <<statics, files, result_fd, hpm_fd, dram_fd, pmcs, experiment, step, opened>>
    BY <1>9 DEF NextRun
  <2>2. UNCHANGED <<command, limit, experiment, query>>
    BY <2>1 DEF statics, query
  <2>3. PlaceInv'
    <3>1. Len(command[experiment].stores) \in Nat
      BY <1>0, <2>1, CallsFacts DEF PlaceInv
    <3>2. QED
      BY <1>0, <2>1, <2>2, <3>1 DEF PlaceInv
  <2>4. PmcInv'
    BY <1>0, <2>1, <2>2 DEF PmcInv
  <2>5. /\ HasResult' <=> HasResult
        /\ HasHpm' <=> HasHpm
        /\ HasDram' <=> HasDram
        /\ Live = {} /\ Live' = Live /\ LeakedNow = 3 /\ LeakedNow' = 0
    BY <2>1, <2>2 DEF HasResult, HasHpm, HasDram, Live, LeakedNow
  <2>6. TableInv' /\ OpenInv' /\ OpenFor("mem")' = OpenFor("mem")
    BY <1>0, <2>1, <2>2, <2>5, OpenStays
  <2>7. CallsBefore(experiment)' = CallsBefore(experiment)
    BY <2>2 DEF CallsBefore
  <2>8. LeakInv'
    BY <1>0, <1>15, <2>1, <2>5, <2>6, <2>7 DEF LeakInv
  <2>9. QED
    BY <2>3, <2>4, <2>6, <2>8
<1>10. CASE EndExperiment
  <2>1. /\ pc = "next" /\ run = Len(command[experiment].stores) /\ Closed(result_fd)
        /\ run' = 1 /\ experiment' = experiment + 1
        /\ pc' = IF experiment < Len(command) THEN "open" ELSE "done"
        /\ UNCHANGED <<statics, result_fd, hpm_fd, dram_fd, pmcs, step, opened>>
    BY <1>10 DEF EndExperiment
  <2>2. UNCHANGED <<command, limit>>
    BY <2>1 DEF statics
  <2>3. /\ experiment \in 1..Len(command) /\ Len(command) \in Nat
        /\ CallsBefore(experiment + 1) = CallsBefore(experiment) + run
        /\ CallsBefore(experiment) \in Nat /\ run \in Nat
    BY <1>0, <2>1, CallsFacts DEF PlaceInv
  <2>4. PlaceInv'
    <3>1. pc' = "open" => 1 \in 1..Len(command[experiment + 1].stores)
      <4>1. pc' = "open" => experiment + 1 \in 1..Len(command)
        BY <2>1, <2>3
      <4>2. \A e \in 1..Len(command) : Len(command[e].stores) \in Nat \ {0}
        BY <1>0, CallsFacts DEF PlaceInv
      <4>3. QED
        BY <4>1, <4>2
    <3>2. QED
      BY <1>0, <2>1, <2>2, <2>3, <3>1 DEF PlaceInv
  <2>5. PmcInv'
    BY <1>0, <2>1 DEF PmcInv
  <2>6. /\ HasResult /\ ~HasHpm /\ ~HasDram /\ Live = {} /\ LeakedNow = 3
        /\ ~HasResult' /\ ~HasHpm' /\ ~HasDram' /\ Live' = {} /\ LeakedNow' = 0
    BY <2>1 DEF HasResult, HasHpm, HasDram, Live, LeakedNow
  <2>7. OpenFor("result") = {result_fd}
    BY <1>0, <2>6 DEF OpenInv
  <2>8. /\ TableInv' /\ OpenFor("result")' = OpenFor("result") \ {result_fd}
        /\ \A w : w # "result" => OpenFor(w)' = OpenFor(w)
    BY <1>0, <2>1, <2>2, <2>7, ClosedFacts
  <2>9. OpenInv'
    <3>1. \A c \in 1..5 : Counters[c] # "result"
      BY Names
    <3>2. QED
      BY <1>0, <2>6, <2>7, <2>8, <3>1 DEF OpenInv
  <2>10. LeakInv'
    <3>1. CallsBefore(experiment)' = CallsBefore(experiment + 1)
      BY <2>1, <2>2 DEF CallsBefore
    <3>2. pc' = "done" => Calls' = CallsBefore(experiment + 1)
      <4>1. pc' = "done" => experiment + 1 = Len(command) + 1
        BY <2>1, <2>3
      <4>2. Calls' = Calls
        BY <2>2 DEF Calls, CallsBefore
      <4>3. QED
        BY <4>1, <4>2 DEF Calls
    <3>3. Cardinality(OpenFor("mem")') = 3 * CallsBefore(experiment + 1)
      BY <1>0, <2>1, <2>3, <2>6, <2>8, SMTT(30)
    <3>4. QED
      BY <2>1, <2>3, <2>6, <3>1, <3>2, <3>3 DEF LeakInv
  <2>11. QED
    BY <2>4, <2>5, <2>8, <2>9, <2>10
<1>11. CASE UNCHANGED vars
  <2>1. /\ UNCHANGED <<command, limit, experiment, run, pc, step, opened, pmcs, query>>
        /\ UNCHANGED <<files, result_fd, hpm_fd, dram_fd>>
    BY <1>11 DEF vars, statics, place, query
  <2>2. PlaceInv' /\ PmcInv'
    BY <1>0, <2>1 DEF PlaceInv, PmcInv
  <2>3. /\ HasResult' <=> HasResult
        /\ HasHpm' <=> HasHpm
        /\ HasDram' <=> HasDram
        /\ Live' = Live /\ LeakedNow' = LeakedNow
    BY <2>1 DEF HasResult, HasHpm, HasDram, Live, LeakedNow
  <2>4. TableInv' /\ OpenInv' /\ OpenFor("mem")' = OpenFor("mem")
    BY <1>0, <2>1, <2>3, OpenStays
  <2>5. CallsBefore(experiment)' = CallsBefore(experiment) /\ Calls' = Calls
    BY <2>1 DEF CallsBefore, Calls
  <2>6. QED
    BY <1>0, <2>1, <2>2, <2>3, <2>4, <2>5 DEF LeakInv
<1>12. CASE GenerateDb \/ ConfigureRelcache \/ ResetRelcache \/ OpenHpm \/ OpenDram
  BY <1>2, <1>3, <1>12
<1>13. CASE PmcRefused \/ PmcsReady \/ Pass \/ PassesOver \/ CloseHpm \/ CloseDram
  BY <1>5, <1>8, <1>13
<1>14. QED
  BY <1>1, <1>4, <1>6, <1>7, <1>9, <1>10, <1>11, <1>12, <1>13 DEF Next

-----------------------------------------------------------------------------
\* With room for the leaks of all runs and ten more, a counter finds a
\* descriptor free.
LEMMA RoomForCounter ==
  ASSUME FilesInv, pc = "setup", step <= 5, limit >= 10 + 3 * Calls
  PROVE  Free # {}
<1> SUFFICES ASSUME Free = {} PROVE FALSE
  OBVIOUS
<1>0. /\ PlaceInv /\ PmcInv /\ TableInv /\ OpenInv /\ limit \in Nat /\ opened \in 0..4
      /\ Cardinality(OpenFor("mem")) = 3 * (CallsBefore(experiment) + run - 1) + 2
  BY DEF FilesInv, PlaceInv, PmcInv, LeakInv, LeakedNow
<1>1. DOMAIN files = 0..limit-1
  BY <1>0 DEF Free, TableInv
<1> DEFINE M == OpenFor("mem")
           g == [i \in 1..10 |-> CASE i = 1 -> 0 [] i = 2 -> 1 [] i = 3 -> 2 [] i = 4 -> result_fd
                                   [] i = 5 -> hpm_fd [] i = 6 -> dram_fd
                                   [] OTHER -> pmcs[i-6]]
           X == {g[i] : i \in 1..10}
<1>2. IsFiniteSet(0..limit-1) /\ Cardinality(0..limit-1) = limit
  <2>1. limit \in Nat
    BY <1>0
  <2>2. QED
    BY ONLY <2>1, FS_Interval
<1>3. IsFiniteSet(M)
  BY <1>1, <1>2, FS_Subset DEF OpenFor
<1>4. ExistsSurjection(1..10, X) /\ IsFiniteSet(X) /\ Cardinality(X) <= 10
  <2>1. g \in Surjection(1..10, X)
    BY DEF Surjection
  <2> HIDE DEF g
  <2>2. ExistsSurjection(1..10, X)
    BY <2>1 DEF ExistsSurjection
  <2> HIDE DEF X
  <2>3. IsFiniteSet(X)
    BY <2>2, FS_NatSurjection
  <2>4. QED
    BY <2>2, <2>3, FS_SurjCardinalityBound
<1>5. DOMAIN files \subseteq M \cup X
  <2>1. \A c \in 1..4 : pmcs[c] \in X
    <3> TAKE c \in 1..4
    <3>1. c+6 \in 1..10 /\ g[c+6] = pmcs[c]
      OBVIOUS
    <3>2. QED
      BY <3>1
  <2>2. {0, 1, 2, result_fd, hpm_fd, dram_fd} \subseteq X
    <3>1. g[1] = 0 /\ g[2] = 1 /\ g[3] = 2 /\ g[4] = result_fd /\ g[5] = hpm_fd /\ g[6] = dram_fd
      OBVIOUS
    <3> HIDE DEF g
    <3>2. QED
      BY <3>1
  <2> HIDE DEF X
  <2>3. ASSUME NEW n \in DOMAIN files, n \notin M PROVE n \in X
    <3>1. n \in OpenFor(files[n])
      BY DEF OpenFor
    <3>2. files[n] \in Purposes \ {"mem"}
      BY <1>0, <2>3 DEF TableInv, OpenFor
    <3>3. CASE files[n] \in {"std", "result", "hpm", "dram"}
      <4>1. n \in Std \cup {result_fd, hpm_fd, dram_fd}
        BY <1>0, <3>1, <3>3 DEF OpenInv
      <4>2. QED
        BY <2>2, <4>1 DEF Std
    <3>4. CASE \E c \in 1..5 : files[n] = Counters[c]
      <4>1. PICK c \in 1..5 : files[n] = Counters[c]
        BY <3>4
      <4>2. c \in Live /\ n = pmcs[c]
        BY <1>0, <3>1, <4>1 DEF OpenInv
      <4>3. c \in 1..4
        BY <1>0, <4>2 DEF Live
      <4>4. QED
        BY <2>1, <4>2, <4>3
    <3>5. QED
      BY <3>2, <3>3, <3>4 DEF Purposes
  <2>4. QED
    BY <2>3
<1> HIDE DEF M, X
<1>6. /\ IsFiniteSet(M \cup X) /\ Cardinality(M \cup X) <= Cardinality(M) + Cardinality(X)
      /\ Cardinality(M) \in Nat /\ Cardinality(X) \in Nat
  <2>1. /\ IsFiniteSet(M \cup X)
        /\ Cardinality(M \cup X) = Cardinality(M) + Cardinality(X) - Cardinality(M \cap X)
    BY <1>3, <1>4, FS_Union
  <2>2. Cardinality(M) \in Nat /\ Cardinality(X) \in Nat /\ IsFiniteSet(M \cap X)
    BY <1>3, <1>4, FS_CardinalityType, FS_Intersection
  <2>3. Cardinality(M \cap X) \in Nat
    BY <2>2, FS_CardinalityType
  <2>4. QED
    BY <2>1, <2>2, <2>3
<1>7. limit <= Cardinality(M) + 10
  <2>1. Cardinality(DOMAIN files) <= Cardinality(M \cup X)
    BY <1>5, <1>6, FS_Subset
  <2>2. Cardinality(M \cup X) \in Nat
    BY <1>6, FS_CardinalityType
  <2>3. QED
    BY <1>0, <1>1, <1>2, <1>4, <1>6, <2>1, <2>2
<1>8. CallsBefore(experiment) + run <= Calls /\ CallsBefore(experiment) \in Nat
      /\ run \in Nat /\ Calls \in Nat
  <2>1. experiment \in 1..Len(command) /\ command \in Command
        /\ run \in 1..Len(command[experiment].stores)
    BY <1>0, CallsFacts DEF PlaceInv
  <2>2. QED
    BY <2>1, CallsFacts
<1>9. limit \in Nat /\ limit >= 10 + 3 * Calls
  BY <1>0
<1>10. Cardinality(M) = 3 * (CallsBefore(experiment) + run - 1) + 2
  BY <1>0 DEF M
<1>11. ASSUME NEW m \in Nat, NEW l \in Nat, NEW b \in Nat, NEW r \in Nat, NEW a \in Nat,
              l <= m + 10, m = 3 * (b + r - 1) + 2, b + r <= a, l >= 10 + 3 * a
       PROVE  FALSE
  BY <1>11
<1>12. Cardinality(M) \in Nat
  BY <1>6
<1>13. QED
  BY ONLY <1>7, <1>8, <1>9, <1>10, <1>11, <1>12

\* A pass reads the counters that are open.
LEMMA TrueCountsFacts ==
  /\ TrueCounts \in SUBSET (1..5)
  /\ FilesInv /\ pc = "pass" /\ opened = 5 => TrueCounts = 1..5
<1>1. TrueCounts \in SUBSET (1..5)
  BY DEF TrueCounts
<1>2. ASSUME FilesInv, pc = "pass", opened = 5 PROVE TrueCounts = 1..5
  <2>1. \A c \in 1..5 : OpenFor(Counters[c]) = {pmcs[c]}
    BY <1>2 DEF FilesInv, OpenInv, Live
  <2>2. \A c \in 1..5 : pmcs[c] \in DOMAIN files /\ files[pmcs[c]] = Counters[c]
    BY <2>1 DEF OpenFor
  <2>3. QED
    BY <2>2 DEF TrueCounts
<1>3. QED
  BY <1>1, <1>2

LEMMA NextLinesInv == FilesInv /\ LinesInv /\ [Next]_vars => LinesInv'
<1> SUFFICES ASSUME FilesInv, LinesInv, [Next]_vars PROVE LinesInv'
  OBVIOUS
<1>1. UNCHANGED <<command, limit>> /\ (refused => refused')
  <2>1. OpenResult \/ GenerateDb \/ ConfigureRelcache \/ OpenHpm \/ OpenDram \/ UNCHANGED vars
          => UNCHANGED <<command, limit>> /\ (refused => refused')
    BY DEF OpenResult, GenerateDb, ConfigureRelcache, OpenHpm, OpenDram, statics, vars
  <2>2. OpenPmc \/ PmcsReady \/ Pass \/ PassesOver
          => UNCHANGED <<command, limit>> /\ (refused => refused')
    BY DEF OpenPmc, PmcsReady, Pass, PassesOver, statics
  <2>6. PmcRefused => UNCHANGED <<command, limit>> /\ (refused => refused')
    <3>1. PmcRefused => UNCHANGED <<command, limit>>
      BY DEF PmcRefused, statics
    <3>2. PmcRefused => refused' = (refused \/ Free # {})
      BY DEF PmcRefused
    <3>3. PmcRefused => (refused => refused')
      BY <3>2, Zenon
    <3>4. QED
      BY <3>1, <3>3
  <2>3. ClosePmc \/ TeardownOver \/ CloseHpm \/ CloseDram
          => UNCHANGED <<command, limit>> /\ (refused => refused')
    BY DEF ClosePmc, TeardownOver, CloseHpm, CloseDram, statics
  <2>4. ResetRelcache \/ NextRun \/ EndExperiment
          => UNCHANGED <<command, limit>> /\ (refused => refused')
    BY DEF ResetRelcache, NextRun, EndExperiment, statics
  <2>5. QED
    BY <2>1, <2>2, <2>3, <2>4, <2>6 DEF Next
<1>2. Calls' = Calls
  BY <1>1 DEF Calls, CallsBefore
<1>3. ASSUME UNCHANGED lines, pc' # "pass" \/ opened' = 5 PROVE LinesInv'
  BY <1>1, <1>2, <1>3 DEF LinesInv
<1>4. CASE OpenResult \/ GenerateDb \/ ConfigureRelcache \/ OpenHpm \/ OpenDram
  BY <1>3, <1>4 DEF OpenResult, GenerateDb, ConfigureRelcache, OpenHpm, OpenDram, OpenMem
<1>5. CASE OpenPmc \/ PassesOver
  BY <1>3, <1>5 DEF OpenPmc, PassesOver
<1>6. CASE ClosePmc \/ TeardownOver \/ CloseHpm \/ CloseDram
  BY <1>3, <1>6 DEF ClosePmc, TeardownOver, AfterTeardown, CloseHpm, CloseDram
<1>7. CASE ResetRelcache \/ NextRun \/ EndExperiment
  BY <1>3, <1>7 DEF ResetRelcache, OpenMem, NextRun, EndExperiment
<1>8. CASE PmcsReady
  <2>1. opened' = 5 /\ UNCHANGED lines
    BY <1>8 DEF PmcsReady, FilesInv, PmcInv
  <2>2. QED
    BY <1>3, <2>1
<1>9. CASE PmcRefused
  <2>1. UNCHANGED lines /\ pc = "setup" /\ step <= 5 /\ (Free # {} => refused')
    BY <1>9 DEF PmcRefused
  <2>2. limit >= 10 + 3 * Calls => refused'
    BY <2>1, RoomForCounter
  <2>3. QED
    BY <1>1, <1>2, <2>1, <2>2 DEF LinesInv
<1>10. CASE Pass
  <2>1. lines' = Append(lines, TrueCounts) /\ pc = "pass" /\ opened' = opened /\ refused' = refused
    BY <1>10 DEF Pass
  <2>2. lines \in Seq(SUBSET (1..5))
    BY DEF LinesInv
  <2>3. lines' \in Seq(SUBSET (1..5))
    BY <2>1, <2>2, TrueCountsFacts
  <2>4. ASSUME ~refused, limit >= 10 + 3 * Calls
        PROVE  opened = 5 /\ \A n \in DOMAIN lines' : lines'[n] = 1..5
    <3>1. opened = 5 /\ \A n \in DOMAIN lines : lines[n] = 1..5
      BY <2>1, <2>4 DEF LinesInv
    <3>2. TrueCounts = 1..5
      BY <2>1, <3>1, TrueCountsFacts
    <3>3. QED
      BY <2>1, <2>2, <3>1, <3>2
  <2>5. QED
    BY <1>1, <1>2, <2>1, <2>3, <2>4 DEF LinesInv
<1>11. CASE UNCHANGED vars
  <2>1. UNCHANGED <<lines, pc, opened, refused>>
    BY <1>11 DEF vars
  <2>2. QED
    BY <1>1, <1>2, <2>1 DEF LinesInv
<1>12. QED
  BY <1>4, <1>5, <1>6, <1>7, <1>8, <1>9, <1>10, <1>11 DEF Next

LEMMA InitFilesInv == Init => FilesInv /\ LinesInv
<1> SUFFICES ASSUME Init PROVE FilesInv /\ LinesInv
  OBVIOUS
<1> USE DEF Init
<1>1. command \in Command /\ limit \in Nat /\ limit > 2
  BY FilesAssumption
<1>2. PlaceInv
  BY <1>1, CallsFacts DEF PlaceInv
<1>3. PmcInv
  BY DEF PmcInv
<1>4. TableInv
  BY <1>1 DEF TableInv, Purposes, Std
<1>5. OpenFor("std") = Std /\ \A w : w # "std" => OpenFor(w) = {}
  BY DEF OpenFor
<1>6. OpenInv
  <2>1. \A c \in 1..5 : Counters[c] # "std"
    BY Names
  <2>2. ~HasResult /\ ~HasHpm /\ ~HasDram /\ Live = {}
    BY DEF HasResult, HasHpm, HasDram, Live
  <2>3. QED
    BY <1>5, <2>1, <2>2 DEF OpenInv
<1>7. LeakInv
  <2>1. Cardinality(OpenFor("mem")) = 0
    BY <1>5, FS_EmptySet
  <2>2. CallsBefore(1) = 0 /\ LeakedNow = 0
    BY <1>1, CallsFacts DEF LeakedNow
  <2>3. QED
    BY <2>1, <2>2 DEF LeakInv
<1>8. LinesInv
  BY DEF LinesInv
<1>9. QED
  BY <1>2, <1>3, <1>4, <1>6, <1>7, <1>8 DEF FilesInv

\* At every step the process has open what the code has opened and not closed,
\* and three descriptors of /dev/mem for each run it has made.
THEOREM DescriptorsInvariant == Spec => [](FilesInv /\ LinesInv)
<1>1. FilesInv /\ LinesInv /\ [Next]_vars => (FilesInv /\ LinesInv)'
  BY NextFilesInv, NextLinesInv
<1>2. QED
  BY InitFilesInv, <1>1, PTL DEF Spec

\* Between two runs nothing is left open but the result file and three
\* descriptors of /dev/mem for every run made, and nothing else was closed:
\* for every sequence of experiments, every limit and whichever counters are
\* refused (setup_pmcs, teardown_pmcs).
THEOREM RunsLeakOnlyMem == Spec => []OnlyMemLeaks
<1>1. FilesInv => OnlyMemLeaks
  <2> SUFFICES ASSUME FilesInv, pc = "next"
               PROVE  /\ OpenFor("std") = Std /\ OpenFor("result") = {result_fd}
                      /\ DOMAIN files = Std \cup {result_fd} \cup OpenFor("mem")
                      /\ Cardinality(OpenFor("mem")) = 3 * (CallsBefore(experiment) + run)
    BY DEF OnlyMemLeaks
  <2>1. PlaceInv /\ TableInv /\ OpenInv /\ LeakInv
    BY DEF FilesInv
  <2>2. HasResult /\ ~HasHpm /\ ~HasDram /\ Live = {} /\ LeakedNow = 3
    BY DEF HasResult, HasHpm, HasDram, Live, LeakedNow
  <2>3. /\ OpenFor("std") = Std /\ OpenFor("result") = {result_fd}
        /\ OpenFor("hpm") = {} /\ OpenFor("dram") = {}
        /\ \A c \in 1..5 : OpenFor(Counters[c]) = {}
    BY <2>1, <2>2 DEF OpenInv
  <2>4. \A n \in DOMAIN files : n \in OpenFor(files[n]) /\ files[n] \in Purposes
    BY <2>1 DEF OpenFor, TableInv
  <2>5. \A n \in DOMAIN files : files[n] \in {"std", "result", "mem"}
    BY <2>3, <2>4 DEF Purposes
  <2>6. \A w : OpenFor(w) \subseteq DOMAIN files
    BY DEF OpenFor
  <2>7. DOMAIN files = Std \cup {result_fd} \cup OpenFor("mem")
    BY <2>3, <2>4, <2>5, <2>6
  <2>8. CallsBefore(experiment) \in Nat /\ run \in Nat
    <3>1. experiment \in 1..Len(command) /\ command \in Command /\ run \in Nat
      BY <2>1, CallsFacts DEF PlaceInv
    <3>2. QED
      BY <3>1, CallsFacts
  <2>9. Cardinality(OpenFor("mem")) = 3 * (CallsBefore(experiment) + run - 1) + 3
    BY <2>1, <2>2 DEF LeakInv
  <2>10. QED
    BY <2>3, <2>7, <2>8, <2>9
<1>2. QED
  BY DescriptorsInvariant, <1>1, PTL

\* If no counter is refused while descriptors are free, and the process may
\* have ten more than it leaks, every line it prints is of true counts.
THEOREM LinesTrue == Spec => []LinesAreTrue
<1>1. LinesInv => LinesAreTrue
  BY DEF LinesInv, LinesAreTrue
<1>2. QED
  BY DescriptorsInvariant, <1>1, PTL

=============================================================================
