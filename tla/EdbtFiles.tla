------------------------------ MODULE EdbtFiles ------------------------------
(***************************************************************************)
(* The descriptors of an EDBT process: /dev/mem opened by open_fd (demo.c) *)
(* in every part of run_query, the result file, and the five counters of   *)
(* utils/performance_counters.c, whose numbers are kept in static          *)
(* variables.  Any counter may be refused by the kernel.  /dev/mem is      *)
(* refused only when the process has as many descriptors as it may.        *)
(***************************************************************************)
EXTENDS Integers, Sequences, FiniteSets

CONSTANTS
  Command,   \* sequences of experiments: [query, stores of its run_query calls]
  Limits     \* how many descriptors a process may have (1024 by default)

\* An experiment that makes no run would only open and close its result file.
ASSUME FilesAssumption ==
  /\ Limits \subseteq Nat /\ \A n \in Limits : n > 2
  /\ Command \subseteq Seq([query : STRING, stores : Seq(STRING)])
  /\ \A c \in Command : Len(c) > 0 /\ \A e \in 1..Len(c) : Len(c[e].stores) > 0

VARIABLES
  command, limit,
  files,            \* the open descriptors: number -> what it was opened for
  result_fd, hpm_fd, dram_fd,
  pmcs,             \* the static variables, l1_references_fd to inst_retired_fd
  experiment, run,  \* the experiment and its run_query call
  pc, step,         \* step: the counter, or the pass, that is next
  opened,           \* counters the query opened
  holds,            \* does the engine hold rows nobody has reset?
  refused,          \* history: was a counter refused with descriptors to spare?
  lines             \* history: for each line of the result file, its true counts

statics == <<command, limit>>
place == <<experiment, run>>
vars == <<statics, files, result_fd, hpm_fd, dram_fd, pmcs, place, pc, step, opened,
          holds, refused, lines>>

-----------------------------------------------------------------------------
Counters == <<"l1_references", "l1_refills", "l2_references", "l2_refills", "inst_retired">>
Std == 0..2

Free == (0..limit-1) \ DOMAIN files

\* The kernel hands out the lowest number that is free.
Opened(n, for) ==
  /\ n \in Free /\ \A m \in Free : n <= m
  /\ files' = [m \in DOMAIN files \cup {n} |-> IF m = n THEN for ELSE files[m]]

Closed(n) == files' = [m \in DOMAIN files \ {n} |-> files[m]]

query == command[experiment].query
store == command[experiment].stores[run]

\* A row store is scanned cold, hot and in DRAM, a column store once.
Passes == CASE store = "r" -> 3 [] store = "c" -> 1 [] OTHER -> 0

Init ==
  /\ command \in Command /\ limit \in Limits
  /\ files = [n \in Std |-> "std"]
  /\ result_fd = -1 /\ hpm_fd = -1 /\ dram_fd = -1
  /\ pmcs = [c \in 1..5 |-> 0]
  /\ experiment = 1 /\ run = 1
  /\ pc = "open" /\ step = 0 /\ opened = 0
  /\ holds = FALSE /\ refused = FALSE /\ lines = <<>>

\* open_file: the result file of an experiment.
OpenResult ==
  /\ pc = "open"
  /\ \/ \E n \in Free : Opened(n, "result") /\ result_fd' = n /\ pc' = "generate"
     \/ Free = {} /\ pc' = "failed" /\ UNCHANGED <<files, result_fd>>
  /\ UNCHANGED <<statics, hpm_fd, dram_fd, pmcs, place, step, opened, holds, refused, lines>>

\* open_fd: with no descriptor left the process exits, with status 0.
OpenMem(n, for, to) ==
  \/ n \in Free /\ Opened(n, for) /\ pc' = to
  \/ Free = {} /\ pc' = "exit" /\ UNCHANGED files

\* generate_db and configure_relcache never close theirs.
GenerateDb ==
  /\ pc = "generate"
  /\ \E n \in Free \cup {-1} : OpenMem(n, "mem", "configure")
  /\ UNCHANGED <<statics, result_fd, hpm_fd, dram_fd, pmcs, place, step, opened, holds,
                 refused, lines>>

ConfigureRelcache ==
  /\ pc = "configure"
  /\ \E n \in Free \cup {-1} : OpenMem(n, "mem", "hpm")
  /\ UNCHANGED <<statics, result_fd, hpm_fd, dram_fd, pmcs, place, step, opened, holds,
                 refused, lines>>

\* The query function.
OpenHpm ==
  /\ pc = "hpm"
  /\ \E n \in Free \cup {-1} :
       /\ OpenMem(n, "hpm", "dram")
       /\ hpm_fd' = n
  /\ UNCHANGED <<statics, result_fd, dram_fd, pmcs, place, step, opened, holds, refused, lines>>

OpenDram ==
  /\ pc = "dram"
  /\ \E n \in Free \cup {-1} :
       /\ OpenMem(n, "dram", "setup")
       /\ dram_fd' = n
  /\ step' = 1 /\ opened' = 0
  /\ UNCHANGED <<statics, result_fd, hpm_fd, pmcs, place, holds, refused, lines>>

\* setup_pmcs: the counters one after the other, as far as they can be had.
\* The query goes on whatever setup_pmcs returns.
OpenPmc ==
  /\ pc = "setup" /\ step <= 5
  /\ \E n \in Free :
       /\ Opened(n, Counters[step])
       /\ pmcs' = [pmcs EXCEPT ![step] = n]
  /\ step' = step + 1 /\ opened' = step
  /\ UNCHANGED <<statics, result_fd, hpm_fd, dram_fd, place, pc, holds, refused, lines>>

PmcRefused ==
  /\ pc = "setup" /\ step <= 5
  /\ pmcs' = [pmcs EXCEPT ![step] = -1]
  /\ refused' = (refused \/ Free # {})
  /\ pc' = "pass" /\ step' = 1
  /\ UNCHANGED <<statics, files, result_fd, hpm_fd, dram_fd, place, opened, holds, lines>>

PmcsReady ==
  /\ pc = "setup" /\ step > 5
  /\ pc' = "pass" /\ step' = 1
  /\ UNCHANGED <<statics, files, result_fd, hpm_fd, dram_fd, pmcs, place, opened, holds,
                 refused, lines>>

\* pmcs_get_value reads the group behind l1_references_fd: a short read, or
\* none, leaves the other values what the stack held.
TrueCounts ==
  IF pmcs[1] \in DOMAIN files /\ files[pmcs[1]] = Counters[1]
    THEN {c \in 1..5 : \E n \in DOMAIN files : files[n] = Counters[c]}
    ELSE {}

\* A pass over the table, and its line.
Pass ==
  /\ pc = "pass" /\ step <= Passes
  /\ lines' = Append(lines, TrueCounts)
  /\ holds' = (holds \/ store = "r")
  /\ step' = step + 1
  /\ UNCHANGED <<statics, files, result_fd, hpm_fd, dram_fd, pmcs, place, pc, opened, refused>>

\* q2 closes its mappings' descriptors first, the other queries last.
PassesOver ==
  /\ pc = "pass" /\ step > Passes
  /\ pc' = IF query = "q2" THEN "close" ELSE "teardown"
  /\ step' = 1
  /\ UNCHANGED <<statics, files, result_fd, hpm_fd, dram_fd, pmcs, place, opened, holds,
                 refused, lines>>

AfterTeardown == IF query = "q2" THEN "reset" ELSE "close"

\* Broken variant of ClosePmc: teardown_pmcs goes on when a close fails.
Mut_ClosePmc ==
  /\ pc = "teardown" /\ step <= 5
  /\ Closed(pmcs[step])
  /\ step' = step + 1
  /\ UNCHANGED <<statics, result_fd, hpm_fd, dram_fd, pmcs, place, pc, opened, holds,
                 refused, lines>>

\* teardown_pmcs: close what the static variables name, up to the first
\* close that fails.
ClosePmc ==
  /\ pc = "teardown" /\ step <= 5
  /\ pmcs[step] \in DOMAIN files
  /\ Closed(pmcs[step])
  /\ step' = step + 1
  /\ UNCHANGED <<statics, result_fd, hpm_fd, dram_fd, pmcs, place, pc, opened, holds,
                 refused, lines>>

\* Broken variant of TeardownOver: a query whose counters cannot be torn down
\* returns at once.
Mut_TeardownOver ==
  /\ pc = "teardown" /\ (step <= 5 => pmcs[step] \notin DOMAIN files)
  /\ pc' = (IF step > 5 THEN AfterTeardown ELSE "reset") /\ step' = 0
  /\ UNCHANGED <<statics, files, result_fd, hpm_fd, dram_fd, pmcs, place, opened, holds,
                 refused, lines>>

TeardownOver ==
  /\ pc = "teardown" /\ (step <= 5 => pmcs[step] \notin DOMAIN files)
  /\ pc' = AfterTeardown /\ step' = 0
  /\ UNCHANGED <<statics, files, result_fd, hpm_fd, dram_fd, pmcs, place, opened, holds,
                 refused, lines>>

CloseHpm ==
  /\ pc = "close"
  /\ Closed(hpm_fd)
  /\ pc' = "close_dram"
  /\ UNCHANGED <<statics, result_fd, hpm_fd, dram_fd, pmcs, place, step, opened, holds,
                 refused, lines>>

\* Broken variant of CloseDram: dram_fd is left open.
Mut_CloseDram ==
  /\ pc = "close_dram"
  /\ pc' = IF query = "q2" THEN "teardown" ELSE "reset"
  /\ UNCHANGED <<statics, files, result_fd, hpm_fd, dram_fd, pmcs, place, step, opened, holds,
                 refused, lines>>

CloseDram ==
  /\ pc = "close_dram"
  /\ Closed(dram_fd)
  /\ pc' = IF query = "q2" THEN "teardown" ELSE "reset"
  /\ UNCHANGED <<statics, result_fd, hpm_fd, dram_fd, pmcs, place, step, opened, holds,
                 refused, lines>>

\* reset_relcache does not close its descriptor either.
ResetRelcache ==
  /\ pc = "reset"
  /\ \E n \in Free \cup {-1} : OpenMem(n, "mem", "next")
  /\ holds' = (holds /\ pc' = "exit")
  /\ UNCHANGED <<statics, result_fd, hpm_fd, dram_fd, pmcs, place, step, opened, refused, lines>>

NextRun ==
  /\ pc = "next" /\ run < Len(command[experiment].stores)
  /\ run' = run + 1
  /\ pc' = "generate"
  /\ UNCHANGED <<statics, files, result_fd, hpm_fd, dram_fd, pmcs, experiment, step, opened,
                 holds, refused, lines>>

\* fclose; main takes the next option, or ends.
EndExperiment ==
  /\ pc = "next" /\ run = Len(command[experiment].stores)
  /\ Closed(result_fd)
  /\ run' = 1 /\ experiment' = experiment + 1
  /\ pc' = IF experiment < Len(command) THEN "open" ELSE "done"
  /\ UNCHANGED <<statics, result_fd, hpm_fd, dram_fd, pmcs, step, opened, holds, refused, lines>>

Next ==
  \/ OpenResult \/ GenerateDb \/ ConfigureRelcache \/ OpenHpm \/ OpenDram
  \/ OpenPmc \/ PmcRefused \/ PmcsReady \/ Pass \/ PassesOver
  \/ ClosePmc \/ TeardownOver \/ CloseHpm \/ CloseDram
  \/ ResetRelcache \/ NextRun \/ EndExperiment

Spec == Init /\ [][Next]_vars

\* The process is alone and nothing it calls blocks for ever: it is scheduled
\* again as long as it can go on.
FairSpec == Spec /\ WF_vars(Next)

-----------------------------------------------------------------------------
OpenFor(what) == {n \in DOMAIN files : files[n] = what}

\* The run_query calls of the experiments before e.
CallsBefore(e) ==
  LET calls[n \in 0..Len(command)] ==
        IF n = 0 THEN 0 ELSE calls[n-1] + Len(command[n].stores)
  IN  calls[e-1]

Calls == CallsBefore(Len(command) + 1)

\* Between two runs the process has its standard files and its result file
\* and leaks three descriptors of /dev/mem for every run it has made: none of
\* the query's own is left, whichever counters were refused, and none of the
\* others was closed with them although the static variables behind the
\* counter that was refused still name descriptors of earlier runs, taken by
\* others since (setup_pmcs, teardown_pmcs).
OnlyMemLeaks ==
  pc = "next" =>
    /\ OpenFor("std") = Std /\ OpenFor("result") = {result_fd}
    /\ DOMAIN files = Std \cup {result_fd} \cup OpenFor("mem")
    /\ Cardinality(OpenFor("mem")) = 3 * (CallsBefore(experiment) + run)

\* A process that runs out of descriptors never does so between a scan and
\* the reset behind it: open_fd's exit leaves no rows in the engine, because
\* a query returns the two descriptors that reset_relcache needs one of.
ExitLeavesEngineEmpty == pc = "exit" => ~holds

\* As long as no counter is refused and descriptors suffice, every line of the
\* result file has true values of all five counters.
LinesAreTrue ==
  ~refused /\ limit >= 10 + 3 * Calls => \A n \in DOMAIN lines : lines[n] = 1..5

\* With room for the leaks of all its runs but the last, and for that one, a
\* process completes its experiments whatever counters it is refused.
Completes == limit >= 5 + 3 * Calls ~> pc = "done"

=============================================================================
