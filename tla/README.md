# A verification project for relational-memory

The repository holds the host programs of a *relational memory engine* (RME): hardware that packs chosen
columns of a row table into a window of physical addresses, so that the CPU can scan columns of a row store.
The hardware itself is a bitstream; the programs configure it through a page of registers, populate tables in
DRAM, scan the tables three ways (row store, column store, engine window), and time the scans.

Three generations of programs are kept side by side:

* `src/vldb2023/query.c` - one program that runs one query (average, selection, join) on one store;
* `src/EDBT` - a benchmark driver that runs many queries in one process;
* `src/RISE` - one small program per step (generate, configure, query, reset), chained by bash scripts.

All of them talk to the same device through the same protocol, and all of their hard behaviour comes from it:
who has written the DRAM, the registers and the `reset` toggle, what the engine packed under earlier registers,
and what the CPU caches still hold of an earlier run.

## Inventory

| part | state | operations | interacts with | hard behaviour | correct when |
|---|---|---|---|---|---|
| device (external) | DRAM, registers, `reset`, packed rows, CPU copies | register store, reset toggle, window load, pack ahead, eviction | every program | packing ahead; copies that outlive a reset or a process | - |
| vldb query process | command line, `config`, `plim`, `db`, `db2` | populate, configure, reset, scan, reset at exit | device | killed between any two stores; JOIN drives the device twice | a scan reads only this process's columns of this process's table |
| vldb average (q1) | accumulator | loop per store and width | tables | accumulators narrower than the sum | the quotient is the column's average |
| vldb selection (q2) | row pointer, result buffer | three loops | tables | pointer and counter advance separately | the rows shown are those of the WHERE clause |
| vldb join (q3) | hash table, result buffer | build over S, probe over R | hash table, tables | registers written in one order, packed words taken apart in another; output pointer | the pairs shown are those of the SQL join |
| vldb hash table | chains of items | create, insert, search, free | join | colliding and repeated keys | last value inserted is found, nothing else |
| vldb command line | `struct arguments` | parse | main | token arithmetic at the end of an option | - |
| EDBT driver | store type, turn, sample | run_query, three experiments | device, generator, queries | the engine is reset *after* a query only; caches flushed by reading a megabyte | each run reads its own table, from a cold cache |
| EDBT engine port | registers | configure_relcache, reset_relcache | device | no reset in configure | registers as asked for |
| EDBT generator | DRAM | generate_db | device | written uncached, read cached | the table of this run |
| EDBT queries q1-q4 | arrays, groups | passes: cold, hot, row, column | device, counters | one buffer and one counter for all passes; q2 and q3 address the window by table offsets; q4 compares masked and unmasked keys | each pass computes the query |
| EDBT configuration | three structs | defaults, options, config file | driver | file read after the options; two widths of a column (`COLUMN_WIDTH`, `r_col`) | - |
| EDBT counters | five file descriptors in static variables | setup, read, teardown | kernel | a counter refused half way; stale numbers behind it; descriptors that leak until none is left | what was opened is closed, nothing else is; lines have true counts |
| RISE tools | registers, DRAM | generate, configure, reset, each a process | device | a tool that fails; two builds of db_generate; no cache is ever flushed | a scan reads its script's columns of its script's table |
| RISE scripts | sample, size | run the tools in order | tools | they go on when a tool fails | one failed reset does no harm |
| RISE queries q1-q4 | groups | passes: cold, hot, row, column | device, counters | packed and table offsets side by side; fixed room for groups | each pass computes the query |
| RISE join (q5) | its own hash table | insert, search | device | engine reset before the second table is populated; lists that lose nodes; keys that wrap | the pairs shown are those of the SQL join |
| printing, plots, data, notebooks, bitstreams | - | - | - | - | not modelled |

`PROJECT.json` lists the same parts with the modules that model them, and every hazard with its line.

## Modules

```
RelMemory            the device: DRAM, registers, engine, CPU copies of the window
  VldbQuery          query.c as a sequence of processes on it      + VldbQueryProofs
  EdbtBench          EDBT's driver as a sequence of processes on it     + EdbtBenchProofs
  RiseTools          RISE's tools, its scripts and q5 on it, tools failing   + RiseToolsProofs
EdbtFiles            the descriptors of an EDBT process and its counters   + EdbtFilesProofs
Loops                what a loop that adds up, lists or appends leaves
  StoreLayout        tables, row and column layouts, the packed window, byte addresses
    Selection        SELECT ... WHERE, row by row (abstract)
    ScanState        what the three queries share: store, query, scanned memory, loop counter
      AvgScan        avg_row, avg_col, avg_rme and their accumulators   + ScanProofs
      ResultState    what the other two have besides: row pointer, result buffer, output
        SelectScan   slct_row, slct_col, slct_rme                  implements Selection   + ScanProofs
        JoinScan     join_row, join_col, join_rme                  uses BucketTable   + ScanProofs, HashTableProofs
  EdbtQuery          q1-q4 of EDBT and RISE, pass by pass, on any table   + EdbtQueryProofs
RiseHash             the hash table of q5 as a value
  RiseJoin           what q5 computes, loop by loop                + RiseJoinProofs
BucketTable          the chained hash table as a value
  Dictionary         the last value put under a key (abstract)
  HashTable          the table over its life                       implements Dictionary  + HashTableProofs
```

`MC*.tla` give each of them small tables and command lines, `MC*.cfg` the runs.

### The device, RelMemory

The engine is not in the repository, so its model is external: it states only what the programs rely on.
`query.c` configures, resets, then reads; `demo.c` configures, reads, then resets. Both work only on an engine
that packs a row *when it is asked for it* (or, once reading has begun, ahead of that) under the registers'
values of that moment, and keeps it until `reset` changes value. The window is mapped cached, so a load may be
answered by a CPU copy, which survives the process that made it. Whether a reset also drops those copies is
hardware the repository does not show; the variable `coherent`, chosen in the initial state and never changed,
stands for both kinds of machine, and every check and proof covers both. A packed row is the pair of the
registers that selected it and the DRAM row it was cut from; the bytes are in StoreLayout. `warm` is a history
variable: the rows whose CPU copy is younger than the last toggle.

### The query process, VldbQuery

One process after the other executes `main`. Each register store of `db_config` and `db2_config` is one step,
in the order of the source (`Stores`), with the value the source computes (`RegValue`: 16-bit distances for
average and selection, distances from the row start for the join; both are StoreLayout's). `db_reset` is two steps, `frame_offset` and
the toggle. `PopulateRow` writes a row in the layout of the store; `ScanWindow` and `ScanDram` read one row: the row
of the loop counter, except in `join_rme`'s loop over R, which reads row 0 in every turn (`RowRead`).
`Kill` ends the process between any two steps and leaves the device as it is. Values are not modelled here: a
DRAM row is named by the table that wrote it and by its layout.

### The scans

SelectScan, AvgScan and JoinScan run one query on real bytes: `db_populate_row` and `db_populate_col` write
`100*i + j` truncated to the column's width, and every loop reads the address the C code computes. The window
is made from the offset registers: `Distances` is what `db_config` stores for an average or a selection, how far each column is behind the one
before, `FromStart` what it stores for a join, how far each is behind the start of the row, all of them unsigned shorts. What the engine does with them is not in
the repository. `TakenFrom` is the reading under which the registers of a selection (and of EDBT and RISE) make sense: it adds them up. `Window` has
the columns in the order of their registers, which is how `slct_rme` takes a packed row apart; for a join that is the selected
column (`SEL_COL`) and then the join column (`JOIN_COL`). With absolute offsets the engine can end up behind the column that is meant, and behind the
last row of the table: `Dram` gives that memory any value of `Garbage`.

One turn of a loop is one step. Only `<` is evaluated by the code (`O_LT`), so the
other operators let every row pass, in the model as in the code. `slct_row` and `slct_rme` move their row pointer only past a row they kept;
`Reached(r)` says that no row before r was rejected, and is what their results can be relied on for. `100*i + j` is computed in an `int` (query.c:347, 367);
`ValuesFit` keeps the tables to those where it does not overflow. The three programs share their variables (ScanState, ResultState) and
name their own initial states and actions, so that ScanProofs can extend all of them.

`SumMod` of AvgScan stands for 2^32 and `CAPACITY` of BucketTable for 64K; both are parameters so that the runs can reach
an overflow and a collision. `Garbage` is what uninitialised memory may hold when `join_rme` reads it.

### The EDBT driver, EdbtBench

The `run_query` calls of `row_size_exp`, `col_size_exp`, `projectivity_exp` and `run_single_query`, in one
process after the other, each killed at any step. `FlushBefore` and `FlushAfter` are `flush_cache`,
`ZeroTable`, `FillColumn` are `generate_db`, `ConfigReg` one store of `configure_relcache`, `ResetFrame`, `ResetToggle`
`reset_relcache`. The query functions appear as the passes they all make (cold and hot over the window, row or
column over DRAM); `Configured` chooses the passes by `store_type` as the `if`s of the query functions do. The
row and column passes read DRAM through a cached mapping, so DRAM rows have CPU copies too (`dcache`). That
`flush_cache` evicts both kinds of copies is an assumption (`FlushCache`), and stronger than the code: it writes and reads one megabyte of its own, and
run_query calls it a "temporary naive flush" (demo.c:76). `DramIsCurrent` and `ColdIsCold` rest on it, `WindowIsCurrent` does too on a
machine whose reset does not reach the caches; what they check is that the flushes are where they have to be. Each command has the `r_col` of its config file: the
table is made of columns of that width, while the registers have the row size of `COLUMN_WIDTH` (parse_config.c:116) or of the experiment. `dirty` is a history
variable: a process was killed while the engine held rows, and nobody has reset it since.

### The EDBT process and its descriptors, EdbtFiles

`open_fd` is called by the generator, by `configure_relcache`, twice by the query and by `reset_relcache`; only the query's
two are ever closed, so a run leaks three. The kernel hands out the lowest free number, which is what makes the counters
interesting: `setup_pmcs` stops at the first counter it cannot open (`PmcRefused`) and leaves the static variables
behind it as they were, `teardown_pmcs` closes what the variables say, in order, up to the first `close` that fails
(`ClosePmc`, `TeardownOver`). The variables behind a refused counter hold numbers of earlier runs, and by now those numbers
may belong to a mapping or to the result file: they are safe only because the refused counter's own -1 stops the
teardown first. A counter may be refused for the kernel's own reasons at any time, also with descriptors left
(`refused`); `/dev/mem` only when none is left, and then `open_fd` ends the process (`exit`). q2 closes its descriptors before
the teardown, the other queries after it. `TrueCounts` is what `pmcs_get_value` can read of a group: all that is behind the
leader if the leader is there.

### The RISE tools and scripts, RiseTools

A script is a sequence of command lines, each run as a process: `db_generate`, `db_config_relcache`, a query,
`db_reset_relcache` with frame offset 0 and again with 1, sample after sample. `Stages` says what each tool does and in which
order; a stage is `ZeroTable`, `FillTable`, `ConfigReg` (one register store), `ResetFrame`, `ResetToggle`, or a pass (`ScanWindow`, `ScanDram`).
q5 is one tool with thirteen stages: populate, configure, reset, hash from both, reset to the second frame,
*then* populate there, probe from both. No script sets `-e`, so when a tool fails (`Fail`: it is killed, or cannot open `/dev/mem`,
which exits with status 0) the next one is run; an interrupted script is one all of whose remaining tools fail.
`linux` stands for the two builds of `db_generate`: where the compiler predefines `linux`, as gcc does outside its ISO modes,
the table goes to the heap and DRAM is not written. Nothing in RISE flushes a cache, and DRAM is written uncached and
read cached, so DRAM copies (`dcache`) survive from table to table; `dfresh` is the history variable that says which were made
since.

### The queries, EdbtQuery

`run_query1` to `run_query4` of EDBT, and the programs of RISE they come from, compute the same thing several times: over a row store from the window (cold, then
hot) and from DRAM, over a column store from DRAM. `pass` and `i` say which turn of which outer loop comes next,
and `Project`, `Select`, `SelectSum` and `Group` are the four loop bodies. `Address` is where a pass looks for the column of its
j-th offset, and it differs from pass to pass and from query to query, as the source does. `array`, `sum`, `group_array`,
`group_array_capacity` and `averages` are what the passes share and `StartPass` resets. The inner loop of q4, which
reads only what no pass writes, is the function `GroupAverage`. The window here is the one the engine is asked
for, fresh and complete; that a run really finds it so is the question of EdbtBench and RiseTools. RISE's queries differ in
few places, each a definition of its own: `Packed` (q2 and q3 step by the packed columns), `AtRowStart` (the first column is taken for the
table's first), `grouped` (`!= k`), `FirstCapacity` (an array of `MAX_GROUPS` that never grows), and the column pass of q1, which reads every other
column whatever is enabled. Words are `sizeof(T)` long, as the
queries step, and a read behind the window gives one of `Garbage`.

### The RISE join, RiseHash and RiseJoin

RiseHash is `q5_header.h`: one item in each slot, a list for those that collide, whose `linkedlist_insert` puts the new
node behind the last but one. RiseJoin runs the four loops of q5 on tables made as q5 makes them: keys
1, 1+n, 1+2n, .. in S and 1, 5, 9, .. in R, wrapping with `T`. One step is one turn of a loop. `plim` is read
after it has been unmapped (q5.c:211, 261); the model takes it to be mapped again at the same address, as `plim2` is.

## Runs

| run | question | bounds |
|---|---|---|
| `query` | does every scan of a sequence of query processes, killed anywhere, read its own columns of its own table? | 3 command lines (a selection whose columns descend, so a distance wraps; a JOIN over different columns; a column-store query that leaves another layout), tables of 1-2 rows, 2 column registers |
| `select` | does each turn of the loop do what SELECT does with that row; are the rows shown those of the WHERE clause, as far as the row pointer gets? | 1 or 4 rows, widths 1-8 in pairs over all three stores, one or two options in either order or on one column, bounds below, at, between and above the values, narrow columns whose values wrap |
| `average` | is the result the average when the sum fits? | 1-4 rows, all widths, sums on both sides of `SumMod` |
| `join` | is S hashed by its join column; are the pairs those of the join? | 1 or 4 rows a side, all choices of four columns, colliding keys, one 101-column table whose keys repeat those of another column; over the window S is asked about where its selected column is column 0 |
| `join_window` | are the pairs those of the join over the window, where S is hashed right: violated | two 3-column tables of 2 rows |
| `hash_table` | is the chained table a dictionary? | 2 buckets, 3 keys, chains of 3 |
| `edbt_bench` | does each run of the driver read its own table, cold when it says so; what does each sample measure? | 4 commands of three kinds, columns of 4 and 8 bytes, 2 rows, up to 2 columns, two samples |
| `edbt_files` | is everything but `/dev/mem` closed; does running out of descriptors leave the engine empty; are the lines true; does the process complete? | 3 commands of two or three runs, limits of 3 to 20 descriptors, any counter refused at any run |
| `edbt_query` | does each pass have the answer for the rows it has seen; do q4's groups fit their array? | EDBT and RISE; all 2-row, 3-column tables over a few values for q1-q3, all 3-row, 4-column ones for q4; offsets that are and are not the first columns; `T` wraps at 8, a key is kept modulo 4, room for one group at first |
| `rise_tools` | does a scan read its script's columns of its script's table, although tools fail; what can be stale? | rounds of two scripts and q5, in any order; tables of 1 row and 1 or 2 columns, two failures, both builds, both kinds of machine |
| `rise_join` | what does the hash table keep; is it ever full; do both passes give the join? | up to 10 rows, 4 words a row, 1-3 columns enabled, 3 buckets, `T` wraps at 16 |
| `rise_join_loses` | is every key found that was inserted without an error: violated | as above |

The bounds are enough because nothing in the code depends on how many rows, buckets or columns there are beyond
what the bounds still tell apart: a scan's row is independent of the others but for the shared pointer, which
two rows already expose and four let pass, reject, pass again; a device is confused by one earlier process, and
the runs have any number of them. Two columns are the fewest for which register order, widths and distances
matter. What holds of every size is proved below.

The `StaleOnlyFromOldCopies` property of `query` is the strongest that the source allows: a wrong row
is only ever one that the CPU copied before the last reset and kept. `ReadsAreCurrent` says the same of a machine
whose reset drops them: nothing wrong at all.

`WindowIsCurrent` of EdbtBench says `~dirty`: a process killed between its first window read and
`reset_relcache` leaves rows that the next run takes for its own, because `configure_relcache` does not reset.
`query.c` is free of this, as its theorem shows, because it resets before it reads.

`PassComputesTheQuery` names, in `Reaches`, where the addresses of a pass are those of its columns: the window passes
of EDBT's q2 and q3 (the defaults are not among them) and the column pass of q1 for the first columns of the table, the row pass of q4 when its first offset
is 0, the column pass of q4 for groups of one row (the others are summed from row-store addresses, q4.c:245), and
q4 altogether where no two qualifying keys agree in the byte that `already_grouped` compares and sums fit a `T`. RISE's passes over DRAM need the first
offset to be 0, and its q1's column pass is left out. Everything else the run covers without a condition.

`edbt_files` varies the limit over every value from too few descriptors for the result file to more than two experiments leak, so the
process runs out at each of its calls. With the default limit of 1024 it completes 339 runs and no more; `row_size_exp` makes ten
a sample, so 34 samples are too many.
`ExitLeavesEngineEmpty` is why this does no harm to the next process.

`rise_tools` has one row a table: no tool treats a row by what another holds, and registers, columns, frames, copies and failures
are what its properties relate. Its third failure would be one more of a kind the first two already combine: `WindowIsCurrent` needs
one of a script's two resets, so one failure is harmless and two are not. q5 comes without a reset of its own, so a script
after it is entitled to its columns only from its second sample on (`failures` is 2 when q5 ends).

`rise_join` scales `CAPACITY` to 3 so that a bucket gets up to four keys, and `T` to 16 values so that keys repeat. In the
code keys are 1 + n*i, and with `CAPACITY` 50000 the fourth key of a bucket comes at row 150000/gcd(n, 50000).

### What the violated runs show

* `join_window`: the probe loop of `join_rme` never moves its row pointer and takes the value to print from the
  unwritten result buffer. The joins of the run have column 0 of S selected, so that their first half is right (`HashesS`).
* `rise_join_loses`: `linkedlist_insert` walks to the last node *but one* and hangs the new node there
  (q5_header.h:59-66). A bucket keeps the key of its slot, the first that collided and the last; `HashKeepsThree` says so
  exactly, of the table hashed from the window and, if the first column is enabled, of the other one, and `AnswersTheJoin` that up to three keys in a bucket the join is right.

### Other disagreements

Met while modelling. The passing properties state what the code does instead, or name the condition under which it does what it should.

* The loop of `join_rme` over S takes the first word of a packed row for the key and swaps if `s_sel < s_join`
  (query.c:1326, 1332), as if the window were in the order of the table's columns. The registers put the selected column first
  (query.c:302-305), and both hold the distance from the start of the row, where those of a selection, of EDBT (db_relcache.c:20) and of RISE's
  join (q5.c:133) hold the distance from the column before. RUNNING.md's example (`1 1 0 2`, for `store: ROW|COL|RME`) has `s_sel` 1 and `s_join` 0: nothing is
  swapped and S.c1 is hashed for the key, however the engine reads the offsets. `HashesS` says where the loop is
  right: where the selected column is column 0, so that the offset of the other is at once its distance, and the pair is swapped.
* `continue` in `slct_row` and `slct_rme` skips the advance of the row pointer (query.c:836, 1078): after one rejected row they
  look at that row for the rest of the loop, where RUNNING.md promises the rows of the WHERE clause. With 4-byte columns the values rise and nothing is lost under `<`
  (`WideConditionsLoseNoRow`), which is why the documented example works; in a one-byte column the values wrap, and under `c0 < 150` the fourth
  row (44) is hidden behind the third (200). `ShowsTheRowsReached` says which rows are printed in all cases; the `select` run has these.
* RUNNING.md's first example sums 32768 four-byte values to 5.4e10 in a `uint32_t` (query.c:625) and prints 65487 for 1638352: `AverageUnlessItWraps` is about the others.
* `row_size_exp` and `col_size_exp` set `store_type = 'b'` (experiments.c:19, 60), a value that neither `generate_db` nor any query knows, so the run
  commented "row store" (experiments.c:34) measures nothing; and `run_single_query` never sets the store type back (demo.c:65), so from the second of `-N` samples on
  both runs are column-store runs. `SamplesMeasureTheirStores` says what every sample measures.
* EDBT's q2 and q3 look for a column in the window at the offset it has in the table (q2.c:53, q3.c:50). With
  the default offsets `0,8` (exp_config.c:29) that is the next row's first column; only `0,4` agree (`Prefix`). RISE's do not have this.
* q4 compares groups by the low byte of their key and averages by the whole key (q4.c:73, 79), and adds up a column-store group from row-store
  addresses (q4.c:245): both are in the model, and `Groupable` and `Reaches` keep `PassComputesTheQuery` to the tables where they do no harm.
* RISE's q1 reads columns 0, 2 and 4 in its column pass whatever is enabled (q1.c:121-123), and its q4 writes a twelfth
  group behind its array (q4.c:109). The getopt strings of q1-q4 lack `S`, which `Stages` shows: such a command runs no pass.
* `handle_collision` leaves the `next` of a first list node uninitialised (q5_header.h:140); it is NULL only because nothing has been freed
  by then.
* A config file with `r_col` other than 4 makes the table's stride differ from the registers' row size: the row size is computed from
  `COLUMN_WIDTH` (parse_config.c:116), the columns have `r_col` bytes. The model does the same, and nothing says which one is meant.
  `parse_config_file` is called after `parse_args`, so the file overrides the options.

## Liveness and fairness

EdbtFiles states liveness: `Completes`, under `WF_vars(Next)`. The process is the only actor of that module, no call it
makes blocks (`open`, `close`, `perf_event_open` return, loops over rows are counted), and the operating system runs it
again as long as it can go on; nothing is assumed about which counters the kernel grants. The other modules assume no fairness: their loops are
bounded by a counter, nothing in them waits for another actor, and a process may be killed at any step, so that
nothing need ever happen. The scans, the join and EdbtFiles stop (their runs have `CHECK_DEADLOCK FALSE`); the
device modules never do.

## Proofs

VldbQueryProofs proves, for every set of command lines, every number of rows and columns and both kinds of
machine, that VldbQuery's `IInv` is inductive, and from it `TypeOK`, `EngineIsCurrent`, `ReadsAreCurrent`, `DramIsCurrent` and
`StaleOnlyFromOldCopies`. `EngineIsCurrent` alone is not inductive: a step of the engine may pack a row under the
registers of that moment, so one must know they are right, hence `RegsInv` (as far as the stores have come during
`config`, entirely after the reset's first half); the row is cut from DRAM, hence `DramInv`; a load may be
answered by a CPU copy, hence `WarmInv`; and `SideInv` ties the program counter to the command line. The proof has one
lemma per conjunct group (`NextTypeOK`, `NextSideInv`, `NextDramInv`, `NextRegsInv`, `NextScanInv`), each with one step per action. The lemmas
about `Stores` say that every significant register is stored and no other; that register values are naturals is the
assumption `VldbAssumption`, which TLC evaluates.

HashTableProofs proves `TypeOK` of the hash table and that it implements Dictionary for every number of buckets
and every set of keys and values, from the lemma that a search after an insertion finds the new value under its key
and is unchanged under every other (`SearchAfterInsert`).

ScanProofs proves of the three queries of `query.c`: `AverageUnlessItWraps`, SelectScan's `ShowsTheRowsReached` and
`RowsFit` and that it implements Selection (`ImplementsSelection`), JoinScan's `HashesS`, `ShowsTheJoin` and `PairsFit`, for every table, query, limit, width of the
accumulator and number of buckets. It has three layers.

* What the recursive functions of Loops are: that they exist and go on by one summand (`SumSteps`, `ConcatSteps`), that a sum of
  naturals grows, has room between two columns and is at least the sum over any choice of columns without repetition
  (`SumGrows`, `SumGap`, `SumPicked`), and that `InOrder` lists a set, ascending and without gaps (`InOrderFacts`).
* Where a field is: no two fields of a table share an address, neither by rows nor by columns nor in the window (`RowsApart`, `ColumnsApart`), so that a memory
  has at the address of a field that field's value (`RowStore`, `ColumnStore`, `WindowStore`). This is what `avg_col` relies on when it
  multiplies a row offset by the number of rows, and `slct_rme` when it cumulates the widths of the options.
* The programs. `AvgInv` says that the accumulator has the sum of the rows so far if it can hold that of all. `SelInv` says that the result has the
  rows among those so far that match and are reached, in order, and, over the row store and the window, where the row pointer is (`Walk`): at the loop's own row as long as
  no row was rejected, and from then on at the first one that was. So every list of options is covered, and what is lost is said exactly.
  `WideConditionsLoseNoRow` follows from it: values of four- and eight-byte columns rise with the row (`Rises`), so behind a row that a `<`
  over them rejects there is none that it lets pass, and `ShowsTheWhereRows` holds of such scans, and of all scans of the column store. `JoinInv` says which rows of S the hash table
  has (`Hashed`, from HashTableProofs' `SearchAfterInsert`; the keys of a column of four bytes are all different; over the window if `s_sel` is 0, from
  the registers `FromStart`) and that the result buffer has the
  join of S and the rows of R so far, two words a match (`Kept`).

Assumed are the types of the arguments (`AvgAssumption`, `SelectAssumption`, `JoinAssumption`): widths are 1, 2, 4 or 8, there are at most 255 columns and 11 options, columns are columns of the table, the
values `100*i + j` fit an `int`, an average is of one row at least, and the columns of a join have four bytes.

EdbtQueryProofs proves `GroupsFit`, that q4 writes no group behind its array and none twice, for every table, offsets, `k` and
initial room. The capacity has to stay positive for the doubling to make room, which `GroupsInv` adds. It also proves
`PassComputesTheQuery`, for both programs, every number of rows and columns and every width of `T`, on the tables and offsets of `Reaches`
(which leave out q2 and q3 of EDBT in the window with their default offsets, and q4 on tables whose keys agree in their low byte):

- `Reads`: under `Reaches`, each operand of a loop is the column it stands for. The window and the two layouts of DRAM are
  decided by the arithmetic of cells (`WindowField`, `RowField`, `ColField`, from `Cell`).
- `AverageIsRight`: what the inner loop of q4 finds below the first row of a group is the rest of the group, so its sum, which does not
  wrap where sums fit a `T`, and its count are those of the whole group (`TotalIs`, `CountIs`).
- One turn appends to the array, adds to the sum and appends to the averages what the reference has for its row
  (`ScanTurn`, `GroupTurn`, `AnswerSteps`). For q4 that takes an invariant of its own, `GroupsKnown`: the groups are the keys of the
  qualifying rows above, so that a key without a group is a first row.
- A new pass starts with nothing, whatever the one before it left (`HeadAnswers`); this is where a missing reset would show.

Assumed is `RunAssumption`: columns are columns of the table, its values fit a `T`, and at least as many columns are enabled as the query reads
(the defaults of exp_config.c do; with fewer given on the command line the query reads offsets that are not there), and `RiseRuns`: RISE's
queries exit when given a column store, and its q4 has room for `MAX_GROUPS` groups and checks nothing.

RiseJoinProofs proves `NeverFull`, `HashKeepsThree` and `AnswersTheJoin` for every `CAPACITY`, every number of rows and columns and every width of `T`.
The first two need each other: a row that met a full table would not be in its bucket. `NeverFull` follows from the count being
the cardinality of the slots in use (`IsTable`, `Insertion`), `HashKeepsThree` from what one insertion does to its bucket
(`InsertKeeps`, `ListGrows`), and that the loops hash row i and no other from the arithmetic of cells (`Cell`, `WindowCell`, `DramCell`).
`AnswersTheJoin` rests on `HashKeepsThree` for both tables: under `Hashable` a bucket has at most three rows, so the item in its slot and the
two in its list are all of them, and a search finds the row with the key whenever there is one (`Finds`, with `FourApart`); so each turn
of a probing loop appends the row of the join and nothing else (`ProbeAppends`), and the results are `Joined` of the rows so far (`AnswerInv`). The assumption
`RiseJoinAssumption` says that at least one column is enabled, that columns lie within a row, and that they
ascend, which q5 checks (q5.c:68); with a column enabled twice, a cell of DRAM would be written twice.

EdbtFilesProofs proves `ExitLeavesEngineEmpty`, `OnlyMemLeaks` and `LinesAreTrue` for every sequence of experiments and every limit. For
the first the invariant is that the number of the window's descriptor, once the query has closed it, stays free until `reset_relcache`
opens one, since nothing in between opens any (`HpmInv`), and that rows are in the engine only between a pass and that reset
(`HoldsInv`). For the other two it is the whole descriptor table: `OpenInv` says for each purpose which variable's descriptor is open and
from which step to which; `PmcInv`, that the counters open are the first `opened` and that the one behind them, if any is missing,
is -1, which is what stops the teardown before it reaches the numbers of earlier runs; `LeakInv` counts the descriptors
of `/dev/mem`. `LinesAreTrue` needs besides that a counter finds a descriptor when there are ten more than leak (`RoomForCounter`,
which counts the descriptors of all purposes). Assumed (`FilesAssumption`): a command runs at least one experiment, an experiment at least
one run, and the three standard files fit the limit.

EdbtBenchProofs proves `WindowIsCurrent`, `DramIsCurrent`, `ColdIsCold` and `SamplesMeasureTheirStores` for every set of commands,
every number of rows, columns and samples, and both kinds of machine. `IInv` is their conjunction, strengthened: the engine is empty from
the toggle to the first window read unless a process died in between (`CleanInv`), the CPU has no copies from the
flush to the first read (`FlushInv`), table and registers are written as far as the process has come (`TableInv`, `RegsInv`), what the
engine and the caches hold during a pass is of this run (`PassInv`), and what `measured` and `store_type` are at each place of a sample
(`SampleInv`). `EdbtAssumption` says that a command
has a store, `r` or `c`, at least one sample and a positive `r_col`, and that no more columns are enabled than there are registers. That `flush_cache` empties the CPU cache is in the model of it.

RiseToolsProofs proves `WindowIsCurrent` and `StaleOnlyFromOldCopies` for every set of scripts and every number of rows and failures. A tool
relies on what earlier tools of its round left, so the invariant says at each line and stage what DRAM (`TableInv`), the registers
(`RegsInv`), the engine (`EmptyInv`) and the caches (`CopiesInv`, `PassInv`) hold if the tools in `done` ended well. `EmptyInv` is
where two resets matter: one toggle empties the engine, so `failures` below 2 is enough. `RiseAssumption` says what the scripts of
sources_bash have in common: a round prepares in frame 0, at most one table and one configuration, runs one query and resets twice
(`IsRound`); q5 is run by itself.

An induction over the naturals is done in these modules by a set: a lemma (`Induct`) says that a set of naturals with 0 and with the successor of each
member is all of them, which follows from every non-empty set having a least element. So recursive functions of one natural number, as
`CallsBefore` of EdbtFiles or `Sum` and `Concat` of Loops, can be reasoned about.

Only model-checked: `Completes`, because it is liveness. The two violated properties have their counterexample.

## Not modelled

Command-line strings, timing and printing; `mmap`; two programs
on the board at once (they are run one after the other, and nothing in the code locks the device);
the non-ARM builds, which have no engine; the queries of EDBT over columns other than four bytes wide and the values the generators
draw; q1's printing of arrays it has freed (q1.c:105); what the performance counters count. Of RISE, `q2_new`:
it indexes its conditions by the row it checks (q2_new.c:211), beyond their array from the row that has none on, and its `continue` leaves the
inner loop only, so a rejected row is copied all the same: what it computes is not defined by its source. `db_relcache_dump` prints the
window and changes nothing. Plots, data, notebooks and bitstreams.

## Plan

1. (done) RelMemory, StoreLayout, VldbQuery with its proofs, the three scans, the hash table with its proofs, EdbtBench.
2. (done) The queries' passes of EDBT and RISE, EdbtQuery.
3. (done) The tools, scripts and q5 of RISE on the device, RiseTools; its join, RiseHash and RiseJoin.
4. (done) Descriptors and counters with failing calls, and liveness: EdbtFiles.
5. (done) Proofs of EdbtBench, RiseTools and EdbtFiles.
6. (done) Proofs of Loops and StoreLayout, and with them of AvgScan, SelectScan and JoinScan.
7. (done) `AnswersTheJoin` from `HashKeepsThree`.
8. (done) EdbtQuery's passes row by row, with the lemmas about Loops.
9. Left, proofs: that register values are naturals, from `SumNat` instead of `VldbAssumption`.

A run is added for a new question only.
