------------------------------ MODULE EdbtQuery ------------------------------
(***************************************************************************)
(* What the queries q1 .. q4 compute: those of EDBT/queries (run_query1    *)
(* .. run_query4) and the programs of RISE/sources_c they come from.  They *)
(* make the same passes: over a row store two over the window, cold and    *)
(* hot, and one over DRAM; over a column store one over DRAM, which RISE's *)
(* q1 makes over the row store.  One step is one turn of a pass's outer    *)
(* loop.  Memory is in words of sizeof(T): all columns are that wide, and  *)
(* offsets are columns, not bytes.  RISE's queries copy every word to the  *)
(* same `data`; here array has what went through it.                       *)
(***************************************************************************)
EXTENDS Loops, FiniteSets

CONSTANTS
  Run,          \* [program: "EDBT" or "RISE", query, offsets, k, store, table]
  Garbage,      \* words that may lie behind the packed columns
  TRange,       \* T wraps at this value: 2^32 in the code
  KeyRange,     \* q4 keeps a group's key modulo this: 256 in the code
  GroupCapacity, \* groups EDBT's q4 has room for at first: 16 in the code
  MAX_GROUPS     \* groups RISE's q4 has room for: 11 in the code

ASSUME EdbtQueryAssumption ==
  /\ TRange \in Nat \ {0} /\ KeyRange \in Nat \ {0}
  /\ GroupCapacity \in Nat \ {0} /\ MAX_GROUPS \in Nat \ {0}

\* A run enables as many columns as its query takes; its table has a T in each
\* column of each row.
ASSUME RunAssumption ==
  \A r \in Run :
    LET rows == r.table.rows
        cols == r.table.num_columns
        used == CASE r.query = "q4" -> 3 [] r.query \in {"q2", "q3"} -> 2 [] OTHER -> 1
    IN  /\ r.program \in {"EDBT", "RISE"} /\ r.store \in {"r", "c"}
        /\ r.query \in {"q1", "q2", "q3", "q4"} /\ r.k \in Nat
        /\ rows \in Nat /\ cols \in Nat \ {0}
        /\ r.offsets \in Seq(0..cols-1) /\ Len(r.offsets) >= used
        /\ r.table.value \in [0..rows-1 -> [0..cols-1 -> 0..TRange-1]]

\* RISE's queries exit at once when they are given a column store, and a
\* twelfth group q4 writes behind its array, which may break anything.
ASSUME RiseRuns ==
  \A r \in Run : r.program = "RISE" => r.store = "r" /\ r.table.rows <= MAX_GROUPS

VARIABLES
  run,         \* what is being run, and on which table
  beyond,      \* the word behind the packed columns
  pass, i,     \* the pass and its row
  array,       \* cold_array, hot_array, row_array or col_array, as far as filled
  sum,         \* q3's cold, hot, row or col
  group_array, group_array_capacity, averages,   \* q4's groups
  results      \* the results of the passes that are over

pass_state == <<array, sum, group_array, group_array_capacity, averages>>
vars == <<run, beyond, pass, i, pass_state, results>>

-----------------------------------------------------------------------------
rise      == run.program = "RISE"
query     == run.query
k         == run.k
row_count == run.table.rows
columns   == run.table.num_columns
enabled   == Len(run.offsets)
off(j)    == run.offsets[j+1]

\* generate_db: the row store has its rows one after the other, the column
\* store its columns.
dram ==
  [a \in 0..row_count*columns-1 |->
     IF run.store = "r" THEN run.table.value[a \div columns][a % columns]
                        ELSE run.table.value[a % row_count][a \div row_count]]

\* The window under configure_relcache: the enabled columns, back to back.
plim ==
  [a \in 0..row_count*enabled-1 |->
     run.table.value[a \div enabled][off(a % enabled)]]

Word(a) ==
  LET memory == IF pass \in {"cold", "hot"} THEN plim ELSE dram
  IN  IF a \in DOMAIN memory THEN memory[a] ELSE beyond

\* Where the query finds the column of its j-th offset in row r.  EDBT's q2
\* and q3 look for it in the window at the offset it has in the table.
Packed(j) == IF query \in {"q2", "q3"} /\ ~rise THEN off(j) ELSE j

\* In DRAM EDBT's q4 and RISE's q2 .. q4 take the first one for column 0.
AtRowStart(j) == j = 0 /\ (query = "q4" \/ (rise /\ query # "q1"))

\* The column pass of RISE's q1 takes every other column, whatever is enabled.
Address(r, j) ==
  CASE pass \in {"cold", "hot"} -> r*enabled + Packed(j)
    [] pass = "row" -> r*columns + (IF AtRowStart(j) THEN 0 ELSE off(j))
    [] pass = "col" -> r + row_count * (IF rise THEN 2*j ELSE IF query = "q1" THEN j ELSE off(j))

Field(r, j) == Word(Address(r, j))

\* The other rows of a group: in a column store their values are fetched from
\* where a row store has its first column.
Summand(r) == IF pass = "col" THEN Word(r*columns) ELSE Field(r, 0)

-----------------------------------------------------------------------------
\* Broken variant of StartPass: data_count and the groups are not reset.
Mut_StartPass ==
  /\ i' = 0
  /\ UNCHANGED pass_state

FirstCapacity == IF rise THEN MAX_GROUPS ELSE GroupCapacity

\* The head of each pass.
StartPass ==
  /\ i' = 0 /\ array' = <<>> /\ sum' = 0
  /\ group_array' = <<>> /\ group_array_capacity' = FirstCapacity /\ averages' = <<>>

Init ==
  /\ run \in Run
  /\ beyond \in Garbage
  /\ pass = IF run.store = "r" THEN "cold" ELSE "col"
  /\ i = 0 /\ array = <<>> /\ sum = 0
  /\ group_array = <<>> /\ group_array_capacity = FirstCapacity /\ averages = <<>>
  /\ results = [p \in {} |-> <<>>]

\* q1 copies the enabled columns, and in RISE's column pass three.
Project ==
  /\ query = "q1"
  /\ array' = array \o [n \in 1..(IF rise /\ pass = "col" THEN 3 ELSE enabled) |-> Field(i, n-1)]
  /\ UNCHANGED <<sum, group_array, group_array_capacity, averages>>

\* q2 copies the first of them where the second exceeds k.
Select ==
  /\ query = "q2"
  /\ array' = IF Field(i, 1) > k THEN Append(array, Field(i, 0)) ELSE array
  /\ UNCHANGED <<sum, group_array, group_array_capacity, averages>>

\* q3 sums the second where the first is below k, and in EDBT copies it too.
SelectSum ==
  /\ query = "q3"
  /\ IF Field(i, 0) < k
       THEN /\ array' = IF rise THEN array ELSE Append(array, Field(i, 1))
            /\ sum' = (sum + Field(i, 1)) % TRange
       ELSE UNCHANGED <<array, sum>>
  /\ UNCHANGED <<group_array, group_array_capacity, averages>>

already_grouped(check) == \E n \in DOMAIN group_array : group_array[n] = check

\* Broken variant of Room: the array grows one group late.
Mut_Room == IF Len(group_array) > group_array_capacity THEN 2*group_array_capacity
                                                       ELSE group_array_capacity

\* EDBT's array doubles when it is full; RISE's never grows.
Room == IF Len(group_array) >= group_array_capacity /\ ~rise
          THEN 2*group_array_capacity ELSE group_array_capacity

\* q4's condition: RISE's groups the rows that are not k.
grouped(value) == IF rise THEN value # k ELSE value > k

\* The rows below row r with its key, as the inner loop finds them.
Later(r) == {j \in r+1..row_count-1 : grouped(Field(j, 2)) /\ Field(j, 1) = Field(r, 1)}

GroupAverage(r) ==
  LET total[j \in r..row_count-1] ==
        IF j = r THEN Field(r, 0)
        ELSE IF j \in Later(r) THEN (total[j-1] + Summand(j)) % TRange ELSE total[j-1]
      count[j \in r..row_count-1] ==
        IF j = r THEN 1 ELSE count[j-1] + (IF j \in Later(r) THEN 1 ELSE 0)
  IN  total[row_count-1] \div count[row_count-1]

\* q4 opens a group for a row whose third column qualifies and whose key, cut
\* to its low byte, has none, and averages the rows of the same full key.
Group ==
  /\ query = "q4"
  /\ LET key == Field(i, 1) % KeyRange
     IN  IF grouped(Field(i, 2)) /\ ~already_grouped(key)
           THEN /\ group_array_capacity' = Room
                /\ group_array' = Append(group_array, key)
                /\ averages' = Append(averages, GroupAverage(i))
           ELSE UNCHANGED <<group_array, group_array_capacity, averages>>
  /\ UNCHANGED <<array, sum>>

Row ==
  /\ pass # "end" /\ i < row_count
  /\ Project \/ Select \/ SelectSum \/ Group
  /\ i' = i + 1
  /\ UNCHANGED <<run, beyond, pass, results>>

\* What a pass leaves: the array it filled, q3's sum, q4's averages.
Result == [array |-> array, sum |-> sum, averages |-> averages]

EndPass ==
  /\ pass # "end" /\ i = row_count
  /\ results' = [p \in DOMAIN results \cup {pass} |->
                   IF p = pass THEN Result ELSE results[p]]
  /\ pass' = CASE pass = "cold" -> "hot" [] pass = "hot" -> "row"
             [] pass = "row" /\ rise /\ query = "q1" -> "col" [] OTHER -> "end"
  /\ StartPass
  /\ UNCHANGED <<run, beyond>>

Next == Row \/ EndPass

Spec == Init /\ [][Next]_vars

-----------------------------------------------------------------------------
\* The queries on the table itself: V(r, j) is the column of the j-th offset.
V(r, j) == run.table.value[r][off(j)]

Qualifies(r) ==
  CASE query = "q1" -> TRUE
    [] query = "q2" -> V(r, 1) > k
    [] query = "q3" -> V(r, 0) < k
    [] query = "q4" -> IF rise THEN V(r, 2) # k ELSE V(r, 2) > k

\* The group of row r, the sum of its first column, and whether r is its first.
Members(r) == {q \in 0..row_count-1 : Qualifies(q) /\ V(q, 1) = V(r, 1)}

Total(r) == Sum([m \in 1..row_count |-> IF m-1 \in Members(r) THEN V(m-1, 0) ELSE 0], row_count)

First(r) == Qualifies(r) /\ \A q \in 0..r-1 : Qualifies(q) => V(q, 1) # V(r, 1)

\* What a row adds to the answer: words to the array, a number to q3's sum, an
\* average to q4's.
Shown(r) ==
  IF ~Qualifies(r) THEN <<>>
  ELSE CASE query = "q1" -> [n \in 1..enabled |-> V(r, n-1)]
         [] query = "q2" -> <<V(r, 0)>>
         [] query = "q3" -> IF rise THEN <<>> ELSE <<V(r, 1)>>
         [] query = "q4" -> <<>>

Added(r) == IF query = "q3" /\ Qualifies(r) THEN V(r, 1) ELSE 0

Averaged(r) ==
  IF query = "q4" /\ First(r) THEN <<Total(r) \div Cardinality(Members(r))>> ELSE <<>>

\* What the query has to show for the first n rows.
Answer(n) ==
  [array    |-> Concat([m \in 1..row_count |-> Shown(m-1)], n),
   sum      |-> Sum([m \in 1..row_count |-> Added(m-1)], n) % TRange,
   averages |-> Concat([m \in 1..row_count |-> Averaged(m-1)], n)]

\* The enabled columns are the first ones of the table.
Prefix == \A j \in 0..enabled-1 : off(j) = j

\* The part of a row's key that q4 keeps of its group.
LowByte(r) == V(r, 1) % KeyRange

\* The grouping of q4 is that of a GROUP BY: no two of its keys agree in the
\* part that is kept, and the sums fit in a T.
Groupable ==
  \A r \in 0..row_count-1 :
    Qualifies(r) =>
      /\ \A q \in 0..row_count-1 :
           Qualifies(q) /\ LowByte(q) = LowByte(r) => V(q, 1) = V(r, 1)
      /\ Total(r) < TRange

\* Where the addresses of a pass are those of the columns it is asked for.
Reaches ==
  CASE query = "q1"           -> pass = "col" => ~rise /\ Prefix
    [] query \in {"q2", "q3"} -> IF rise THEN pass = "row" => off(0) = 0
                                        ELSE pass \in {"cold", "hot"} => Prefix
    [] query = "q4" ->
         /\ Groupable
         /\ pass = "row" => off(0) = 0
         /\ pass = "col" => \A r \in 0..row_count-1 : Qualifies(r) => Members(r) = {r}

\* After every row a pass has the answer for the rows it has seen, whatever
\* the pass before it left behind, wherever Reaches holds; in q4 a group is averaged over the whole
\* table when its first row is met (run_query1 .. run_query4, RISE's q1.c ..
\* q4.c).
PassComputesTheQuery ==
  pass # "end" /\ Reaches => Result = Answer(i)

\* EDBT's q4 never writes behind the array of its groups, which it grows
\* before it records one, and both record no group twice (q4.c, realloc,
\* already_grouped).
GroupsFit ==
  /\ ~rise => Len(group_array) <= group_array_capacity
  /\ \A m, n \in DOMAIN group_array : m # n => group_array[m] # group_array[n]

=============================================================================
