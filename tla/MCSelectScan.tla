---------------------------- MODULE MCSelectScan ----------------------------
(***************************************************************************)
(* Small tables and column options for SelectScan.  Values are 100*i+j, so *)
(* a one-byte column holds 0, 100, 200, 44 and the bounds 101 and 150 let  *)
(* the fourth row through behind a third that is rejected; the bounds 101  *)
(* and 201 cut a table of wider columns after its second and third row.    *)
(***************************************************************************)
EXTENDS SelectScan

Opt(c, p, op, k) == [col |-> c, project |-> p, op |-> op, k |-> k]

Bounds == {0, 1, 101, 150, 201}

Options(c) ==
  {Opt(c, TRUE, "NOP", 0), Opt(c, TRUE, "GT", 0)} \cup
  {Opt(c, p, "LT", k) : p \in BOOLEAN, k \in Bounds}

\* One or two columns in either order, and one column in two options.
OptionLists ==
  {<<o>> : o \in Options(0) \cup Options(1)} \cup
  {<<a, b>> : a \in Options(0), b \in Options(1)} \cup
  {<<b, a>> : a \in Options(0), b \in Options(1)} \cup
  UNION {{<<a, b>> : a \in Options(c), b \in Options(c)} : c \in 0..1}

QueriesOver(widths) ==
  [s : {[rows |-> n, widths |-> w] : n \in {1, 4}, w \in widths}, cols : OptionLists]

EveryScan ==
  {"ROW", "COL", "RME"} \X QueriesOver({<<4, 4>>, <<8, 4>>, <<1, 4>>, <<2, 1>>, <<4, 8>>})

=============================================================================
