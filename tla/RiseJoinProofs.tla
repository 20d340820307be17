--------------------------- MODULE RiseJoinProofs ---------------------------
(***************************************************************************)
(* What q5's hash tables keep, and that its two passes compute the join,   *)
(* for every number of buckets, rows and columns and every width of T.     *)
(***************************************************************************)
EXTENDS RiseJoin, TLAPS, FiniteSetTheorems, SequenceTheorems, WellFoundedInduction

-----------------------------------------------------------------------------
\* Arithmetic of cells: word j of row a, in rows of n words.

LEMMA RowsApart ==
  ASSUME NEW a \in Nat, NEW b \in Nat, NEW n \in Nat, a < b
  PROVE  a*n + n <= b*n
<1> DEFINE d == b - a - 1
<1>1. d \in Nat /\ b = a + 1 + d
  OBVIOUS
<1>2. d*n \in Nat
  BY <1>1
<1>3. (a + 1 + d)*n = a*n + n + d*n
  BY <1>1
<1> QED
  BY <1>1, <1>2, <1>3

LEMMA Cell ==
  ASSUME NEW a \in Nat, NEW n \in Nat \ {0}, NEW j \in 0..n-1
  PROVE  /\ a*n + j \in Nat
         /\ (a*n + j) \div n = a
         /\ (a*n + j) % n = j
<1> DEFINE x == a*n + j
           q == x \div n
           r == x % n
<1>1. x \in Nat
  OBVIOUS
<1>2. q \in Nat /\ r \in 0..n-1 /\ x = q*n + r
  BY <1>1
<1>3. ~(q < a)
  BY <1>1, <1>2, RowsApart
<1>4. ~(a < q)
  BY <1>1, <1>2, RowsApart
<1> QED
  BY <1>1, <1>2, <1>3, <1>4

-----------------------------------------------------------------------------
\* A hash table whose count is that of its slots in use.
Filled(table) == {b \in Bucket : table.items[b] # <<>>}

IsTable(table) ==
  /\ table = [items            |-> [b \in Bucket |-> table.items[b]],
              overflow_buckets |-> [b \in Bucket |-> table.overflow_buckets[b]],
              count            |-> table.count]
  /\ table.count = Cardinality(Filled(table))

LEMMA Buckets ==
  /\ IsFiniteSet(Bucket) /\ Cardinality(Bucket) = CAPACITY
  /\ \A S \in SUBSET Bucket :
       /\ IsFiniteSet(S)
       /\ \A b \in Bucket \ S : Cardinality(S) < CAPACITY /\ Cardinality(S \cup {b}) = Cardinality(S) + 1
  /\ \A k \in Nat : hash_function(k) \in Bucket
<1>1. CAPACITY \in Nat \ {0}
  BY RiseHashAssumption
<1>2. IsFiniteSet(Bucket) /\ Cardinality(Bucket) = CAPACITY
  <2>1. 0 \in Int /\ CAPACITY-1 \in Int /\ ~(0 > CAPACITY-1) /\ CAPACITY-1 - 0 + 1 = CAPACITY
    BY <1>1
  <2> QED
    BY <2>1, FS_Interval DEF Bucket
<1>3. ASSUME NEW S \in SUBSET Bucket, NEW b \in Bucket \ S
      PROVE  Cardinality(S) < CAPACITY /\ Cardinality(S \cup {b}) = Cardinality(S) + 1
  <2>1. IsFiniteSet(S) /\ Cardinality(S) \in Nat
    BY <1>2, FS_Subset, FS_CardinalityType
  <2>2. Cardinality(S \cup {b}) = Cardinality(S) + 1
    BY <2>1, FS_AddElement
  <2>3. Cardinality(S \cup {b}) <= CAPACITY
    <3>1. S \cup {b} \subseteq Bucket
      OBVIOUS
    <3> QED
      BY <3>1, <1>2, FS_Subset
  <2> QED
    BY <1>1, <2>1, <2>2, <2>3
<1>4. \A S \in SUBSET Bucket : IsFiniteSet(S)
  BY <1>2, FS_Subset
<1>5. \A k \in Nat : hash_function(k) \in Bucket
  BY <1>1 DEF hash_function, Bucket
<1> QED
  BY <1>2, <1>3, <1>4, <1>5

LEMMA EmptyTable == IsTable(create_table) /\ \A b \in Bucket : create_table.items[b] = <<>>
                                                     /\ create_table.overflow_buckets[b] = <<>>
<1>1. Filled(create_table) = {}
  BY DEF Filled, create_table
<1> QED
  BY <1>1, FS_EmptySet DEF IsTable, create_table

\* An insertion meets no full table, leaves a table, and changes one bucket.
LEMMA Insertion ==
  ASSUME NEW t, IsTable(t), NEW k \in Nat, NEW v
  PROVE  /\ ~full(t, k)
         /\ IsTable(ht_insert(t, k, v))
         /\ \A b \in Bucket :
              LET new == ht_insert(t, k, v) IN
              /\ b # hash_function(k) =>
                   new.items[b] = t.items[b] /\ new.overflow_buckets[b] = t.overflow_buckets[b]
              /\ b = hash_function(k) /\ t.items[b] = <<>> =>
                   /\ new.items[b] = <<create_item(k, v)>>
                   /\ new.overflow_buckets[b] = t.overflow_buckets[b]
              /\ b = hash_function(k) /\ t.items[b] # <<>> => new.items[b] = t.items[b]
              /\ b = hash_function(k) /\ t.items[b] # <<>> /\ t.items[b][1].key = k =>
                   new.overflow_buckets[b] = t.overflow_buckets[b]
              /\ b = hash_function(k) /\ t.items[b] # <<>> /\ t.items[b][1].key # k =>
                   new.overflow_buckets[b] =
                     linkedlist_insert(t.overflow_buckets[b], create_item(k, v))
<1> DEFINE h == hash_function(k)
           new == ht_insert(t, k, v)
<1>1. h \in Bucket
  BY Buckets
<1>2. Filled(t) \in SUBSET Bucket
  BY DEF Filled
<1>3. CASE t.items[h] = <<>>
  <2>1. h \in Bucket \ Filled(t)
    BY <1>1, <1>3 DEF Filled
  <2>2. t.count < CAPACITY /\ Cardinality(Filled(t) \cup {h}) = t.count + 1
    BY <2>1, <1>2, Buckets DEF IsTable
  <2>3. new = [items |-> [b \in Bucket |-> IF b = h THEN <<create_item(k, v)>> ELSE t.items[b]],
               overflow_buckets |-> [b \in Bucket |-> t.overflow_buckets[b]],
               count |-> t.count + 1]
    <3>1. new = [t EXCEPT !.items[h] = <<create_item(k, v)>>, !.count = t.count + 1]
      BY <1>3 DEF ht_insert
    <3>2. PICK I, O, c : /\ t = [items |-> I, overflow_buckets |-> O, count |-> c]
                         /\ I = [b \in Bucket |-> t.items[b]]
                         /\ O = [b \in Bucket |-> t.overflow_buckets[b]]
      BY DEF IsTable
    <3>3. t.items = I /\ t.overflow_buckets = O /\ t.count = c
      BY <3>2
    <3>4. [I EXCEPT ![h] = <<create_item(k, v)>>] =
            [b \in Bucket |-> IF b = h THEN <<create_item(k, v)>> ELSE t.items[b]]
      BY <3>2, <1>1
    <3> HIDE DEF h, new
    <3>5. new = [items |-> [I EXCEPT ![h] = <<create_item(k, v)>>],
                 overflow_buckets |-> O, count |-> t.count + 1]
      BY <3>1, <3>2, <3>3
    <3> QED
      BY <3>2, <3>4, <3>5
  <2>4. <<create_item(k, v)>> # <<>>
    OBVIOUS
  <2>5. Filled(new) = Filled(t) \cup {h}
    BY <1>1, <2>3, <2>4 DEF Filled
  <2>6. CAPACITY \in Nat
    BY RiseHashAssumption
  <2> HIDE DEF h, new
  <2>7. ~full(t, k)
    <3>1. t.count # CAPACITY
      BY <2>2, <2>6, <1>2, Buckets, FS_CardinalityType DEF IsTable
    <3> QED
      BY <3>1 DEF full
  <2>8. IsTable(new)
    BY <2>2, <2>3, <2>5 DEF IsTable
  <2> QED
    BY <1>1, <1>3, <2>3, <2>7, <2>8 DEF h, new
<1>4. CASE t.items[h] # <<>> /\ t.items[h][1].key = k
  <2>1. new = t
    BY <1>4 DEF ht_insert
  <2>2. ~full(t, k)
    BY <1>4 DEF full
  <2> HIDE DEF h, new
  <2> QED
    BY <1>1, <1>4, <2>1, <2>2 DEF h, new
<1>5. CASE t.items[h] # <<>> /\ t.items[h][1].key # k
  <2>1. new = [items |-> [b \in Bucket |-> t.items[b]],
               overflow_buckets |-> [b \in Bucket |->
                  IF b = h THEN linkedlist_insert(t.overflow_buckets[b], create_item(k, v))
                           ELSE t.overflow_buckets[b]],
               count |-> t.count]
    BY <1>1, <1>5 DEF ht_insert, IsTable
  <2>2. Filled(new) = Filled(t)
    BY <2>1 DEF Filled
  <2>3. ~full(t, k)
    BY <1>5 DEF full
  <2> HIDE DEF h, new
  <2>4. IsTable(new)
    BY <2>1, <2>2 DEF IsTable
  <2> QED
    BY <1>1, <1>5, <2>1, <2>3, <2>4 DEF h, new
<1> QED
  BY <1>3, <1>4, <1>5

-----------------------------------------------------------------------------
\* The run, and how far it is.
TypeOK ==
  /\ run \in Run
  /\ pc \in {"build", "build_dram", "probe", "probe_dram", "done", "exit"}
  /\ i \in 0..row_count

TablesInv == IsTable(ht) /\ IsTable(ht2)

IInv == TypeOK /\ TablesInv /\ NeverFull /\ HashKeepsThree

LEMMA Shape ==
  ASSUME run \in Run
  PROVE  /\ row_count \in Nat /\ run.columns \in Nat \ {0} /\ enabled \in Nat \ {0}
         /\ \A j \in 0..enabled-1 : off(j) \in 0..run.columns-1
         /\ \A j, l \in 0..enabled-1 : off(j) = off(l) => j = l
<1>1. /\ run.row_count \in Nat /\ run.columns \in Nat \ {0}
      /\ run.offsets \in Seq(0..run.columns-1) /\ run.offsets # <<>>
      /\ \A m, n \in DOMAIN run.offsets : m < n => run.offsets[m] < run.offsets[n]
  BY RiseJoinAssumption
<1>2. enabled \in Nat \ {0}
  BY <1>1 DEF enabled
<1>3. \A j, l \in 0..enabled-1 : off(j) = off(l) => j = l
  <2>1. DOMAIN run.offsets = 1..enabled
    BY <1>1 DEF enabled
  <2>2. \A j \in 0..enabled-1 : j+1 \in 1..enabled /\ off(j) = run.offsets[j+1]
    BY <1>2 DEF off
  <2>3. \A m \in 1..enabled : run.offsets[m] \in Int
    <3>1. \A m \in 1..enabled : run.offsets[m] \in 0..run.columns-1
      BY <1>1 DEF enabled
    <3> QED
      BY <1>1, <3>1
  <2>4. ASSUME NEW j \in 0..enabled-1, NEW l \in 0..enabled-1, j < l
        PROVE  off(j) # off(l)
    <3>1. j+1 \in DOMAIN run.offsets /\ l+1 \in DOMAIN run.offsets /\ j+1 < l+1
      BY <1>2, <2>1, <2>2, <2>4
    <3>2. run.offsets[j+1] < run.offsets[l+1]
      BY <1>1, <3>1, Zenon
    <3> QED
      BY <2>2, <2>3, <3>2
  <2> QED
    BY <1>2, <2>4
<1> QED
  BY <1>1, <1>2, <1>3 DEF row_count, enabled, off

LEMMA ColumnIsNat ==
  ASSUME run \in Run, NEW r \in Nat, NEW j \in Nat
  PROVE  Table1(r, j) \in Nat /\ Table2(r, j) \in Nat /\ Stored(r, j) \in Nat
<1>1. enabled \in Nat \ {0} /\ TRange \in Nat \ {0}
  BY Shape, RiseJoinAssumption
<1>2. r*enabled \in Int /\ r*(enabled-1) \in Int
  BY <1>1
<1>3. Table1(r, j) \in Nat
  BY <1>1, <1>2 DEF Table1
<1>4. Table2(r, j) \in Nat
  <2>1. CASE j = 0
    BY <1>1, <2>1 DEF Table2
  <2>2. CASE j # 0
    BY <1>1, <1>2, <2>2 DEF Table2
  <2> QED
    BY <2>1, <2>2
<1> QED
  BY <1>3, <1>4 DEF Stored

\* The window has word j of row r where the loops look for it.
LEMMA WindowCell ==
  ASSUME run \in Run, NEW r \in 0..row_count-1, NEW j \in 0..enabled-1
  PROVE  plim[r*enabled + j] = Stored(r, j)
<1>1. row_count \in Nat /\ enabled \in Nat \ {0}
  BY Shape
<1>2. r \in Nat /\ r < row_count
  BY <1>1
<1>3. r*enabled + enabled <= row_count*enabled
  BY <1>1, <1>2, RowsApart
<1>4. r*enabled \in Nat /\ row_count*enabled \in Nat
  BY <1>1, <1>2
<1>5. r*enabled + j \in 0..row_count*enabled-1
  BY <1>1, <1>3, <1>4
<1>6. (r*enabled + j) \div enabled = r /\ (r*enabled + j) % enabled = j
  BY <1>1, <1>2, Cell
<1> QED
  BY <1>5, <1>6 DEF plim

LEMMA KeyIsNat ==
  ASSUME run \in Run, NEW r \in 0..row_count-1
  PROVE  key(r) \in Nat
<1>1. row_count \in Nat /\ enabled \in Nat \ {0} /\ run.columns \in Nat \ {0} /\ r \in Nat
  BY Shape
<1>2. CASE InWindow(pc)
  <2>1. r*enabled + 0 = r*enabled /\ 0 \in 0..enabled-1
    BY <1>1
  <2>2. plim[r*enabled] = Stored(r, 0)
    BY <2>1, WindowCell
  <2>3. Stored(r, 0) \in Nat
    BY <1>1, ColumnIsNat
  <2> QED
    BY <1>2, <2>2, <2>3 DEF key
<1>3. CASE ~InWindow(pc)
  <2> DEFINE n == run.columns
             a == r*n
             at == {j \in 0..enabled-1 : off(j) = a % n}
  <2>1. r*n + n <= row_count*n
    BY <1>1, RowsApart
  <2>2. r*n \in Nat /\ row_count*n \in Nat
    BY <1>1
  <2>3. a \in 0..row_count*n-1
    BY <1>1, <2>1, <2>2
  <2>4. a \div n \in Nat
    BY <1>1, <2>2
  <2>5. dram[a] = IF at = {} THEN 0 ELSE Stored(a \div n, CHOOSE j \in at : TRUE)
    BY <2>3 DEF dram
  <2>6. at # {} => (CHOOSE j \in at : TRUE) \in Nat
    BY <1>1
  <2>7. \A x, y \in Nat : Stored(x, y) \in Nat
    BY ColumnIsNat
  <2> HIDE DEF a, at
  <2>8. dram[a] \in Nat
    <3>1. CASE at = {}
      <4>1. dram[a] = 0
        BY <2>5, <3>1
      <4> QED
        BY <4>1
    <3>2. CASE at # {}
      <4> DEFINE first == CHOOSE j \in at : TRUE
      <4>1. first \in Nat
        BY <2>6, <3>2
      <4>2. dram[a] = Stored(a \div n, first)
        BY <2>5, <3>2
      <4> QED
        BY <2>4, <2>7, <4>1, <4>2
    <3> QED
      BY <3>1, <3>2
  <2> QED
    BY <1>3, <2>8 DEF key, a, n
<1> QED
  BY <1>2, <1>3

\* DRAM has column j of row r where the loops look for it.
LEMMA DramCell ==
  ASSUME run \in Run, NEW r \in 0..row_count-1, NEW j \in 0..enabled-1
  PROVE  dram[r*run.columns + off(j)] = Stored(r, j)
<1> DEFINE n == run.columns
           o == off(j)
           at == {l \in 0..enabled-1 : off(l) = o}
<1>1. row_count \in Nat /\ n \in Nat \ {0} /\ o \in 0..n-1 /\ r \in Nat /\ r < row_count
  BY Shape
<1>2. at = {j}
  BY Shape
<1>3. dram = [a \in 0..row_count*n-1 |->
                LET here == {l \in 0..enabled-1 : off(l) = a % n}
                IN  IF here = {} THEN 0 ELSE Stored(a \div n, CHOOSE l \in here : TRUE)]
  BY DEF dram
<1> HIDE DEF n, o
<1>4. r*n + n <= row_count*n
  BY <1>1, RowsApart
<1>5. r*n \in Nat /\ row_count*n \in Nat
  BY <1>1
<1>6. r*n + o \in 0..row_count*n-1
  BY <1>1, <1>4, <1>5
<1>7. (r*n + o) \div n = r /\ (r*n + o) % n = o
  BY <1>1, Cell
<1>8. dram[r*n + o] = IF at = {} THEN 0 ELSE Stored(r, CHOOSE l \in at : TRUE)
  BY <1>3, <1>6, <1>7
<1>9. dram[r*n + o] = Stored(r, j)
  BY <1>2, <1>8
<1> QED
  BY <1>9 DEF n, o

\* What the loops read of a row: the enabled columns, from DRAM if the first of
\* them is the table's first.
LEMMA Reads ==
  ASSUME run \in Run, NEW r \in 0..row_count-1, InWindow(pc) \/ off(0) = 0
  PROVE  /\ key(r) = Stored(r, 0)
         /\ arr(r) = [j \in 1..enabled-1 |-> Stored(r, j)]
<1>1. row_count \in Nat /\ enabled \in Nat \ {0} /\ run.columns \in Nat \ {0} /\ r \in Nat
  BY Shape
<1>2. r*enabled + 0 = r*enabled /\ r*run.columns + 0 = r*run.columns /\ 0 \in 0..enabled-1
  BY <1>1
<1>3. plim[r*enabled] = Stored(r, 0)
  BY <1>2, WindowCell
<1>4. off(0) = 0 => dram[r*run.columns] = Stored(r, 0)
  BY <1>2, DramCell
<1>5. \A j \in 1..enabled-1 : /\ plim[r*enabled + j] = Stored(r, j)
                             /\ dram[r*run.columns + off(j)] = Stored(r, j)
  BY <1>1, WindowCell, DramCell
<1>6. key(r) = Stored(r, 0)
  BY <1>3, <1>4 DEF key
<1>7. arr(r) = [j \in 1..enabled-1 |-> Stored(r, j)]
  BY <1>5 DEF arr
<1> QED
  BY <1>6, <1>7

-----------------------------------------------------------------------------
\* linkedlist_insert keeps the first node of a list and makes the new one its
\* last.
LEMMA ListGrows ==
  /\ \A n : linkedlist_insert(<<>>, Item(n)) = ListOf(n, n)
  /\ \A x, y, n : x # n => linkedlist_insert(ListOf(x, y), Item(n)) = ListOf(x, n)
<1>1. \A e : Append(<<>>, e) = <<e>>
  OBVIOUS
<1>2. ASSUME NEW d, NEW e
      PROVE  Append(<<d>>, e) = <<d, e>>
  <2>1. <<d>> \in Seq({d, e}) /\ Len(<<d>>) = 1
    OBVIOUS
  <2>2. Append(<<d>>, e) \in Seq({d, e}) /\ <<d, e>> \in Seq({d, e})
    BY <2>1
  <2>3. Len(Append(<<d>>, e)) = 2 /\ Len(<<d, e>>) = 2
    BY <2>1
  <2>4. \A n \in 1..2 : Append(<<d>>, e)[n] = <<d, e>>[n]
    BY <2>1
  <2> QED
    BY <2>2, <2>3, <2>4, SeqEqual
<1>3. \A c, d, e : [<<c, d>> EXCEPT ![2] = e] = <<c, e>>
  OBVIOUS
<1>4. ASSUME NEW x, NEW y, NEW n, x # n
      PROVE  linkedlist_insert(ListOf(x, y), Item(n)) = ListOf(x, n)
  <2>1. CASE x = y
    <3>1. Len(<<Item(x)>>) = 1
      OBVIOUS
    <3> QED
      BY <1>2, <1>4, <2>1, <3>1 DEF linkedlist_insert, ListOf
  <2>2. CASE x # y
    <3>1. Len(<<Item(x), Item(y)>>) = 2
      OBVIOUS
    <3> QED
      BY <1>3, <1>4, <2>2, <3>1 DEF linkedlist_insert, ListOf
  <2> QED
    BY <2>1, <2>2
<1>5. ASSUME NEW n
      PROVE  linkedlist_insert(<<>>, Item(n)) = ListOf(n, n)
  <2>1. Len(<<>>) = 0
    OBVIOUS
  <2> QED
    BY <1>1, <2>1 DEF linkedlist_insert, ListOf
<1> QED
  BY <1>4, <1>5

\* A table of the first n rows, when row n is hashed.
LEMMA InsertKeeps ==
  ASSUME run \in Run, NEW n \in 0..row_count-1, NEW t, IsTable(t), KeepsThree(t, n)
  PROVE  KeepsThree(ht_insert(t, Table1(n, 0), Columns(n)), n+1)
<1> DEFINE k == Table1(n, 0)
           h == hash_function(k)
           new == ht_insert(t, k, Columns(n))
<1>1. n \in Nat /\ k \in Nat
  BY Shape, ColumnIsNat
<1>2. create_item(k, Columns(n)) = Item(n)
  BY DEF Item
<1>3. 0..(n+1)-1 = (0..n-1) \cup {n}
  BY <1>1
<1>4. ASSUME NEW b \in Bucket
      PROVE  /\ b # h => InBucket(b, n+1) = InBucket(b, n)
             /\ b = h => InBucket(b, n+1) = InBucket(b, n) \cup {n}
             /\ \A r \in InBucket(b, n) : r \in Nat /\ r < n
  BY <1>1, <1>3 DEF InBucket
<1>5. ASSUME NEW b \in Bucket, NEW f
      PROVE  /\ b # h => Beside(f, b, n+1) = Beside(f, b, n)
             /\ b = h /\ Table1(f, 0) = k => Beside(f, b, n+1) = Beside(f, b, n)
             /\ b = h /\ Table1(f, 0) # k => Beside(f, b, n+1) = Beside(f, b, n) \cup {n}
             /\ Beside(f, b, n) \subseteq InBucket(b, n)
  BY <1>4 DEF Beside
<1> SUFFICES ASSUME NEW b \in Bucket
             PROVE  \/ /\ InBucket(b, n+1) = {}
                       /\ new.items[b] = <<>> /\ new.overflow_buckets[b] = <<>>
                    \/ \E f \in InBucket(b, n+1) :
                         /\ Least(f, InBucket(b, n+1)) /\ new.items[b] = <<Item(f)>>
                         /\ \/ Beside(f, b, n+1) = {} /\ new.overflow_buckets[b] = <<>>
                            \/ \E x, y \in Beside(f, b, n+1) :
                                 /\ Least(x, Beside(f, b, n+1)) /\ Greatest(y, Beside(f, b, n+1))
                                 /\ new.overflow_buckets[b] = ListOf(x, y)
  BY DEF KeepsThree
<1> DEFINE items == t.items[b]
           list  == t.overflow_buckets[b]
<1>6. /\ b # h => new.items[b] = items /\ new.overflow_buckets[b] = list
      /\ b = h /\ items = <<>> => new.items[b] = <<Item(n)>> /\ new.overflow_buckets[b] = list
      /\ b = h /\ items # <<>> => new.items[b] = items
      /\ b = h /\ items # <<>> /\ items[1].key = k => new.overflow_buckets[b] = list
      /\ b = h /\ items # <<>> /\ items[1].key # k =>
           new.overflow_buckets[b] = linkedlist_insert(list, Item(n))
  <2> HIDE DEF k
  <2> QED
    BY <1>1, <1>2, Insertion
<1>7. \/ InBucket(b, n) = {} /\ items = <<>> /\ list = <<>>
      \/ \E f \in InBucket(b, n) :
           /\ Least(f, InBucket(b, n)) /\ items = <<Item(f)>>
           /\ \/ Beside(f, b, n) = {} /\ list = <<>>
              \/ \E x, y \in Beside(f, b, n) :
                   /\ Least(x, Beside(f, b, n)) /\ Greatest(y, Beside(f, b, n))
                   /\ list = ListOf(x, y)
  BY DEF KeepsThree
<1> HIDE DEF k, h, new, items, list
<1>8. CASE b # h
  BY <1>4, <1>5, <1>6, <1>7, <1>8
<1>9. CASE b = h /\ InBucket(b, n) = {}
  <2>1. InBucket(b, n+1) = {n} /\ new.items[b] = <<Item(n)>> /\ new.overflow_buckets[b] = <<>>
    BY <1>4, <1>6, <1>7, <1>9
  <2>2. Beside(n, b, n+1) = {}
    BY <2>1 DEF Beside
  <2>3. n \in InBucket(b, n+1) /\ Least(n, InBucket(b, n+1))
    BY <1>1, <2>1 DEF Least
  <2> QED
    BY <2>1, <2>2, <2>3
<1>10. CASE b = h /\ InBucket(b, n) # {}
  <2>1. PICK f \in InBucket(b, n) :
           /\ Least(f, InBucket(b, n)) /\ items = <<Item(f)>>
           /\ \/ Beside(f, b, n) = {} /\ list = <<>>
              \/ \E x, y \in Beside(f, b, n) :
                   /\ Least(x, Beside(f, b, n)) /\ Greatest(y, Beside(f, b, n))
                   /\ list = ListOf(x, y)
    BY <1>7, <1>10
  <2>2. items # <<>> /\ items[1].key = Table1(f, 0)
    BY <2>1 DEF Item, create_item
  <2>3. /\ InBucket(b, n+1) = InBucket(b, n) \cup {n}
        /\ f \in InBucket(b, n+1) /\ Least(f, InBucket(b, n+1))
    BY <1>1, <1>4, <1>10, <2>1 DEF Least
  <2>4. new.items[b] = <<Item(f)>>
    BY <1>6, <1>10, <2>1, <2>2
  <2>5. CASE Table1(f, 0) = k
    <3>1. new.overflow_buckets[b] = list /\ Beside(f, b, n+1) = Beside(f, b, n)
      BY <1>5, <1>6, <1>10, <2>2, <2>5
    <3> QED
      BY <2>1, <2>3, <2>4, <3>1
  <2>6. CASE Table1(f, 0) # k
    <3>1. new.overflow_buckets[b] = linkedlist_insert(list, Item(n))
      BY <1>6, <1>10, <2>2, <2>6
    <3>2. Beside(f, b, n+1) = Beside(f, b, n) \cup {n}
      BY <1>5, <1>10, <2>6
    <3>3. \A r \in Beside(f, b, n) : r \in Nat /\ r < n
      BY <1>4, <1>5
    <3>4. n \in Beside(f, b, n+1) /\ Greatest(n, Beside(f, b, n+1))
      BY <1>1, <3>2, <3>3 DEF Greatest
    <3>5. CASE Beside(f, b, n) = {} /\ list = <<>>
      <4>1. new.overflow_buckets[b] = ListOf(n, n)
        BY <3>1, <3>5, ListGrows
      <4>2. Least(n, Beside(f, b, n+1))
        BY <1>1, <3>2, <3>5 DEF Least
      <4> QED
        BY <2>3, <2>4, <3>4, <4>1, <4>2
    <3>6. ASSUME NEW x \in Beside(f, b, n), NEW y \in Beside(f, b, n),
                 Least(x, Beside(f, b, n)), list = ListOf(x, y)
          PROVE  \E z \in Beside(f, b, n+1) :
                   Least(z, Beside(f, b, n+1)) /\ new.overflow_buckets[b] = ListOf(z, n)
      <4>1. x \in Beside(f, b, n+1) /\ Least(x, Beside(f, b, n+1))
        BY <1>1, <3>2, <3>3, <3>6 DEF Least
      <4>2. x # n
        BY <1>1, <3>3
      <4>3. new.overflow_buckets[b] = ListOf(x, n)
        BY <3>1, <3>6, <4>2, ListGrows
      <4> QED
        BY <4>1, <4>3
    <3> QED
      BY <2>1, <2>3, <2>4, <3>4, <3>5, <3>6
  <2> QED
    BY <2>5, <2>6
<1> QED
  BY <1>8, <1>9, <1>10

-----------------------------------------------------------------------------
LEMMA InitIInv == Init => IInv
<1> SUFFICES ASSUME Init PROVE IInv
  OBVIOUS
<1>1. TypeOK
  <2>1. row_count \in Nat
    BY Shape DEF Init
  <2> QED
    BY <2>1 DEF Init, TypeOK
<1>2. TablesInv
  BY EmptyTable DEF Init, TablesInv
<1>3. NeverFull
  BY DEF Init, NeverFull
<1>4. HashKeepsThree
  <2>1. Hashed = 0 /\ Hashed2 = 0
    BY DEF Init, Hashed, Hashed2
  <2>2. \A b \in Bucket : InBucket(b, 0) = {}
    BY DEF InBucket
  <2>3. KeepsThree(create_table, 0)
    BY <2>2, EmptyTable DEF KeepsThree
  <2> QED
    BY <2>1, <2>3 DEF Init, HashKeepsThree
<1> QED
  BY <1>1, <1>2, <1>3, <1>4 DEF IInv

\* What the tables hold is a matter of the run.
LEMMA RunStays ==
  ASSUME UNCHANGED run
  PROVE  /\ row_count' = row_count /\ off(0)' = off(0)
         /\ \A t, n : KeepsThree(t, n)' <=> KeepsThree(t, n)
<1>1. /\ \A r, j : Table1(r, j)' = Table1(r, j)
      /\ \A r : Item(r)' = Item(r)
      /\ \A x, y : ListOf(x, y)' = ListOf(x, y)
  BY DEF Table1, Item, Columns, ListOf, enabled
<1>2. \A b, n : InBucket(b, n)' = InBucket(b, n)
  BY <1>1 DEF InBucket
<1>3. \A f, b, n : Beside(f, b, n)' = Beside(f, b, n)
  BY <1>1, <1>2 DEF Beside
<1>4. ASSUME NEW t, NEW n PROVE KeepsThree(t, n)' <=> KeepsThree(t, n)
  <2> DEFINE Two(f, b) ==
               /\ Least(f, InBucket(b, n)) /\ t.items[b] = <<Item(f)>>
               /\ \/ Beside(f, b, n) = {} /\ t.overflow_buckets[b] = <<>>
                  \/ \E x, y \in Beside(f, b, n) :
                       /\ Least(x, Beside(f, b, n)) /\ Greatest(y, Beside(f, b, n))
                       /\ t.overflow_buckets[b] = ListOf(x, y)
             None(b) == /\ InBucket(b, n) = {}
                        /\ t.items[b] = <<>> /\ t.overflow_buckets[b] = <<>>
  <2>1. \A b, f : Two(f, b)' <=> Two(f, b)
    BY <1>1, <1>2, <1>3 DEF Least, Greatest
  <2>2. \A b : None(b)' <=> None(b)
    BY <1>2
  <2>3. KeepsThree(t, n) <=> \A b \in Bucket : None(b) \/ \E f \in InBucket(b, n) : Two(f, b)
    BY Zenon DEF KeepsThree
  <2>4. KeepsThree(t, n)' <=>
          \A b \in Bucket : None(b)' \/ \E f \in InBucket(b, n)' : Two(f, b)'
    BY Zenon DEF KeepsThree
  <2> HIDE DEF Two, None
  <2> QED
    BY <1>2, <2>1, <2>2, <2>3, <2>4
<1>5. row_count' = row_count /\ off(0)' = off(0)
  BY DEF row_count, off
<1> QED
  BY <1>4, <1>5

LEMMA NextIInv == IInv /\ [Next]_vars => IInv'
<1> SUFFICES ASSUME IInv, [Next]_vars PROVE IInv'
  OBVIOUS
<1>1. /\ row_count \in Nat /\ run \in Run /\ i \in 0..row_count
      /\ IsTable(ht) /\ IsTable(ht2)
  BY Shape DEF IInv, TypeOK, TablesInv
<1>2. UNCHANGED run
  BY DEF Next, BuildRow, ProbeRow, NextLoop, vars
<1>3. /\ row_count' = row_count /\ off(0)' = off(0)
      /\ \A t, n : KeepsThree(t, n)' <=> KeepsThree(t, n)
  BY <1>2, RunStays
<1>4. CASE BuildRow
  <2>1. CASE pc = "build" /\ Insert(ht, ht') /\ UNCHANGED ht2
    <3>1. i \in 0..row_count-1
      BY <1>1, <2>1 DEF Insert
    <3>2. key(i) = Table1(i, 0) /\ arr(i) = Columns(i) /\ key(i) \in Nat
      BY <1>1, <2>1, <3>1, Reads, KeyIsNat DEF InWindow, Stored, Columns
    <3>3. ~full(ht, key(i)) /\ IsTable(ht_insert(ht, key(i), arr(i)))
      BY <1>1, <3>2, Insertion
    <3>4. ht' = ht_insert(ht, key(i), arr(i)) /\ i' = i + 1 /\ UNCHANGED pc
      BY <2>1, <3>3 DEF Insert
    <3>5. KeepsThree(ht, i) /\ (off(0) = 0 => KeepsThree(ht2, 0))
      BY <2>1 DEF IInv, HashKeepsThree, Hashed, Hashed2
    <3>6. KeepsThree(ht', i')
      BY <1>1, <3>1, <3>2, <3>4, <3>5, InsertKeeps
    <3>7. Hashed' = i' /\ Hashed2' = 0
      BY <2>1, <3>4 DEF Hashed, Hashed2
    <3>8. HashKeepsThree'
      BY <1>3, <2>1, <3>5, <3>6, <3>7 DEF HashKeepsThree
    <3> QED
      BY <1>1, <1>2, <1>3, <2>1, <3>1, <3>3, <3>4, <3>8 DEF IInv, TypeOK, TablesInv, NeverFull
  <2>2. CASE pc = "build_dram" /\ Insert(ht2, ht2') /\ UNCHANGED ht
    <3>1. i \in 0..row_count-1
      BY <1>1, <2>2 DEF Insert
    <3>2. key(i) \in Nat /\ (off(0) = 0 => key(i) = Table1(i, 0) /\ arr(i) = Columns(i))
      BY <1>1, <2>2, <3>1, Reads, KeyIsNat DEF Stored, Columns
    <3>3. ~full(ht2, key(i)) /\ IsTable(ht_insert(ht2, key(i), arr(i)))
      BY <1>1, <3>2, Insertion
    <3>4. ht2' = ht_insert(ht2, key(i), arr(i)) /\ i' = i + 1 /\ UNCHANGED pc
      BY <2>2, <3>3 DEF Insert
    <3>5. KeepsThree(ht, row_count) /\ (off(0) = 0 => KeepsThree(ht2, i))
      BY <2>2 DEF IInv, HashKeepsThree, Hashed, Hashed2
    <3>6. off(0) = 0 => KeepsThree(ht2', i')
      BY <1>1, <3>1, <3>2, <3>4, <3>5, InsertKeeps
    <3>7. Hashed' = row_count /\ Hashed2' = i'
      BY <1>3, <2>2, <3>4 DEF Hashed, Hashed2
    <3>8. HashKeepsThree'
      BY <1>3, <2>2, <3>5, <3>6, <3>7 DEF HashKeepsThree
    <3> QED
      BY <1>1, <1>2, <1>3, <2>2, <3>1, <3>3, <3>4, <3>8 DEF IInv, TypeOK, TablesInv, NeverFull
  <2> QED
    BY <1>4, <2>1, <2>2 DEF BuildRow, Build
<1>5. CASE ProbeRow
  <2>1. pc \in {"probe", "probe_dram"} /\ i' = i + 1 /\ i < row_count /\ UNCHANGED <<pc, ht, ht2>>
    BY <1>5 DEF ProbeRow, Probe
  <2>2. HashKeepsThree'
    BY <1>3, <2>1 DEF IInv, HashKeepsThree, Hashed, Hashed2
  <2> QED
    BY <1>1, <1>2, <1>3, <2>1, <2>2 DEF IInv, TypeOK, TablesInv, NeverFull
<1>6. CASE NextLoop
  <2>1. /\ pc' = CASE pc = "build" -> "build_dram" [] pc = "build_dram" -> "probe"
                   [] pc = "probe" -> "probe_dram" [] OTHER -> "done"
        /\ i = row_count /\ i' = 0 /\ pc # "exit" /\ UNCHANGED <<ht, ht2>>
    BY <1>6 DEF NextLoop
  <2>2. Hashed' = Hashed /\ Hashed2' = Hashed2
    BY <1>3, <2>1 DEF Hashed, Hashed2
  <2>3. HashKeepsThree'
    BY <1>3, <2>1, <2>2 DEF IInv, HashKeepsThree
  <2> QED
    BY <1>1, <1>2, <1>3, <2>1, <2>3 DEF IInv, TypeOK, TablesInv, NeverFull
<1>7. CASE UNCHANGED vars
  <2>1. UNCHANGED <<pc, i, ht, ht2>>
    BY <1>7 DEF vars
  <2>2. HashKeepsThree'
    BY <1>3, <2>1 DEF IInv, HashKeepsThree, Hashed, Hashed2
  <2> QED
    BY <1>1, <1>2, <1>3, <2>1, <2>2 DEF IInv, TypeOK, TablesInv, NeverFull
<1> QED
  BY <1>4, <1>5, <1>6, <1>7 DEF Next

THEOREM Invariance == Spec => []IInv
  BY InitIInv, NextIInv, PTL DEF Spec

\* q5_header.h reports a full table to nobody: a row whose slot is empty finds
\* fewer than CAPACITY slots in use, in both tables (ht_insert).
THEOREM TablesNeverFull == Spec => []NeverFull
<1>1. IInv => NeverFull
  BY DEF IInv
<1> QED
  BY <1>1, Invariance, PTL

\* A bucket keeps its first row and, of those with another key, the first and
\* the last, and nothing else; so in the table hashed from the window, and in
\* that from DRAM when the table's first column is enabled (linkedlist_insert,
\* handle_collision, ht_insert).
THEOREM BucketsKeepThree == Spec => []HashKeepsThree
<1>1. IInv => HashKeepsThree
  BY DEF IInv
<1> QED
  BY <1>1, Invariance, PTL

-----------------------------------------------------------------------------
\* A set of naturals that is not empty has a least member.
LEMMA HasLeast ==
  ASSUME NEW T, T \subseteq Nat, T # {}
  PROVE  \E x \in T : \A y \in T : x <= y
<1>1. PICK x \in T : \A y \in T : <<y, x>> \notin OpToRel(<, Nat)
  BY WFMin, NatLessThanWellFounded, Zenon
<1>2. \A y \in T : y \in Nat /\ ~(y < x)
  BY <1>1, Zenon DEF OpToRel
<1> QED
  BY <1>2

\* A set of naturals with 0, and with the successor of each of its members, is
\* Nat.
LEMMA Induct ==
  ASSUME NEW S, S \subseteq Nat, 0 \in S, \A n \in S : n+1 \in S
  PROVE  S = Nat
<1> SUFFICES ASSUME S # Nat PROVE FALSE
  OBVIOUS
<1>1. PICK x \in Nat \ S : \A y \in Nat \ S : x <= y
  BY HasLeast
<1>2. x-1 \in Nat \ S
  BY <1>1
<1> QED
  BY <1>1, <1>2

\* The function by which Joined is defined exists, and is the same for every
\* number of rows as far as both go.
Behind(a, b) == a \o b

IsJoined(s, n) ==
  s = [m \in 0..n |-> IF m = 0 THEN <<>> ELSE Behind(s[m-1], JoinRow(m-1))]

LEMMA JoinedExists == \A n \in Nat : \E s : IsJoined(s, n)
<1> DEFINE S == {n \in Nat : \E s : IsJoined(s, n)}
<1>1. 0 \in S
  <2>1. IsJoined([m \in 0..0 |-> <<>>], 0)
    BY DEF IsJoined
  <2> QED
    BY <2>1
<1>2. ASSUME NEW n \in S PROVE n+1 \in S
  <2>1. PICK s : IsJoined(s, n)
    OBVIOUS
  <2> DEFINE u == [m \in 0..n+1 |-> IF m = n+1 THEN Behind(s[n], JoinRow(n)) ELSE s[m]]
  <2>2. \A m \in 0..n+1 : u[m] = IF m = 0 THEN <<>> ELSE Behind(u[m-1], JoinRow(m-1))
    <3> TAKE m \in 0..n+1
    <3>1. CASE m = 0
      BY <2>1, <3>1 DEF IsJoined
    <3>2. CASE m \in 1..n
      <4>1. u[m] = s[m] /\ u[m-1] = s[m-1] /\ m # 0
        BY <3>2
      <4>2. s[m] = Behind(s[m-1], JoinRow(m-1))
        BY <2>1, <3>2 DEF IsJoined
      <4> QED
        BY <4>1, <4>2
    <3>3. CASE m = n+1
      <4>1. m-1 = n /\ m # 0 /\ u[m-1] = s[n]
        BY <3>3
      <4> QED
        BY <3>3, <4>1
    <3> QED
      BY <3>1, <3>2, <3>3
  <2>3. u = [m \in 0..n+1 |-> u[m]]
    OBVIOUS
  <2> HIDE DEF u
  <2>4. IsJoined(u, n+1)
    BY <2>2, <2>3 DEF IsJoined
  <2> QED
    BY <2>4
<1> HIDE DEF S
<1>3. S = Nat
  <2>1. S \subseteq Nat
    BY DEF S
  <2> QED
    BY <1>1, <1>2, <2>1, Induct
<1> QED
  BY <1>3 DEF S

LEMMA JoinedUnique ==
  ASSUME NEW n \in Nat, NEW m \in 0..n,
         NEW s, IsJoined(s, n), NEW u, IsJoined(u, m)
  PROVE  s[m] = u[m]
<1> DEFINE S == {l \in Nat : l <= m => s[l] = u[l]}
<1>1. 0 \in S
  BY DEF IsJoined
<1>2. ASSUME NEW l \in S PROVE l+1 \in S
  <2> SUFFICES ASSUME l+1 <= m PROVE s[l+1] = u[l+1]
    OBVIOUS
  <2>1. l+1 \in 0..n /\ l+1 \in 0..m /\ l+1 # 0 /\ (l+1)-1 = l /\ s[l] = u[l]
    OBVIOUS
  <2>2. s[l+1] = Behind(s[l], JoinRow(l)) /\ u[l+1] = Behind(u[l], JoinRow(l))
    BY <2>1 DEF IsJoined
  <2> QED
    BY <2>1, <2>2
<1> HIDE DEF S
<1>3. S = Nat
  <2>1. S \subseteq Nat
    BY DEF S
  <2> QED
    BY <1>1, <1>2, <2>1, Induct
<1> QED
  BY <1>3 DEF S

\* Joined one row at a time.
LEMMA JoinedSteps ==
  /\ Joined(0) = <<>>
  /\ \A n \in Nat : Joined(n+1) = Joined(n) \o JoinRow(n)
<1> DEFINE s(n) == CHOOSE u : IsJoined(u, n)
<1>1. \A n : Joined(n) = s(n)[n]
  BY DEF Joined, IsJoined, Behind
<1>2. \A n \in Nat : IsJoined(s(n), n)
  BY JoinedExists
<1> HIDE DEF s
<1>3. s(0)[0] = <<>>
  BY <1>2 DEF IsJoined
<1>4. ASSUME NEW n \in Nat PROVE s(n+1)[n+1] = Behind(s(n)[n], JoinRow(n))
  <2>1. n+1 \in Nat /\ n \in 0..n+1 /\ IsJoined(s(n+1), n+1) /\ IsJoined(s(n), n)
    BY <1>2
  <2>2. s(n+1)[n] = s(n)[n]
    BY <2>1, JoinedUnique
  <2>3. s(n+1)[n+1] = Behind(s(n+1)[n], JoinRow(n))
    <3>1. n+1 \in 0..n+1 /\ n+1 # 0 /\ (n+1)-1 = n
      OBVIOUS
    <3> QED
      BY <2>1, <3>1 DEF IsJoined
  <2> QED
    BY <2>2, <2>3
<1> QED
  BY <1>1, <1>3, <1>4 DEF Behind

-----------------------------------------------------------------------------
\* The items of a bucket, in the order they are looked at.
LEMMA Chains ==
  ASSUME NEW a, NEW b, NEW c
  PROVE  /\ DOMAIN (<<a>> \o <<>>) = 1..1 /\ (<<a>> \o <<>>)[1] = a
         /\ DOMAIN (<<a>> \o <<b>>) = 1..2 /\ (<<a>> \o <<b>>)[1] = a /\ (<<a>> \o <<b>>)[2] = b
         /\ DOMAIN (<<a>> \o <<b, c>>) = 1..3
         /\ (<<a>> \o <<b, c>>)[1] = a /\ (<<a>> \o <<b, c>>)[2] = b /\ (<<a>> \o <<b, c>>)[3] = c
<1> DEFINE S == {a, b, c}
<1>1. /\ <<a>> \in Seq(S) /\ <<b>> \in Seq(S) /\ <<b, c>> \in Seq(S) /\ <<>> \in Seq(S)
      /\ Len(<<a>>) = 1 /\ Len(<<b>>) = 1 /\ Len(<<b, c>>) = 2 /\ Len(<<>>) = 0
  OBVIOUS
<1>2. \A s, u \in Seq(S) :
        /\ DOMAIN (s \o u) = 1..Len(s) + Len(u)
        /\ \A n \in 1..Len(s) + Len(u) : (s \o u)[n] = IF n <= Len(s) THEN s[n] ELSE u[n - Len(s)]
  OBVIOUS
<1> HIDE DEF S
<1>3. DOMAIN (<<a>> \o <<>>) = 1..1 /\ (<<a>> \o <<>>)[1] = a
  BY <1>1, <1>2
<1>4. DOMAIN (<<a>> \o <<b>>) = 1..2 /\ (<<a>> \o <<b>>)[1] = a /\ (<<a>> \o <<b>>)[2] = b
  BY <1>1, <1>2
<1>5. /\ DOMAIN (<<a>> \o <<b, c>>) = 1..3
      /\ (<<a>> \o <<b, c>>)[1] = a /\ (<<a>> \o <<b, c>>)[2] = b /\ (<<a>> \o <<b, c>>)[3] = c
  BY <1>1, <1>2
<1> QED
  BY <1>3, <1>4, <1>5

LEMMA FourApart ==
  ASSUME NEW S, IsFiniteSet(S), Cardinality(S) <= 3,
         NEW a \in S, NEW b \in S, NEW c \in S, NEW d \in S,
         a # b, a # c, a # d, b # c, b # d, c # d
  PROVE  FALSE
<1>1. IsFiniteSet({}) /\ Cardinality({}) = 0
  BY FS_EmptySet
<1>2. IsFiniteSet({a}) /\ Cardinality({a}) = 1
  BY FS_Singleton
<1>3. IsFiniteSet({a} \cup {b}) /\ Cardinality({a} \cup {b}) = 2
  <2>1. b \notin {a}
    OBVIOUS
  <2> QED
    BY <1>2, <2>1, FS_AddElement
<1>4. IsFiniteSet({a} \cup {b} \cup {c}) /\ Cardinality({a} \cup {b} \cup {c}) = 3
  <2>1. c \notin {a} \cup {b}
    OBVIOUS
  <2> QED
    BY <1>3, <2>1, FS_AddElement
<1>5. Cardinality({a} \cup {b} \cup {c} \cup {d}) = 4
  <2>1. d \notin {a} \cup {b} \cup {c}
    OBVIOUS
  <2> QED
    BY <1>4, <2>1, FS_AddElement
<1>6. Cardinality({a} \cup {b} \cup {c} \cup {d}) <= Cardinality(S)
  BY FS_Subset
<1>7. Cardinality(S) \in Nat
  BY FS_CardinalityType
<1> QED
  BY <1>5, <1>6, <1>7

\* The bucket has the items of the rows R[1], ..., R[m], in this order.
Holds(t, b, R, m) ==
  LET chain == t.items[b] \o t.overflow_buckets[b]
  IN  /\ t.items[b] # <<>>
      /\ DOMAIN chain = 1..m
      /\ \A n \in 1..m : chain[n] = Item(R[n])

\* A search looks at one after the other.
LEMMA SearchChain ==
  ASSUME NEW t, NEW k, NEW R, NEW m \in Nat, Holds(t, hash_function(k), R, m),
         \A n, l \in 1..m : Table1(R[n], 0) = Table1(R[l], 0) => n = l
  PROVE  ht_search(t, k) = {Columns(R[n]) : n \in {l \in 1..m : Table1(R[l], 0) = k}}
<1> DEFINE chain == t.items[hash_function(k)] \o t.overflow_buckets[hash_function(k)]
           hits == {n \in DOMAIN chain : chain[n].key = k}
           own  == {l \in 1..m : Table1(R[l], 0) = k}
<1>0. /\ t.items[hash_function(k)] # <<>> /\ DOMAIN chain = 1..m
      /\ \A n \in 1..m : chain[n] = Item(R[n])
  BY DEF Holds
<1>1. \A n \in 1..m : chain[n].key = Table1(R[n], 0) /\ chain[n].value = Columns(R[n])
  <2>1. \A r : Item(r).key = Table1(r, 0) /\ Item(r).value = Columns(r)
    BY DEF Item, create_item
  <2> QED
    BY <1>0, <2>1
<1>2. hits = own
  BY <1>0, <1>1
<1>3. {n \in hits : \A h \in hits : n <= h} = own
  <2>1. \A n, h \in own : n = h
    BY Zenon
  <2>2. \A n, h \in own : n <= h
    BY <2>1
  <2> QED
    BY <1>2, <2>2, Zenon
<1>4. ht_search(t, k) = {chain[n].value : n \in {x \in hits : \A h \in hits : x <= h}}
  BY <1>0 DEF ht_search
<1> HIDE DEF chain
<1>5. ht_search(t, k) = {chain[n].value : n \in own}
  BY <1>3, <1>4
<1>6. own \subseteq 1..m
  OBVIOUS
<1> HIDE DEF hits, own
<1>7. ht_search(t, k) = {Columns(R[n]) : n \in own}
  <2>1. \A n \in own : chain[n].value = Columns(R[n])
    BY <1>1, <1>6
  <2>2. {chain[n].value : n \in own} = {Columns(R[n]) : n \in own}
    BY ONLY <2>1
  <2> QED
    BY ONLY <1>5, <2>2
<1> QED
  BY <1>7 DEF own

\* A search in a table that lost nothing finds the row with the key.
LEMMA Finds ==
  ASSUME run \in Run, Hashable, NEW t, KeepsThree(t, row_count), NEW k \in Nat
  PROVE  ht_search(t, k) = {Columns(q) : q \in {r \in 0..row_count-1 : Table1(r, 0) = k}}
<1> DEFINE h   == hash_function(k)
           B   == InBucket(h, row_count)
           own == {r \in 0..row_count-1 : Table1(r, 0) = k}
<1>1. h \in Bucket /\ row_count \in Nat
  BY Buckets, Shape
<1>2. /\ \A r, q \in B : Table1(r, 0) = Table1(q, 0) => r = q
      /\ B \subseteq 0..row_count-1
      /\ own = {r \in B : Table1(r, 0) = k}
  BY DEF InBucket, Hashable
<1>3. IsFiniteSet(B) /\ Cardinality(B) <= 3
  <2>1. IsFiniteSet(0..row_count-1)
    BY <1>1, FS_Interval
  <2> QED
    BY <1>1, <1>2, <2>1, FS_Subset DEF Hashable
<1>4. \/ B = {} /\ t.items[h] = <<>>
      \/ \E f \in B :
           /\ t.items[h] = <<Item(f)>>
           /\ \/ Beside(f, h, row_count) = {} /\ t.overflow_buckets[h] = <<>>
              \/ \E x, y \in Beside(f, h, row_count) :
                   /\ Least(x, Beside(f, h, row_count)) /\ Greatest(y, Beside(f, h, row_count))
                   /\ t.overflow_buckets[h] = ListOf(x, y)
  BY <1>1 DEF KeepsThree
<1>5. \A f \in B : Beside(f, h, row_count) = B \ {f}
  BY <1>2 DEF Beside
<1> HIDE DEF h, B
<1>6. CASE B = {} /\ t.items[h] = <<>>
  <2>1. ht_search(t, k) = {}
    BY <1>6 DEF ht_search, h
  <2> QED
    BY <1>2, <1>6, <2>1
<1>7. ASSUME NEW R, NEW m \in Nat, Holds(t, h, R, m),
             \A n, l \in 1..m : R[n] = R[l] => n = l,
             B = {R[n] : n \in 1..m}
      PROVE  ht_search(t, k) = {Columns(q) : q \in own}
  <2>1. \A n, l \in 1..m : Table1(R[n], 0) = Table1(R[l], 0) => n = l
    BY <1>2, <1>7
  <2>2. ht_search(t, k) = {Columns(R[n]) : n \in {l \in 1..m : Table1(R[l], 0) = k}}
    BY <1>7, <2>1, SearchChain DEF h
  <2>3. own = {R[n] : n \in {l \in 1..m : Table1(R[l], 0) = k}}
    BY <1>2, <1>7
  <2> QED
    BY <2>2, <2>3
<1>8. ASSUME NEW f \in B, t.items[h] = <<Item(f)>>,
             \/ Beside(f, h, row_count) = {} /\ t.overflow_buckets[h] = <<>>
             \/ \E x, y \in Beside(f, h, row_count) :
                  /\ Least(x, Beside(f, h, row_count)) /\ Greatest(y, Beside(f, h, row_count))
                  /\ t.overflow_buckets[h] = ListOf(x, y)
      PROVE  ht_search(t, k) = {Columns(q) : q \in own}
  <2> DEFINE chain == t.items[h] \o t.overflow_buckets[h]
  <2>1. t.items[h] # <<>>
    BY <1>8
  <2>2. CASE Beside(f, h, row_count) = {} /\ t.overflow_buckets[h] = <<>>
    <3> DEFINE R == <<f>>
    <3>1. DOMAIN chain = 1..1 /\ chain[1] = Item(f)
      BY <1>8, <2>2, Chains
    <3>2. B = {R[n] : n \in 1..1} /\ R[1] = f
      BY <1>5, <2>2
    <3> HIDE DEF chain, R
    <3>3. Holds(t, h, R, 1)
      <4>1. \A n \in 1..1 : chain[n] = Item(R[n])
        BY <3>1, <3>2
      <4> QED
        BY <2>1, <3>1, <4>1 DEF Holds, chain
    <3>4. \A n, l \in 1..1 : R[n] = R[l] => n = l
      OBVIOUS
    <3> QED
      BY <1>7, <3>2, <3>3, <3>4
  <2>3. ASSUME NEW x \in Beside(f, h, row_count), NEW y \in Beside(f, h, row_count),
               Least(x, Beside(f, h, row_count)), Greatest(y, Beside(f, h, row_count)),
               t.overflow_buckets[h] = ListOf(x, y)
        PROVE  ht_search(t, k) = {Columns(q) : q \in own}
    <3>1. x \in B /\ y \in B /\ x # f /\ y # f
      BY <1>5
    <3>2. \A z \in B : z = f \/ (x <= z /\ z <= y)
      BY <1>5, <2>3 DEF Least, Greatest
    <3>3. CASE x = y
      <4> DEFINE R == <<f, x>>
      <4>1. t.overflow_buckets[h] = <<Item(x)>>
        BY <2>3, <3>3 DEF ListOf
      <4>2. DOMAIN chain = 1..2 /\ chain[1] = Item(f) /\ chain[2] = Item(x)
        BY <1>8, <4>1, Chains
      <4>3. R[1] = f /\ R[2] = x
        OBVIOUS
      <4>4. B = {f, x}
        <5>1. \A z \in B : z = f \/ z = x
          BY <1>1, <1>2, <3>1, <3>2, <3>3
        <5> QED
          BY <3>1, <5>1
      <4> HIDE DEF chain, R
      <4>5. \A n \in 1..2 : chain[n] = Item(R[n])
        BY <4>2, <4>3
      <4>6. /\ \A n, l \in 1..2 : R[n] = R[l] => n = l
            /\ B = {R[n] : n \in 1..2}
        BY <3>1, <4>2, <4>3, <4>4
      <4>7. Holds(t, h, R, 2)
        BY <2>1, <4>2, <4>5 DEF Holds, chain
      <4> QED
        BY <1>7, <4>6, <4>7
    <3>4. CASE x # y
      <4> DEFINE R == <<f, x, y>>
      <4>1. t.overflow_buckets[h] = <<Item(x), Item(y)>>
        BY <2>3, <3>4 DEF ListOf
      <4>2. DOMAIN chain = 1..3 /\ chain[1] = Item(f) /\ chain[2] = Item(x) /\ chain[3] = Item(y)
        BY <1>8, <4>1, Chains
      <4>3. R[1] = f /\ R[2] = x /\ R[3] = y
        OBVIOUS
      <4>4. B = {f, x, y}
        <5>1. \A z \in B : z \in {f, x, y}
          BY <1>3, <3>1, <3>4, FourApart
        <5> QED
          BY <3>1, <5>1
      <4> HIDE DEF chain, R
      <4>5. \A n \in 1..3 : chain[n] = Item(R[n])
        BY <4>2, <4>3
      <4>6. /\ \A n, l \in 1..3 : R[n] = R[l] => n = l
            /\ B = {R[n] : n \in 1..3}
        BY <3>1, <3>4, <4>2, <4>3, <4>4
      <4>7. Holds(t, h, R, 3)
        BY <2>1, <4>2, <4>5 DEF Holds, chain
      <4> QED
        BY <1>7, <4>6, <4>7
    <3> QED
      BY <3>3, <3>4
  <2> QED
    BY <1>8, <2>2, <2>3
<1> QED
  BY <1>4, <1>6, <1>8

-----------------------------------------------------------------------------
\* The words of a match, of e columns in each table, one by one.
Match(a, u, v) == <<a>> \o u \o <<a>> \o v

Word(e, a, u, v, m) ==
  IF m = 1 THEN a ELSE IF m <= e THEN u[m-1] ELSE IF m = e+1 THEN a ELSE v[m-e-1]

LEMMA Words ==
  ASSUME NEW e \in Nat \ {0}, NEW a \in Nat,
         NEW u \in [1..e-1 -> Nat], NEW v \in [1..e-1 -> Nat]
  PROVE  /\ Match(a, u, v) \in Seq(Nat) /\ Len(Match(a, u, v)) = 2*e
         /\ \A m \in 1..2*e : Match(a, u, v)[m] = Word(e, a, u, v, m)
<1>1. <<a>> \in Seq(Nat) /\ Len(<<a>>) = 1 /\ <<a>>[1] = a
  OBVIOUS
<1>2. u \in Seq(Nat) /\ Len(u) = e-1 /\ v \in Seq(Nat) /\ Len(v) = e-1
  <2>1. e-1 \in Nat
    OBVIOUS
  <2> QED
    BY <2>1
<1> DEFINE x == <<a>> \o u
           y == x \o <<a>>
           z == y \o v
<1>3. x \in Seq(Nat) /\ Len(x) = e /\ \A m \in 1..e : x[m] = IF m <= 1 THEN <<a>>[m] ELSE u[m-1]
  BY <1>1, <1>2, ConcatProperties
<1> HIDE DEF x
<1>4. /\ y \in Seq(Nat) /\ Len(y) = e+1
      /\ \A m \in 1..e+1 : y[m] = IF m <= e THEN x[m] ELSE <<a>>[m-e]
  BY <1>1, <1>3, ConcatProperties
<1> HIDE DEF y
<1>5. /\ z \in Seq(Nat) /\ Len(z) = 2*e
      /\ \A m \in 1..2*e : z[m] = IF m <= e+1 THEN y[m] ELSE v[m-(e+1)]
  <2>1. Len(y) + Len(v) = 2*e
    BY <1>2, <1>4
  <2>2. /\ y \o v \in Seq(Nat) /\ Len(y \o v) = Len(y) + Len(v)
        /\ \A m \in 1..Len(y) + Len(v) : (y \o v)[m] = IF m <= Len(y) THEN y[m] ELSE v[m - Len(y)]
    BY <1>2, <1>4, ConcatProperties, Zenon
  <2> QED
    BY <1>4, <2>1, <2>2
<1> HIDE DEF z
<1>6. ASSUME NEW m \in 1..2*e PROVE z[m] = Word(e, a, u, v, m)
  <2>1. CASE m <= e
    <3>1. m \in 1..e /\ m \in 1..e+1 /\ m <= e+1
      BY <2>1
    <3>2. z[m] = x[m]
      BY <1>4, <1>5, <2>1, <3>1
    <3>3. x[m] = IF m = 1 THEN a ELSE u[m-1]
      BY <1>1, <1>3, <3>1
    <3> QED
      BY <2>1, <3>2, <3>3 DEF Word
  <2>2. CASE m = e+1
    BY <1>1, <1>4, <1>5, <2>2 DEF Word
  <2>3. CASE m > e+1
    BY <1>5, <2>3 DEF Word
  <2> QED
    BY <2>1, <2>2, <2>3
<1> QED
  BY <1>5, <1>6 DEF x, y, z, Match

\* The words that row r of the second table and row q of the first make.
LEMMA MatchRow ==
  ASSUME run \in Run, NEW r \in Nat, NEW q \in Nat, Table1(q, 0) = Table2(r, 0)
  PROVE  LET k     == Table2(r, 0)
             words == <<k>> \o Columns(q) \o <<k>> \o [j \in 1..enabled-1 |-> Table2(r, j)]
         IN  /\ words \in Seq(Nat)
             /\ words = [m \in 1..2*enabled |-> IF m <= enabled THEN Table1(q, m-1)
                                                ELSE Table2(r, m-enabled-1)]
<1> DEFINE k == Table2(r, 0)
           e == enabled
           v == [j \in 1..e-1 |-> Table2(r, j)]
           words == <<k>> \o Columns(q) \o <<k>> \o v
<1>1. e \in Nat \ {0} /\ k \in Nat
  BY Shape, ColumnIsNat
<1>2. Columns(q) = [j \in 1..e-1 |-> Table1(q, j)]
  BY DEF Columns
<1>3. \A j \in Nat : Table1(q, j) \in Nat /\ Table2(r, j) \in Nat
  BY ColumnIsNat
<1> HIDE DEF k, e
<1>4. Columns(q) \in [1..e-1 -> Nat] /\ v \in [1..e-1 -> Nat]
  <2>1. \A j \in 1..e-1 : j \in Nat
    BY <1>1
  <2>2. \A j \in 1..e-1 : Table1(q, j) \in Nat /\ Table2(r, j) \in Nat
    BY <1>3, <2>1
  <2> QED
    BY ONLY <1>2, <2>2
<1> HIDE DEF v
<1>5. /\ words \in Seq(Nat) /\ Len(words) = 2*e
      /\ \A m \in 1..2*e : words[m] = Word(e, k, Columns(q), v, m)
  <2>1. words = Match(k, Columns(q), v)
    BY DEF Match
  <2> HIDE DEF words
  <2> QED
    BY <1>1, <1>4, <2>1, Words
<1>6. ASSUME NEW m \in 1..2*e
      PROVE  Word(e, k, Columns(q), v, m) = IF m <= e THEN Table1(q, m-1) ELSE Table2(r, m-e-1)
  <2>1. CASE m = 1
    BY <1>1, <2>1 DEF k, Word
  <2>2. CASE m # 1 /\ m <= e
    <3>1. m-1 \in 1..e-1
      BY <1>1, <2>2
    <3>2. Columns(q)[m-1] = Table1(q, m-1)
      BY <1>2, <3>1
    <3> QED
      BY <2>2, <3>2 DEF Word
  <2>3. CASE m = e+1
    <3>1. m-e-1 = 0 /\ ~(m <= e) /\ m # 1
      BY <1>1, <2>3
    <3> QED
      BY <2>3, <3>1 DEF k, Word
  <2>4. CASE m > e+1
    <3>1. m-e-1 \in 1..e-1 /\ ~(m <= e) /\ m # 1 /\ m # e+1
      BY <1>1, <2>4
    <3>2. v[m-e-1] = Table2(r, m-e-1)
      BY <3>1 DEF v
    <3> QED
      BY <3>1, <3>2 DEF Word
  <2> QED
    BY <1>1, <2>1, <2>2, <2>3, <2>4
<1>7. words = [m \in 1..2*e |-> IF m <= e THEN Table1(q, m-1) ELSE Table2(r, m-e-1)]
  <2> HIDE DEF words
  <2>1. words = [m \in 1..2*e |-> words[m]]
    BY <1>5
  <2> QED
    BY <1>5, <1>6, <2>1
<1> QED
  BY <1>5, <1>7 DEF k, e, v, words

LEMMA JoinRowIsSeq ==
  ASSUME run \in Run, NEW r \in 0..row_count-1
  PROVE  JoinRow(r) \in Seq(Nat)
<1>1. CASE Partners(r) = {}
  BY <1>1 DEF JoinRow
<1>2. CASE Partners(r) # {}
  <2>1. PICK q : q = CHOOSE p \in Partners(r) : TRUE
    OBVIOUS
  <2>2. q \in Partners(r)
    BY <1>2, <2>1
  <2>3. q \in Nat /\ r \in Nat /\ Table1(q, 0) = Table2(r, 0)
    BY <2>2, Shape DEF Partners
  <2>4. JoinRow(r) = [m \in 1..2*enabled |-> IF m <= enabled THEN Table1(q, m-1)
                                             ELSE Table2(r, m-enabled-1)]
    BY <1>2, <2>1 DEF JoinRow
  <2> DEFINE words == <<Table2(r, 0)>> \o Columns(q) \o <<Table2(r, 0)>>
                        \o [j \in 1..enabled-1 |-> Table2(r, j)]
  <2>5. /\ words \in Seq(Nat)
        /\ words = [m \in 1..2*enabled |-> IF m <= enabled THEN Table1(q, m-1)
                                           ELSE Table2(r, m-enabled-1)]
    BY <2>3, MatchRow, Zenon
  <2> HIDE DEF words
  <2> QED
    BY <2>4, <2>5
<1> QED
  BY <1>1, <1>2

LEMMA JoinedIsSeq ==
  ASSUME run \in Run, NEW n \in 0..row_count
  PROVE  Joined(n) \in Seq(Nat)
<1> DEFINE S == {m \in Nat : m <= row_count => Joined(m) \in Seq(Nat)}
<1>1. 0 \in S
  <2>1. Joined(0) = <<>> /\ <<>> \in Seq(Nat)
    BY JoinedSteps
  <2> QED
    BY <2>1
<1>2. ASSUME NEW m \in S PROVE m+1 \in S
  <2> SUFFICES ASSUME m+1 <= row_count PROVE Joined(m+1) \in Seq(Nat)
    OBVIOUS
  <2>1. m \in 0..row_count-1 /\ Joined(m) \in Seq(Nat)
    BY Shape
  <2>2. Joined(m+1) = Joined(m) \o JoinRow(m) /\ JoinRow(m) \in Seq(Nat)
    BY <2>1, JoinedSteps, JoinRowIsSeq
  <2> QED
    BY <2>1, <2>2, ConcatProperties
<1> HIDE DEF S
<1>3. S = Nat
  <2>1. S \subseteq Nat
    BY DEF S
  <2> QED
    BY <1>1, <1>2, <2>1, Induct
<1>4. n \in Nat /\ n <= row_count
  BY Shape
<1> QED
  BY <1>3, <1>4 DEF S

\* A turn of the probing loops appends the match of its row, if it has one.
LEMMA ProbeAppends ==
  ASSUME run \in Run, Hashable, pc \in {"probe", "probe_dram"},
         InWindow(pc) \/ off(0) = 0, i \in 0..row_count-1,
         NEW t, KeepsThree(t, row_count), NEW result \in Seq(Nat), NEW new,
         Probed(t, result, new)
  PROVE  new = result \o JoinRow(i)
<1> DEFINE k == Table2(i, 0)
           v == [j \in 1..enabled-1 |-> Table2(i, j)]
           row(q) == <<k>> \o Columns(q) \o <<k>> \o v
<1>1. i \in Nat /\ row_count \in Nat /\ k \in Nat
  BY Shape, ColumnIsNat
<1>2. key(i) = k /\ arr(i) = v
  BY Reads DEF Stored
<1>3. ht_search(t, k) = {Columns(q) : q \in Partners(i)}
  BY <1>1, Finds DEF Partners
<1> HIDE DEF k, v
<1>4. Matches(t) = {row(q) : q \in Partners(i)}
  BY <1>2, <1>3 DEF Matches
<1>5. CASE Partners(i) = {}
  <2>1. Matches(t) = {} /\ JoinRow(i) = <<>>
    BY <1>4, <1>5 DEF JoinRow
  <2>2. new = result
    BY <2>1 DEF Probed
  <2> QED
    BY <2>1, <2>2, ConcatEmptySeq
<1>6. CASE Partners(i) # {}
  <2>1. PICK q : q = CHOOSE p \in Partners(i) : TRUE
    OBVIOUS
  <2>2. q \in Partners(i)
    BY <1>6, <2>1
  <2>3. q \in Nat /\ Table1(q, 0) = Table2(i, 0) /\ \A p \in Partners(i) : p = q
    BY <1>1, <2>2 DEF Partners, Hashable
  <2>4. Matches(t) = {row(q)}
    BY <1>4, <2>2, <2>3
  <2>5. new = result \o row(q)
    BY <2>4 DEF Probed
  <2>6. row(q) = JoinRow(i)
    <3>1. JoinRow(i) = [m \in 1..2*enabled |-> IF m <= enabled THEN Table1(q, m-1)
                                               ELSE Table2(i, m-enabled-1)]
      BY <1>6, <2>1 DEF JoinRow
    <3> QED
      BY <1>1, <2>3, <3>1, MatchRow DEF k, v
  <2> QED
    BY <2>5, <2>6
<1> QED
  BY <1>5, <1>6

-----------------------------------------------------------------------------
\* What the loops have found; nothing before they start.
AnswerInv ==
  /\ pc \in {"build", "build_dram"} => join_result = <<>>
  /\ pc \in {"build", "build_dram", "probe"} => join_result2 = <<>>
  /\ AnswersTheJoin

LEMMA AnswerStays ==
  ASSUME UNCHANGED run
  PROVE  /\ Hashable' <=> Hashable
         /\ \A n : Joined(n)' = Joined(n)
<1>1. Hashable' <=> Hashable
  BY DEF Hashable, InBucket, Table1, row_count, enabled
<1>2. \A n : Joined(n)' = Joined(n)
  BY DEF Joined, JoinRow, Partners, Table1, Table2, row_count, enabled
<1> QED
  BY <1>1, <1>2

LEMMA NextAnswerInv == IInv /\ AnswerInv /\ [Next]_vars => AnswerInv'
<1> SUFFICES ASSUME IInv, AnswerInv, [Next]_vars PROVE AnswerInv'
  OBVIOUS
<1>1. /\ row_count \in Nat /\ run \in Run /\ i \in 0..row_count
      /\ pc \in {"build", "build_dram", "probe", "probe_dram", "done"}
  BY Shape DEF IInv, TypeOK, NeverFull
<1>2. UNCHANGED run
  BY DEF Next, BuildRow, ProbeRow, NextLoop, vars
<1>3. /\ row_count' = row_count /\ off(0)' = off(0)
      /\ Hashable' <=> Hashable
      /\ \A n : Joined(n)' = Joined(n)
  BY <1>2, RunStays, AnswerStays
<1>4. Joined(i)' = Joined(i') /\ Joined(row_count)' = Joined(row_count)
  BY <1>3
<1>5. Joined(0) = <<>> /\ Joined(i+1) = Joined(i) \o JoinRow(i) /\ Joined(i) \in Seq(Nat)
  <2>1. i \in Nat
    BY <1>1
  <2>2. Joined(i) \in Seq(Nat)
    BY <1>1, JoinedIsSeq
  <2>3. Joined(0) = <<>> /\ Joined(i+1) = Joined(i) \o JoinRow(i)
    BY ONLY <2>1, JoinedSteps, Zenon
  <2> QED
    BY <2>2, <2>3
<1>6. CASE BuildRow
  <2>1. /\ pc \in {"build", "build_dram"} /\ pc' \in {pc, "exit"}
        /\ UNCHANGED <<join_result, join_result2>>
    BY <1>6 DEF BuildRow, Build, Insert
  <2> QED
    BY <2>1 DEF AnswerInv, AnswersTheJoin
<1>7. CASE ProbeRow
  <2>1. i \in 0..row_count-1 /\ i' = i+1 /\ UNCHANGED pc
    BY <1>1, <1>7 DEF ProbeRow
  <2>2. CASE pc = "probe" /\ Probed(ht, join_result, join_result') /\ UNCHANGED join_result2
    <3>1. ASSUME Hashable PROVE join_result' = Joined(i+1)
      <4>1. join_result = Joined(i)
        BY <2>2, <3>1 DEF AnswerInv, AnswersTheJoin
      <4>2. KeepsThree(ht, row_count)
        BY <2>2 DEF IInv, HashKeepsThree, Hashed
      <4>3. join_result' = join_result \o JoinRow(i)
        BY <1>1, <1>5, <2>1, <2>2, <3>1, <4>1, <4>2, ProbeAppends DEF InWindow
      <4> QED
        BY <1>5, <4>1, <4>3
    <3> QED
      BY <1>3, <1>4, <2>1, <2>2, <3>1 DEF AnswerInv, AnswersTheJoin
  <2>3. CASE pc = "probe_dram" /\ Probed(ht2, join_result2, join_result2') /\ UNCHANGED join_result
    <3>1. ASSUME Hashable, off(0) = 0 PROVE join_result2' = Joined(i+1)
      <4>1. join_result2 = Joined(i)
        BY <2>3, <3>1 DEF AnswerInv, AnswersTheJoin
      <4>2. KeepsThree(ht2, row_count)
        BY <2>3, <3>1 DEF IInv, HashKeepsThree, Hashed2
      <4>3. join_result2' = join_result2 \o JoinRow(i)
        BY <1>1, <1>5, <2>1, <2>3, <3>1, <4>1, <4>2, ProbeAppends
      <4> QED
        BY <1>5, <4>1, <4>3
    <3> QED
      BY <1>3, <1>4, <2>1, <2>3, <3>1 DEF AnswerInv, AnswersTheJoin
  <2> QED
    BY <1>7, <2>2, <2>3 DEF ProbeRow, Probe
<1>8. CASE NextLoop
  <2>1. /\ pc' = CASE pc = "build" -> "build_dram" [] pc = "build_dram" -> "probe"
                   [] pc = "probe" -> "probe_dram" [] OTHER -> "done"
        /\ i = row_count /\ i' = 0 /\ pc # "done" /\ UNCHANGED <<join_result, join_result2>>
    BY <1>8 DEF NextLoop
  <2>2. CASE pc = "build"
    BY <2>1, <2>2 DEF AnswerInv, AnswersTheJoin
  <2>3. CASE pc = "build_dram"
    BY <1>3, <1>4, <1>5, <2>1, <2>3 DEF AnswerInv, AnswersTheJoin
  <2>4. CASE pc = "probe"
    BY <1>3, <1>4, <1>5, <2>1, <2>4 DEF AnswerInv, AnswersTheJoin
  <2>5. CASE pc = "probe_dram"
    BY <1>3, <1>4, <1>5, <2>1, <2>5 DEF AnswerInv, AnswersTheJoin
  <2> QED
    BY <1>1, <2>1, <2>2, <2>3, <2>4, <2>5
<1>9. CASE UNCHANGED vars
  <2>1. UNCHANGED <<pc, i, join_result, join_result2>>
    BY <1>9 DEF vars
  <2> QED
    BY <1>3, <1>4, <2>1 DEF AnswerInv, AnswersTheJoin
<1> QED
  BY <1>6, <1>7, <1>8, <1>9 DEF Next

\* If T tells the keys of the first table apart and no bucket gets more than
\* three of them, q5 computes the join: its result is that of the query, row
\* after row of the second table, from the window and, with the table's first
\* column enabled first, from DRAM (q5.c, the loops over rows; ht_search).
THEOREM JoinIsRight == Spec => []AnswersTheJoin
<1>1. Init => AnswerInv
  BY DEF Init, AnswerInv, AnswersTheJoin
<1>2. AnswerInv => AnswersTheJoin
  BY DEF AnswerInv
<1> QED
  BY <1>1, <1>2, NextAnswerInv, Invariance, PTL DEF Spec

=============================================================================
