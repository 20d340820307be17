--------------------------- MODULE EdbtQueryProofs ---------------------------
(***************************************************************************)
(* For every table, every offsets and every size of T: the array of q4's   *)
(* groups is large enough, no group is in it twice, and every pass shows   *)
(* what its query asks for.                                                *)
(***************************************************************************)
EXTENDS EdbtQuery, FiniteSetTheorems, SequenceTheorems, WellFoundedInduction, TLAPS

\* The groups are a list, of whatever values, that fits its array.
GroupsInv ==
  /\ \E S : group_array \in Seq(S)
  /\ group_array_capacity \in Nat \ {0}
  /\ GroupsFit

\* What a list of different elements is with one more at its end.
LEMMA OneMoreGroup ==
  ASSUME NEW S, NEW s \in Seq(S), NEW e,
         \A m, n \in DOMAIN s : m # n => s[m] # s[n],
         \A n \in DOMAIN s : s[n] # e
  PROVE  /\ Append(s, e) \in Seq(S \cup {e})
         /\ Len(Append(s, e)) = Len(s) + 1
         /\ \A m, n \in DOMAIN Append(s, e) : m # n => Append(s, e)[m] # Append(s, e)[n]
<1>1. s \in Seq(S \cup {e})
  OBVIOUS
<1>2. /\ Append(s, e) \in Seq(S \cup {e})
      /\ Len(Append(s, e)) = Len(s) + 1
      /\ Len(s) \in Nat
      /\ DOMAIN s = 1..Len(s)
      /\ DOMAIN Append(s, e) = 1..Len(s)+1
      /\ Append(s, e)[Len(s)+1] = e
      /\ \A n \in 1..Len(s) : Append(s, e)[n] = s[n]
  BY <1>1
<1>3. ASSUME NEW m \in 1..Len(s)+1, NEW n \in 1..Len(s)+1, m < n
      PROVE  Append(s, e)[m] # Append(s, e)[n]
  <2>1. m \in 1..Len(s) /\ (n \in 1..Len(s) \/ n = Len(s)+1)
    BY <1>2, <1>3
  <2>2. QED
    BY <1>2, <1>3, <2>1
<1>4. QED
  BY <1>2, <1>3

\* Room holds what is in the array and one more.
LEMMA RoomSuffices ==
  ASSUME Len(group_array) \in Nat, group_array_capacity \in Nat \ {0},
         ~rise => Len(group_array) <= group_array_capacity
  PROVE  Room \in Nat \ {0} /\ (~rise => Len(group_array) + 1 <= Room)
BY DEF Room

\* The head of a pass clears the groups.
LEMMA EmptyFits ==
  ASSUME group_array' = <<>>, group_array_capacity' = FirstCapacity
  PROVE  GroupsInv'
<1>1. <<>> \in Seq({}) /\ Len(<<>>) = 0 /\ DOMAIN <<>> = {}
  OBVIOUS
<1>2. QED
  BY <1>1, EdbtQueryAssumption DEF GroupsInv, GroupsFit, FirstCapacity

\* A turn of q4's outer loop keeps the groups in their array.
LEMMA GroupKeeps == GroupsInv /\ Group /\ UNCHANGED run => GroupsInv'
<1> SUFFICES ASSUME GroupsInv, Group, UNCHANGED run PROVE GroupsInv'
  OBVIOUS
<1> DEFINE key == Field(i, 1) % KeyRange
<1>1. CASE grouped(Field(i, 2)) /\ ~already_grouped(key)
  <2>1. /\ group_array' = Append(group_array, key)
        /\ group_array_capacity' = Room
    BY <1>1 DEF Group
  <2>2. \A n \in DOMAIN group_array : group_array[n] # key
    BY <1>1 DEF already_grouped
  <2> HIDE DEF key
  <2>3. PICK S : group_array \in Seq(S)
    BY DEF GroupsInv
  <2>4. /\ group_array' \in Seq(S \cup {key})
        /\ Len(group_array') = Len(group_array) + 1
        /\ \A m, n \in DOMAIN group_array' : m # n => group_array'[m] # group_array'[n]
    BY <2>1, <2>2, <2>3, OneMoreGroup DEF GroupsInv, GroupsFit
  <2>5. Room \in Nat \ {0} /\ (~rise => Len(group_array) + 1 <= Room)
    BY <2>3, RoomSuffices DEF GroupsInv, GroupsFit
  <2>6. rise' = rise
    BY DEF rise
  <2>7. QED
    BY <2>1, <2>4, <2>5, <2>6 DEF GroupsInv, GroupsFit
<1>2. CASE ~(grouped(Field(i, 2)) /\ ~already_grouped(key))
  BY <1>2 DEF Group, GroupsInv, GroupsFit, rise
<1>3. QED
  BY <1>1, <1>2

\* The groups stay a list that fits, whichever query runs.
LEMMA GroupsInvariance == Spec => []GroupsInv
<1>1. Init => GroupsInv
  <2> SUFFICES ASSUME Init PROVE GroupsInv
    OBVIOUS
  <2>1. <<>> \in Seq({}) /\ Len(<<>>) = 0 /\ DOMAIN <<>> = {}
    OBVIOUS
  <2>2. QED
    BY <2>1, EdbtQueryAssumption DEF Init, GroupsInv, GroupsFit, FirstCapacity
<1>2. GroupsInv /\ [Next]_vars => GroupsInv'
  <2> SUFFICES ASSUME GroupsInv, [Next]_vars PROVE GroupsInv'
    OBVIOUS
  <2>1. CASE Row /\ Group
    BY <2>1, GroupKeeps DEF Row
  <2>2. CASE Row /\ (Project \/ Select \/ SelectSum)
    <3>1. UNCHANGED <<run, group_array, group_array_capacity>>
      BY <2>2 DEF Row, Project, Select, SelectSum
    <3>2. QED
      BY <3>1 DEF GroupsInv, GroupsFit, rise
  <2>3. CASE EndPass
    BY <2>3, EmptyFits DEF EndPass, StartPass
  <2>4. CASE UNCHANGED vars
    BY <2>4 DEF vars, pass_state, GroupsInv, GroupsFit, rise
  <2>5. QED
    BY <2>1, <2>2, <2>3, <2>4 DEF Next, Row
<1>3. QED
  BY <1>1, <1>2, PTL DEF Spec

\* q4 never overruns the array of its groups (EDBT/queries/q4.c 54-73).
THEOREM GroupsAlwaysFit == Spec => []GroupsFit
<1>1. GroupsInv => GroupsFit
  BY DEF GroupsInv
<1>2. QED
  BY <1>1, GroupsInvariance, PTL

-----------------------------------------------------------------------------
\* The loops, by induction on their turns, as ScanProofs has them.

\* A set of naturals that is not empty has a least member.
LEMMA Least ==
  ASSUME NEW T, T \subseteq Nat, T # {}
  PROVE  \E x \in T : \A y \in T : x <= y
<1>1. PICK x \in T : \A y \in T : <<y, x>> \notin OpToRel(<, Nat)
  BY WFMin, NatLessThanWellFounded, Zenon
<1>2. \A y \in T : y \in Nat /\ ~(y < x)
  BY <1>1, Zenon DEF OpToRel
<1>3. QED
  BY <1>2

\* A set of naturals with 0, and with the successor of each of its members, is
\* Nat.
LEMMA Induct ==
  ASSUME NEW S, S \subseteq Nat, 0 \in S, \A n \in S : n+1 \in S
  PROVE  S = Nat
<1> SUFFICES ASSUME S # Nat PROVE FALSE
  OBVIOUS
<1>1. PICK x \in Nat \ S : \A y \in Nat \ S : x <= y
  BY Least
<1>2. x-1 \in Nat \ S
  BY <1>1
<1>3. QED
  BY <1>1, <1>2

-----------------------------------------------------------------------------
\* The function by which Sum is defined exists, and is the same for every
\* number of turns as far as both go.
IsSum(s, f, n) == s = [m \in 0..n |-> IF m = 0 THEN 0 ELSE s[m-1] + f[m]]

\* ... it exists,
LEMMA SumExists == \A f : \A n \in Nat : \E s : IsSum(s, f, n)
<1> TAKE f
<1> DEFINE S == {n \in Nat : \E s : IsSum(s, f, n)}
<1>1. 0 \in S
  <2>1. IsSum([m \in 0..0 |-> 0], f, 0)
    BY DEF IsSum
  <2>2. QED
    BY <2>1
<1>2. ASSUME NEW n \in S PROVE n+1 \in S
  <2>1. PICK s : IsSum(s, f, n)
    OBVIOUS
  <2> DEFINE t == [m \in 0..n+1 |-> IF m = n+1 THEN s[n] + f[n+1] ELSE s[m]]
  <2>2. \A m \in 0..n+1 : t[m] = IF m = 0 THEN 0 ELSE t[m-1] + f[m]
    <3> TAKE m \in 0..n+1
    <3>1. CASE m = 0
      BY <2>1, <3>1 DEF IsSum
    <3>2. CASE m \in 1..n
      <4>1. t[m] = s[m] /\ t[m-1] = s[m-1] /\ m # 0
        BY <3>2
      <4>2. s[m] = s[m-1] + f[m]
        BY <2>1, <3>2 DEF IsSum
      <4>3. QED
        BY <4>1, <4>2
    <3>3. CASE m = n+1
      BY <3>3
    <3>4. QED
      BY <3>1, <3>2, <3>3
  <2>3. t = [m \in 0..n+1 |-> t[m]]
    OBVIOUS
  <2> HIDE DEF t
  <2>4. IsSum(t, f, n+1)
    BY <2>2, <2>3 DEF IsSum
  <2>5. QED
    BY <2>4
<1> HIDE DEF S
<1>3. S = Nat
  <2>1. S \subseteq Nat
    BY DEF S
  <2>2. QED
    BY <1>1, <1>2, <2>1, Induct
<1>4. QED
  BY <1>3 DEF S

\* ... and agrees with that of fewer turns.
LEMMA SumUnique ==
  ASSUME NEW f, NEW n \in Nat, NEW m \in 0..n,
         NEW s, IsSum(s, f, n), NEW t, IsSum(t, f, m)
  PROVE  s[m] = t[m]
<1> DEFINE S == {l \in Nat : l <= m => s[l] = t[l]}
<1>1. 0 \in S
  BY DEF IsSum
<1>2. ASSUME NEW l \in S PROVE l+1 \in S
  <2> SUFFICES ASSUME l+1 <= m PROVE s[l+1] = t[l+1]
    OBVIOUS
  <2>1. l+1 \in 0..n /\ l+1 \in 0..m /\ l+1 # 0 /\ (l+1)-1 = l /\ s[l] = t[l]
    OBVIOUS
  <2>2. s[l+1] = s[l] + f[l+1] /\ t[l+1] = t[l] + f[l+1]
    BY <2>1 DEF IsSum
  <2>3. QED
    BY <2>1, <2>2
<1> HIDE DEF S
<1>3. S = Nat
  <2>1. S \subseteq Nat
    BY DEF S
  <2>2. QED
    BY <1>1, <1>2, <2>1, Induct
<1>4. QED
  BY <1>3 DEF S

\* Sum one turn at a time.
LEMMA SumSteps ==
  ASSUME NEW f
  PROVE  /\ Sum(f, 0) = 0
         /\ \A n \in Nat : Sum(f, n+1) = Sum(f, n) + f[n+1]
<1> DEFINE s(n) == CHOOSE t : IsSum(t, f, n)
<1>1. \A n : Sum(f, n) = s(n)[n]
  BY DEF Sum, IsSum
<1>2. \A n \in Nat : IsSum(s(n), f, n)
  BY SumExists
<1> HIDE DEF s
<1>3. s(0)[0] = 0
  BY <1>2 DEF IsSum
<1>4. ASSUME NEW n \in Nat PROVE s(n+1)[n+1] = s(n)[n] + f[n+1]
  <2>1. n+1 \in Nat /\ n \in 0..n+1 /\ IsSum(s(n+1), f, n+1) /\ IsSum(s(n), f, n)
    BY <1>2
  <2>2. s(n+1)[n] = s(n)[n]
    BY <2>1, SumUnique
  <2>3. s(n+1)[n+1] = s(n+1)[n] + f[n+1]
    BY <2>1 DEF IsSum
  <2>4. QED
    BY <2>2, <2>3
<1>5. QED
  BY <1>1, <1>3, <1>4

-----------------------------------------------------------------------------
\* The function by which Concat is defined exists, and is the same for every
\* number of turns as far as both go.
Behind(a, b) == a \o b

IsConcat(s, f, n) == s = [m \in 0..n |-> IF m = 0 THEN <<>> ELSE Behind(s[m-1], f[m])]

\* ... it exists,
LEMMA ConcatExists == \A f : \A n \in Nat : \E s : IsConcat(s, f, n)
<1> TAKE f
<1> DEFINE S == {n \in Nat : \E s : IsConcat(s, f, n)}
<1>1. 0 \in S
  <2>1. IsConcat([m \in 0..0 |-> <<>>], f, 0)
    BY DEF IsConcat
  <2>2. QED
    BY <2>1
<1>2. ASSUME NEW n \in S PROVE n+1 \in S
  <2>1. PICK s : IsConcat(s, f, n)
    OBVIOUS
  <2> DEFINE t == [m \in 0..n+1 |-> IF m = n+1 THEN Behind(s[n], f[n+1]) ELSE s[m]]
  <2>2. \A m \in 0..n+1 : t[m] = IF m = 0 THEN <<>> ELSE Behind(t[m-1], f[m])
    <3> TAKE m \in 0..n+1
    <3>1. CASE m = 0
      BY <2>1, <3>1 DEF IsConcat
    <3>2. CASE m \in 1..n
      <4>1. t[m] = s[m] /\ t[m-1] = s[m-1] /\ m # 0
        BY <3>2
      <4>2. s[m] = Behind(s[m-1], f[m])
        BY <2>1, <3>2 DEF IsConcat
      <4>3. QED
        BY <4>1, <4>2
    <3>3. CASE m = n+1
      BY <3>3
    <3>4. QED
      BY <3>1, <3>2, <3>3
  <2>3. t = [m \in 0..n+1 |-> t[m]]
    OBVIOUS
  <2> HIDE DEF t
  <2>4. IsConcat(t, f, n+1)
    BY <2>2, <2>3 DEF IsConcat
  <2>5. QED
    BY <2>4
<1> HIDE DEF S
<1>3. S = Nat
  <2>1. S \subseteq Nat
    BY DEF S
  <2>2. QED
    BY <1>1, <1>2, <2>1, Induct
<1>4. QED
  BY <1>3 DEF S

\* ... and agrees with that of fewer turns.
LEMMA ConcatUnique ==
  ASSUME NEW f, NEW n \in Nat, NEW m \in 0..n,
         NEW s, IsConcat(s, f, n), NEW t, IsConcat(t, f, m)
  PROVE  s[m] = t[m]
<1> DEFINE S == {l \in Nat : l <= m => s[l] = t[l]}
<1>1. 0 \in S
  BY DEF IsConcat
<1>2. ASSUME NEW l \in S PROVE l+1 \in S
  <2> SUFFICES ASSUME l+1 <= m PROVE s[l+1] = t[l+1]
    OBVIOUS
  <2>1. l+1 \in 0..n /\ l+1 \in 0..m /\ l+1 # 0 /\ (l+1)-1 = l /\ s[l] = t[l]
    OBVIOUS
  <2>2. s[l+1] = Behind(s[l], f[l+1]) /\ t[l+1] = Behind(t[l], f[l+1])
    BY <2>1 DEF IsConcat
  <2>3. QED
    BY <2>1, <2>2
<1> HIDE DEF S
<1>3. S = Nat
  <2>1. S \subseteq Nat
    BY DEF S
  <2>2. QED
    BY <1>1, <1>2, <2>1, Induct
<1>4. QED
  BY <1>3 DEF S

\* Concat one turn at a time.
LEMMA ConcatSteps ==
  ASSUME NEW f
  PROVE  /\ Concat(f, 0) = <<>>
         /\ \A n \in Nat : Concat(f, n+1) = Concat(f, n) \o f[n+1]
<1> DEFINE s(n) == CHOOSE t : IsConcat(t, f, n)
<1>1. \A n : Concat(f, n) = s(n)[n]
  BY DEF Concat, IsConcat, Behind
<1>2. \A n \in Nat : IsConcat(s(n), f, n)
  BY ConcatExists
<1> HIDE DEF s
<1>3. s(0)[0] = <<>>
  BY <1>2 DEF IsConcat
<1>4. ASSUME NEW n \in Nat PROVE s(n+1)[n+1] = Behind(s(n)[n], f[n+1])
  <2>1. n+1 \in Nat /\ n \in 0..n+1 /\ IsConcat(s(n+1), f, n+1) /\ IsConcat(s(n), f, n)
    BY <1>2
  <2>2. s(n+1)[n] = s(n)[n]
    BY <2>1, ConcatUnique
  <2>3. s(n+1)[n+1] = Behind(s(n+1)[n], f[n+1])
    BY <2>1 DEF IsConcat
  <2>4. QED
    BY <2>2, <2>3
<1>5. QED
  BY <1>1, <1>3, <1>4 DEF Behind

-----------------------------------------------------------------------------
\* Sums of natural numbers are natural numbers, and grow.
LEMMA SumNat ==
  ASSUME NEW f, NEW n \in Nat, \A m \in 1..n : f[m] \in Nat
  PROVE  /\ \A m \in 0..n : Sum(f, m) \in Nat
         /\ \A m \in 0..n-1 : Sum(f, m+1) = Sum(f, m) + f[m+1]
<1> DEFINE S == {m \in Nat : m <= n => Sum(f, m) \in Nat}
<1>0. Sum(f, 0) = 0 /\ \A m \in Nat : Sum(f, m+1) = Sum(f, m) + f[m+1]
  BY SumSteps
<1> HIDE DEF Sum
<1>1. 0 \in S
  BY <1>0
<1>2. ASSUME NEW m \in S PROVE m+1 \in S
  <2> SUFFICES ASSUME m+1 <= n PROVE Sum(f, m+1) \in Nat
    OBVIOUS
  <2>1. m \in Nat /\ Sum(f, m) \in Nat /\ m+1 \in 1..n
    OBVIOUS
  <2>2. f[m+1] \in Nat
    BY <2>1
  <2>3. QED
    BY <1>0, <2>1, <2>2
<1> HIDE DEF S
<1>3. S = Nat
  <2>1. S \subseteq Nat
    BY DEF S
  <2>2. QED
    BY <1>1, <1>2, <2>1, Induct
<1>4. QED
  BY <1>0, <1>3 DEF S

\* ... and with each turn.
LEMMA SumGrows ==
  ASSUME NEW f, NEW n \in Nat, \A m \in 1..n : f[m] \in Nat,
         NEW a \in 0..n, NEW b \in a..n
  PROVE  Sum(f, a) <= Sum(f, b)
<1> DEFINE S == {m \in Nat : a+m <= n => Sum(f, a) <= Sum(f, a+m)}
<1>0. /\ \A m \in 0..n : Sum(f, m) \in Nat
      /\ \A m \in 0..n-1 : Sum(f, m+1) = Sum(f, m) + f[m+1]
  BY SumNat
<1>1. 0 \in S
  BY <1>0
<1>2. ASSUME NEW m \in S PROVE m+1 \in S
  <2> SUFFICES ASSUME a+(m+1) <= n PROVE Sum(f, a) <= Sum(f, a+(m+1))
    OBVIOUS
  <2>1. /\ m \in Nat /\ a+m \in 0..n-1 /\ a+(m+1) = (a+m)+1 /\ a+m+1 \in 1..n
        /\ Sum(f, a) <= Sum(f, a+m)
    OBVIOUS
  <2>2. f[a+m+1] \in Nat /\ Sum(f, a+m) \in Nat /\ Sum(f, a) \in Nat
        /\ Sum(f, (a+m)+1) = Sum(f, a+m) + f[a+m+1]
    BY <1>0, <2>1
  <2>3. QED
    BY <2>1, <2>2
<1> HIDE DEF S
<1>3. S = Nat
  <2>1. S \subseteq Nat
    BY DEF S
  <2>2. QED
    BY <1>1, <1>2, <2>1, Induct
<1>4. b-a \in S /\ a+(b-a) = b
  BY <1>3
<1>5. QED
  BY <1>4 DEF S

\* Sequences over S, one behind the other, are one.
LEMMA ConcatSeq ==
  ASSUME NEW f, NEW n \in Nat, NEW S, \A m \in 1..n : f[m] \in Seq(S)
  PROVE  Concat(f, n) \in Seq(S)
<1> DEFINE T == {m \in Nat : m <= n => Concat(f, m) \in Seq(S)}
<1>0. Concat(f, 0) = <<>> /\ \A m \in Nat : Concat(f, m+1) = Concat(f, m) \o f[m+1]
  BY ConcatSteps
<1> HIDE DEF Concat
<1>1. 0 \in T
  <2>1. <<>> \in Seq(S)
    OBVIOUS
  <2>2. QED
    BY <1>0, <2>1
<1>2. ASSUME NEW m \in T PROVE m+1 \in T
  <2> SUFFICES ASSUME m+1 <= n PROVE Concat(f, m+1) \in Seq(S)
    OBVIOUS
  <2>1. m \in Nat /\ Concat(f, m) \in Seq(S) /\ m+1 \in 1..n
    OBVIOUS
  <2>2. f[m+1] \in Seq(S)
    BY <2>1
  <2>3. Concat(f, m+1) = Concat(f, m) \o f[m+1]
    BY <1>0, <2>1
  <2>4. QED
    BY <2>1, <2>2, <2>3, ConcatProperties
<1> HIDE DEF T
<1>3. T = Nat
  <2>1. T \subseteq Nat
    BY DEF T
  <2>2. QED
    BY <1>1, <1>2, <2>1, Induct
<1>4. QED
  BY <1>3 DEF T

-----------------------------------------------------------------------------
\* Arithmetic of cells: word j of row a, in rows of n words.
LEMMA RowsApart ==
  ASSUME NEW a \in Nat, NEW b \in Nat, NEW n \in Nat, a < b
  PROVE  a*n + n <= b*n
<1> DEFINE d == b - a - 1
<1>1. d \in Nat /\ b = a + 1 + d
  OBVIOUS
<1>2. d*n \in Nat
  BY <1>1
<1>3. (a + 1 + d)*n = a*n + n + d*n
  BY <1>1
<1>4. QED
  BY <1>1, <1>2, <1>3

\* A cell's address names its row and its word ...
LEMMA Cell ==
  ASSUME NEW a \in Nat, NEW n \in Nat \ {0}, NEW j \in 0..n-1
  PROVE  /\ a*n + j \in Nat
         /\ (a*n + j) \div n = a
         /\ (a*n + j) % n = j
<1> DEFINE x == a*n + j
           q == x \div n
           r == x % n
<1>1. x \in Nat
  OBVIOUS
<1>2. q \in Nat /\ r \in 0..n-1 /\ x = q*n + r
  BY <1>1
<1>3. ~(q < a)
  BY <1>1, <1>2, RowsApart
<1>4. ~(a < q)
  BY <1>1, <1>2, RowsApart
<1>5. QED
  BY <1>1, <1>2, <1>3, <1>4

\* ... and is inside the table.
LEMMA CellInside ==
  ASSUME NEW rows \in Nat, NEW a \in 0..rows-1, NEW n \in Nat \ {0}, NEW j \in 0..n-1
  PROVE  a*n + j \in 0..rows*n-1
<1>1. a \in Nat /\ a < rows
  OBVIOUS
<1>2. a*n + n <= rows*n
  BY <1>1, RowsApart
<1>3. a*n \in Nat /\ rows*n \in Nat
  BY <1>1
<1>4. QED
  BY <1>2, <1>3

\* A sum that wraps at every step is the sum, wrapped at the end.
LEMMA ModSum ==
  ASSUME NEW a \in Nat, NEW b \in Nat, NEW n \in Nat \ {0}
  PROVE  ((a % n) + b) % n = (a + b) % n
<1>1. PICK p \in Nat, r \in 0..n-1 : a % n = r /\ a = p*n + r
  <2>1. a \div n \in Nat /\ a % n \in 0..n-1 /\ a = (a \div n)*n + (a % n)
    OBVIOUS
  <2>2. QED
    BY <2>1
<1>2. PICK q \in Nat, t \in 0..n-1 : (r + b) % n = t /\ r + b = q*n + t
  <2> DEFINE x == r + b
  <2>1. x \in Nat
    OBVIOUS
  <2> HIDE DEF x
  <2>2. x \div n \in Nat /\ x % n \in 0..n-1 /\ x = (x \div n)*n + (x % n)
    BY <2>1
  <2>3. QED
    BY <2>2 DEF x
<1>3. p*n \in Nat /\ q*n \in Nat /\ (p+q)*n = p*n + q*n
  OBVIOUS
<1>4. a + b = (p+q)*n + t
  BY <1>1, <1>2, <1>3
<1>5. ((p+q)*n + t) % n = t
  BY Cell
<1>6. (a + b) % n = t
  BY ONLY <1>4, <1>5, Zenon
<1>7. QED
  BY ONLY <1>1, <1>2, <1>6, Zenon

-----------------------------------------------------------------------------
\* RunAssumption, for the run there is.
LEMMA Shape ==
  ASSUME run \in Run
  PROVE  /\ run.program \in {"EDBT", "RISE"} /\ run.store \in {"r", "c"}
         /\ query \in {"q1", "q2", "q3", "q4"} /\ k \in Nat
         /\ row_count \in Nat /\ columns \in Nat \ {0} /\ enabled \in Nat \ {0}
         /\ query \in {"q2", "q3"} => enabled >= 2
         /\ query = "q4" => enabled >= 3
         /\ rise => run.store = "r"
         /\ \A j \in 0..enabled-1 : off(j) \in 0..columns-1
         /\ \A r \in 0..row_count-1 : \A c \in 0..columns-1 : run.table.value[r][c] \in 0..TRange-1
         /\ TRange \in Nat \ {0} /\ KeyRange \in Nat \ {0}
<1> DEFINE used == CASE query = "q4" -> 3 [] query \in {"q2", "q3"} -> 2 [] OTHER -> 1
<1>1. /\ run.program \in {"EDBT", "RISE"} /\ run.store \in {"r", "c"}
      /\ query \in {"q1", "q2", "q3", "q4"} /\ k \in Nat
      /\ row_count \in Nat /\ columns \in Nat \ {0}
      /\ run.offsets \in Seq(0..columns-1) /\ enabled >= used
      /\ run.table.value \in [0..row_count-1 -> [0..columns-1 -> 0..TRange-1]]
  BY RunAssumption, Zenon DEF query, k, row_count, columns, enabled
<1>2. /\ query = "q4" => used = 3
      /\ query \in {"q2", "q3"} => used = 2
      /\ query = "q1" => used = 1
  BY Zenon
<1> HIDE DEF used
<1>3. /\ run.program \in {"EDBT", "RISE"} /\ run.store \in {"r", "c"}
      /\ query \in {"q1", "q2", "q3", "q4"} /\ k \in Nat
      /\ row_count \in Nat /\ columns \in Nat \ {0}
      /\ run.offsets \in Seq(0..columns-1)
      /\ query = "q1" => enabled >= 1
      /\ query \in {"q2", "q3"} => enabled >= 2
      /\ query = "q4" => enabled >= 3
      /\ run.table.value \in [0..row_count-1 -> [0..columns-1 -> 0..TRange-1]]
  BY <1>1, <1>2
<1>4. enabled \in Nat /\ \A j \in 0..enabled-1 : off(j) \in 0..columns-1
  BY <1>3 DEF enabled, off
<1>5. enabled \in Nat \ {0}
  BY <1>3, <1>4
<1>6. \A r \in 0..row_count-1 : \A c \in 0..columns-1 : run.table.value[r][c] \in 0..TRange-1
  BY <1>3
<1>7. rise => run.store = "r"
  BY RiseRuns DEF rise
<1>8. QED
  BY <1>3, <1>4, <1>5, <1>6, <1>7, EdbtQueryAssumption

\* A T in every enabled column.
LEMMA ValueIsT ==
  ASSUME run \in Run, NEW r \in 0..row_count-1, NEW j \in 0..enabled-1
  PROVE  V(r, j) \in 0..TRange-1
BY Shape DEF V

\* The window has the enabled columns one behind the other.
LEMMA WindowField ==
  ASSUME run \in Run, pass \in {"cold", "hot"},
         NEW r \in 0..row_count-1, NEW j \in 0..enabled-1
  PROVE  Word(r*enabled + j) = V(r, j)
<1> DEFINE n == enabled
<1>1. row_count \in Nat /\ n \in Nat \ {0} /\ r \in Nat
  BY Shape
<1>2. plim = [a \in 0..row_count*n-1 |-> V(a \div n, a % n)]
  BY DEF plim, V
<1>3. Word(r*n + j) = IF r*n + j \in DOMAIN plim THEN plim[r*n + j] ELSE beyond
  BY DEF Word
<1> HIDE DEF n
<1>4. r*n + j \in 0..row_count*n-1
  BY <1>1, CellInside DEF n
<1>5. (r*n + j) \div n = r /\ (r*n + j) % n = j
  BY <1>1, Cell DEF n
<1>6. QED
  BY <1>2, <1>3, <1>4, <1>5 DEF n

\* A row store in DRAM has column c of row r in the row's place.
LEMMA RowField ==
  ASSUME run \in Run, pass \notin {"cold", "hot"}, run.store = "r",
         NEW r \in 0..row_count-1, NEW c \in 0..columns-1
  PROVE  Word(r*columns + c) = run.table.value[r][c]
<1> DEFINE n == columns
<1>1. row_count \in Nat /\ n \in Nat \ {0} /\ r \in Nat
  BY Shape
<1>2. dram = [a \in 0..row_count*n-1 |-> run.table.value[a \div n][a % n]]
  BY DEF dram
<1>3. Word(r*n + c) = IF r*n + c \in DOMAIN dram THEN dram[r*n + c] ELSE beyond
  BY DEF Word
<1> HIDE DEF n
<1>4. r*n + c \in 0..row_count*n-1
  BY <1>1, CellInside DEF n
<1>5. (r*n + c) \div n = r /\ (r*n + c) % n = c
  BY <1>1, Cell DEF n
<1>6. QED
  BY <1>2, <1>3, <1>4, <1>5 DEF n

\* A column store has it in the column's.
LEMMA ColField ==
  ASSUME run \in Run, pass \notin {"cold", "hot"}, run.store = "c",
         NEW r \in 0..row_count-1, NEW c \in 0..columns-1
  PROVE  Word(r + row_count*c) = run.table.value[r][c]
<1> DEFINE n == row_count
<1>1. columns \in Nat \ {0} /\ n \in Nat \ {0} /\ c \in Nat
  BY Shape
<1>2. dram = [a \in 0..n*columns-1 |-> run.table.value[a % n][a \div n]]
  BY DEF dram
<1>3. Word(r + n*c) = IF r + n*c \in DOMAIN dram THEN dram[r + n*c] ELSE beyond
  BY DEF Word
<1> HIDE DEF n
<1>4. r \in 0..n-1
  BY DEF n
<1>5. c*n = n*c /\ columns*n = n*columns /\ r + n*c = c*n + r
  BY <1>1, <1>4
<1>6. r + n*c \in 0..n*columns-1
  BY <1>1, <1>4, <1>5, CellInside
<1>7. (r + n*c) \div n = c /\ (r + n*c) % n = r
  BY <1>1, <1>4, <1>5, Cell
<1>8. QED
  BY <1>2, <1>3, <1>6, <1>7 DEF n

-----------------------------------------------------------------------------
\* The passes there are, and the stores they go over.
PassOK ==
  /\ run \in Run /\ i \in 0..row_count
  /\ pass \in {"cold", "hot", "row", "col", "end"}
  /\ pass \in {"cold", "hot", "row"} => run.store = "r"
  /\ pass = "col" => run.store = "c" \/ (rise /\ query = "q1")

\* The columns a query takes are found where Reaches says so.
Wanted == IF query = "q1" THEN enabled ELSE IF query = "q4" THEN 3 ELSE 2

\* A pass reads the columns its query takes.
LEMMA Reads ==
  ASSUME PassOK, pass # "end", Reaches, NEW r \in 0..row_count-1, NEW j \in 0..Wanted-1
  PROVE  Field(r, j) = V(r, j)
<1>1. /\ j \in 0..enabled-1 /\ off(j) \in 0..columns-1
      /\ query \in {"q1", "q2", "q3", "q4"} /\ row_count \in Nat /\ columns \in Nat /\ r \in Nat
      /\ pass \in {"cold", "hot", "row", "col"}
  <2>1. j \in 0..enabled-1
    BY Shape DEF Wanted, PassOK
  <2>2. QED
    BY <2>1, Shape DEF PassOK
<1>2. CASE pass \in {"cold", "hot"}
  <2>1. Packed(j) = j
    <3>1. (query \in {"q2", "q3"} /\ ~rise) => off(j) = j
      BY <1>1, <1>2 DEF Reaches, Prefix
    <3>2. QED
      BY <3>1 DEF Packed
  <2>2. Field(r, j) = Word(r*enabled + j)
    BY <1>2, <2>1 DEF Field, Address
  <2>3. QED
    BY <1>1, <1>2, <2>2, WindowField DEF PassOK
<1>3. CASE pass = "row"
  <2>1. AtRowStart(j) => off(j) = 0
    BY <1>1, <1>3 DEF AtRowStart, Reaches
  <2>2. Field(r, j) = Word(r*columns + (IF AtRowStart(j) THEN 0 ELSE off(j)))
    BY <1>3 DEF Field, Address
  <2>3. Field(r, j) = Word(r*columns + off(j))
    BY <2>1, <2>2
  <2>4. QED
    BY <1>1, <1>3, <2>3, RowField DEF PassOK, V
<1>4. CASE pass = "col"
  <2>1. run.store = "c" /\ ~rise
    BY <1>1, <1>4, Shape DEF PassOK, Reaches
  <2>2. query = "q1" => off(j) = j
    BY <1>1, <1>4 DEF Reaches, Prefix
  <2>3. Field(r, j) = Word(r + row_count*(IF query = "q1" THEN j ELSE off(j)))
    BY <1>4, <2>1 DEF Field, Address
  <2>4. Field(r, j) = Word(r + row_count*off(j))
    BY <2>2, <2>3
  <2>5. QED
    BY <1>1, <1>4, <2>1, <2>4, ColField DEF PassOK, V
<1>5. QED
  BY <1>1, <1>2, <1>3, <1>4

-----------------------------------------------------------------------------
\* What adds up to Total(r).
Parts(r) == [m \in 1..row_count |-> IF m-1 \in Members(r) THEN V(m-1, 0) ELSE 0]

\* They are T's, those of the group's rows.
LEMMA PartsAre ==
  ASSUME run \in Run, NEW r
  PROVE  /\ \A j \in 0..row_count-1 :
              /\ Parts(r)[j+1] \in 0..TRange-1
              /\ Parts(r)[j+1] = IF j \in Members(r) THEN V(j, 0) ELSE 0
         /\ \A m \in 1..row_count : Parts(r)[m] \in Nat
<1>1. row_count \in Nat /\ 0 \in 0..enabled-1 /\ TRange \in Nat \ {0}
  BY Shape
<1>2. ASSUME NEW j \in 0..row_count-1
      PROVE  /\ Parts(r)[j+1] \in 0..TRange-1
             /\ Parts(r)[j+1] = IF j \in Members(r) THEN V(j, 0) ELSE 0
  <2>1. j+1 \in 1..row_count /\ (j+1)-1 = j
    BY <1>1
  <2>2. Parts(r)[j+1] = IF j \in Members(r) THEN V(j, 0) ELSE 0
    BY <2>1 DEF Parts
  <2>3. V(j, 0) \in 0..TRange-1
    BY <1>1, ValueIsT
  <2>4. QED
    BY <1>1, <2>2, <2>3
<1>3. ASSUME NEW m \in 1..row_count PROVE Parts(r)[m] \in Nat
  <2>1. m-1 \in 0..row_count-1 /\ (m-1)+1 = m
    BY <1>1
  <2>2. Parts(r)[(m-1)+1] \in 0..TRange-1
    BY <1>2, <2>1
  <2>3. QED
    BY <1>1, <2>1, <2>2
<1>4. QED
  BY <1>2, <1>3

\* The functions by which GroupAverage is defined.
IsTotal(t, r) ==
  t = [j \in r..row_count-1 |->
         IF j = r THEN Field(r, 0)
         ELSE IF j \in Later(r) THEN (t[j-1] + Summand(j)) % TRange ELSE t[j-1]]

IsCount(c, r) ==
  c = [j \in r..row_count-1 |->
         IF j = r THEN 1 ELSE c[j-1] + (IF j \in Later(r) THEN 1 ELSE 0)]

\* GroupAverage by name of those functions.
LEMMA AverageIs ==
  \A r : GroupAverage(r) = (CHOOSE t : IsTotal(t, r))[row_count-1]
                             \div (CHOOSE c : IsCount(c, r))[row_count-1]
BY DEF GroupAverage, IsTotal, IsCount

\* A sum of zeros.
LEMMA SumNone ==
  ASSUME NEW f, NEW n \in Nat, \A m \in 1..n : f[m] = 0
  PROVE  Sum(f, n) = 0
<1> DEFINE S == {m \in Nat : m <= n => Sum(f, m) = 0}
<1>0. Sum(f, 0) = 0 /\ \A m \in Nat : Sum(f, m+1) = Sum(f, m) + f[m+1]
  BY SumSteps
<1> HIDE DEF Sum
<1>1. 0 \in S
  BY <1>0
<1>2. ASSUME NEW m \in S PROVE m+1 \in S
  <2>1. m \in Nat /\ (m+1 <= n => Sum(f, m) = 0 /\ f[m+1] = 0)
    OBVIOUS
  <2>2. QED
    BY <1>0, <2>1
<1> HIDE DEF S
<1>3. S = Nat
  <2>1. S \subseteq Nat
    BY DEF S
  <2>2. QED
    BY <1>1, <1>2, <2>1, Induct
<1>4. QED
  BY <1>3 DEF S

\* The rows q4's inner loop finds are the group's other ones.
LEMMA GroupedIs ==
  ASSUME PassOK, pass # "end", Reaches, query = "q4"
  PROVE  \A j \in 0..row_count-1 :
           /\ Field(j, 0) = V(j, 0) /\ Field(j, 1) = V(j, 1) /\ Field(j, 2) = V(j, 2)
           /\ grouped(Field(j, 2)) <=> Qualifies(j)
<1>1. ASSUME NEW j \in 0..row_count-1
      PROVE  Field(j, 0) = V(j, 0) /\ Field(j, 1) = V(j, 1) /\ Field(j, 2) = V(j, 2)
  <2>1. Wanted = 3 /\ 0 \in 0..Wanted-1 /\ 1 \in 0..Wanted-1 /\ 2 \in 0..Wanted-1
    BY DEF Wanted
  <2>2. QED
    BY <2>1, Reads
<1>2. \A j : grouped(V(j, 2)) <=> Qualifies(j)
  BY DEF grouped, Qualifies
<1>3. QED
  BY <1>1, <1>2

\* They are below its first one, and what is added up is their first column.
LEMMA LaterIs ==
  ASSUME PassOK, pass # "end", Reaches, query = "q4", NEW r \in 0..row_count-1, First(r)
  PROVE  /\ r \in Members(r) /\ \A j \in 0..r-1 : j \notin Members(r)
         /\ \A j \in r+1..row_count-1 : j \in Later(r) <=> j \in Members(r)
         /\ \A j \in r+1..row_count-1 : j \in Later(r) => Summand(j) = V(j, 0)
<1>1. row_count \in Nat /\ r \in Nat
  BY Shape DEF PassOK
<1>2. r \in Members(r) /\ \A j \in 0..r-1 : j \notin Members(r)
  BY <1>1 DEF Members, First
<1>3. ASSUME NEW j \in r+1..row_count-1 PROVE j \in Later(r) <=> j \in Members(r)
  <2>1. j \in 0..row_count-1
    BY <1>1
  <2>2. (grouped(Field(j, 2)) <=> Qualifies(j)) /\ Field(j, 1) = V(j, 1) /\ Field(r, 1) = V(r, 1)
    BY <2>1, GroupedIs
  <2>3. QED
    BY <2>1, <2>2 DEF Later, Members
<1>4. ASSUME NEW j \in r+1..row_count-1, j \in Later(r) PROVE Summand(j) = V(j, 0)
  <2>1. j \in Members(r) /\ j # r /\ j \in 0..row_count-1
    BY <1>1, <1>3, <1>4
  <2>2. pass # "col"
    BY <2>1 DEF Reaches, First
  <2>3. QED
    BY <2>1, <2>2, GroupedIs DEF Summand
<1>5. QED
  BY <1>2, <1>3, <1>4

\* The inner loop's sum never wraps.
LEMMA TotalSteps ==
  ASSUME PassOK, pass # "end", Reaches, query = "q4", NEW r \in 0..row_count-1, First(r)
  PROVE  /\ Field(r, 0) = Sum(Parts(r), r+1)
         /\ \A j \in r+1..row_count-1 :
              Sum(Parts(r), j+1) = IF j \in Later(r)
                                     THEN (Sum(Parts(r), j) + Summand(j)) % TRange
                                     ELSE Sum(Parts(r), j)
<1> DEFINE P == Parts(r)
<1>1. row_count \in Nat /\ r \in Nat /\ TRange \in Nat \ {0} /\ run \in Run
  BY Shape DEF PassOK
<1>2. /\ \A m \in 0..row_count : Sum(P, m) \in Nat
      /\ \A m \in 0..row_count-1 : Sum(P, m+1) = Sum(P, m) + P[m+1]
  BY <1>1, PartsAre, SumNat
<1>3. \A m \in 0..row_count : Sum(P, m) < TRange
  <2>1. Sum(P, row_count) < TRange
    BY DEF Reaches, Groupable, First, Total, Parts
  <2>2. ASSUME NEW m \in 0..row_count PROVE Sum(P, m) <= Sum(P, row_count)
    BY <1>1, PartsAre, SumGrows
  <2> HIDE DEF P
  <2>3. QED
    BY <1>1, <1>2, <2>1, <2>2
<1>4. \A j \in 0..row_count-1 : P[j+1] = IF j \in Members(r) THEN V(j, 0) ELSE 0
  BY <1>1, PartsAre
<1>5. Sum(P, r) = 0
  <2>1. ASSUME NEW m \in 1..r PROVE P[m] = 0
    <3>1. m-1 \in 0..row_count-1 /\ m-1 \in 0..r-1 /\ (m-1)+1 = m
      BY <1>1
    <3>2. P[(m-1)+1] = 0
      BY <1>4, <3>1, LaterIs
    <3>3. QED
      BY <3>1, <3>2
  <2> HIDE DEF P
  <2>2. QED
    BY <1>1, <2>1, SumNone
<1>6. Field(r, 0) = P[r+1] /\ P[r+1] \in Nat
  <2>1. P[r+1] = V(r, 0)
    BY <1>4, LaterIs
  <2>2. P[r+1] \in 0..TRange-1
    BY <1>1, PartsAre
  <2>3. QED
    BY <1>1, <2>1, <2>2, GroupedIs
<1>7. ASSUME NEW j \in r+1..row_count-1
      PROVE  Sum(P, j+1) = IF j \in Later(r) THEN (Sum(P, j) + Summand(j)) % TRange ELSE Sum(P, j)
  <2>1. j \in 0..row_count-1 /\ j+1 \in 0..row_count /\ j \in 0..row_count
    BY <1>1
  <2>2. Sum(P, j+1) = Sum(P, j) + P[j+1] /\ Sum(P, j) \in Nat /\ Sum(P, j+1) \in Nat /\ Sum(P, j+1) < TRange
    BY <1>2, <1>3, <2>1
  <2>3. j \in Later(r) => P[j+1] = Summand(j)
    BY <1>4, <2>1, LaterIs
  <2>4. j \notin Later(r) => P[j+1] = 0
    BY <1>4, <2>1, LaterIs
  <2>5. \A x \in Nat : x < TRange => x % TRange = x
    BY <1>1
  <2> HIDE DEF P
  <2>6. QED
    BY <2>2, <2>3, <2>4, <2>5
<1> HIDE DEF P
<1>8. Field(r, 0) = Sum(P, r+1)
  BY <1>1, <1>2, <1>5, <1>6
<1>9. QED
  BY <1>7, <1>8 DEF P

\* So it is the group's total.
LEMMA TotalIs ==
  ASSUME PassOK, pass # "end", Reaches, query = "q4", NEW r \in 0..row_count-1, First(r)
  PROVE  (CHOOSE t : IsTotal(t, r))[row_count-1] = Total(r)
<1> DEFINE s(n) == Sum(Parts(r), n)
           g == [j \in r..row_count-1 |-> s(j+1)]
           t == CHOOSE t : IsTotal(t, r)
<1>1. row_count \in Nat /\ r \in Nat /\ r < row_count
  BY Shape DEF PassOK
<1>2. /\ Field(r, 0) = s(r+1)
      /\ \A j \in r+1..row_count-1 :
           s(j+1) = IF j \in Later(r) THEN (s(j) + Summand(j)) % TRange ELSE s(j)
  BY TotalSteps
<1>3. s(row_count) = Total(r)
  BY DEF Total, Parts
<1> HIDE DEF s
<1>4. IsTotal(g, r)
  <2>1. ASSUME NEW j \in r..row_count-1
        PROVE  g[j] = IF j = r THEN Field(r, 0)
                      ELSE IF j \in Later(r) THEN (g[j-1] + Summand(j)) % TRange ELSE g[j-1]
    <3>1. CASE j = r
      BY <1>2, <3>1
    <3>2. CASE j # r
      <4>1. j \in r+1..row_count-1 /\ j-1 \in r..row_count-1 /\ (j-1)+1 = j
        BY <1>1, <3>2
      <4>2. g[j] = s(j+1) /\ g[j-1] = s(j)
        BY <4>1
      <4> HIDE DEF g
      <4>3. QED
        BY <1>2, <3>2, <4>1, <4>2
    <3>3. QED
      BY <3>1, <3>2
  <2>2. g = [j \in r..row_count-1 |-> g[j]]
    OBVIOUS
  <2> HIDE DEF g
  <2>3. QED
    BY <2>1, <2>2 DEF IsTotal
<1>5. IsTotal(t, r)
  BY <1>4
<1> HIDE DEF t, g
<1> DEFINE S == {m \in Nat : r+m <= row_count-1 => t[r+m] = s((r+m)+1)}
<1>6. 0 \in S
  <2>1. r \in r..row_count-1 /\ r+0 = r
    BY <1>1
  <2>2. t[r] = Field(r, 0)
    BY <1>5, <2>1 DEF IsTotal
  <2>3. QED
    BY <1>2, <2>1, <2>2
<1>7. ASSUME NEW m \in S PROVE m+1 \in S
  <2> SUFFICES ASSUME r+(m+1) <= row_count-1 PROVE t[r+(m+1)] = s((r+(m+1))+1)
    OBVIOUS
  <2> DEFINE j == r+(m+1)
  <2>1. /\ j \in r+1..row_count-1 /\ j \in r..row_count-1 /\ j # r /\ j-1 = r+m /\ (r+m)+1 = j
        /\ t[r+m] = s((r+m)+1)
    BY <1>1
  <2> HIDE DEF j
  <2>2. t[j] = IF j \in Later(r) THEN (t[j-1] + Summand(j)) % TRange ELSE t[j-1]
    BY <1>5, <2>1 DEF IsTotal
  <2>3. t[j-1] = s(j)
    BY <2>1
  <2>4. t[j] = s(j+1)
    BY <1>2, <2>1, <2>2, <2>3
  <2>5. QED
    BY <2>4 DEF j
<1> HIDE DEF S
<1>8. S = Nat
  <2>1. S \subseteq Nat
    BY DEF S
  <2>2. QED
    BY <1>6, <1>7, <2>1, Induct
<1>9. row_count-1-r \in S /\ r+(row_count-1-r) = row_count-1 /\ (row_count-1)+1 = row_count
  BY <1>1, <1>8
<1>10. t[row_count-1] = s(row_count)
  BY <1>1, <1>9 DEF S
<1>11. QED
  BY <1>3, <1>10 DEF t

\* The members of r's group among the first rows.
MembersTo(r, j) == {q \in Members(r) : q <= j}

\* The inner loop counts them.
LEMMA CountSteps ==
  ASSUME PassOK, pass # "end", Reaches, query = "q4", NEW r \in 0..row_count-1, First(r)
  PROVE  /\ Cardinality(MembersTo(r, r)) = 1
         /\ \A j \in r+1..row_count-1 :
              Cardinality(MembersTo(r, j)) =
                Cardinality(MembersTo(r, j-1)) + (IF j \in Later(r) THEN 1 ELSE 0)
         /\ MembersTo(r, row_count-1) = Members(r)
<1>1. row_count \in Nat /\ r \in Nat /\ Members(r) \subseteq 0..row_count-1
  BY Shape DEF PassOK, Members
<1>2. MembersTo(r, r) = {r}
  <2>1. ASSUME NEW q \in Members(r), q <= r PROVE q = r
    <3>1. q \in 0..row_count-1 /\ (q = r \/ q \in 0..r-1)
      BY <1>1, <2>1
    <3>2. QED
      BY <3>1, LaterIs
  <2>2. QED
    BY <1>1, <2>1, LaterIs DEF MembersTo
<1>3. Cardinality({r}) = 1
  BY FS_Singleton
<1>4. ASSUME NEW j \in r+1..row_count-1
      PROVE  Cardinality(MembersTo(r, j)) =
               Cardinality(MembersTo(r, j-1)) + (IF j \in Later(r) THEN 1 ELSE 0)
  <2> DEFINE A == MembersTo(r, j-1)
             B == MembersTo(r, j)
  <2>1. A \subseteq 0..row_count-1 /\ j \notin A /\ j \in Nat
    BY <1>1 DEF MembersTo
  <2>2. IsFiniteSet(A) /\ Cardinality(A) \in Nat
    <3>1. IsFiniteSet(0..row_count-1)
      BY <1>1, FS_Interval
    <3>2. QED
      BY <2>1, <3>1, FS_Subset, FS_CardinalityType
  <2>3. B = IF j \in Members(r) THEN A \cup {j} ELSE A
    BY <1>1, <2>1 DEF MembersTo
  <2>4. Cardinality(A \cup {j}) = Cardinality(A) + 1
    BY <2>1, <2>2, FS_AddElement
  <2>5. j \in Later(r) <=> j \in Members(r)
    BY LaterIs
  <2> HIDE DEF A, B
  <2>6. QED
    BY <2>2, <2>3, <2>4, <2>5 DEF A, B
<1>5. MembersTo(r, row_count-1) = Members(r)
  BY <1>1 DEF MembersTo
<1>6. QED
  BY <1>2, <1>3, <1>4, <1>5

\* So its count is their number.
LEMMA CountIs ==
  ASSUME PassOK, pass # "end", Reaches, query = "q4", NEW r \in 0..row_count-1, First(r)
  PROVE  (CHOOSE c : IsCount(c, r))[row_count-1] = Cardinality(Members(r))
<1> DEFINE s(n) == Cardinality(MembersTo(r, n))
           g == [j \in r..row_count-1 |-> s(j)]
           c == CHOOSE c : IsCount(c, r)
<1>1. row_count \in Nat /\ r \in Nat /\ r < row_count
  BY Shape DEF PassOK
<1>2. /\ s(r) = 1
      /\ \A j \in r+1..row_count-1 : s(j) = s(j-1) + (IF j \in Later(r) THEN 1 ELSE 0)
      /\ s(row_count-1) = Cardinality(Members(r))
  BY CountSteps
<1> HIDE DEF s
<1>4. IsCount(g, r)
  <2>1. ASSUME NEW j \in r..row_count-1
        PROVE  g[j] = IF j = r THEN 1 ELSE g[j-1] + (IF j \in Later(r) THEN 1 ELSE 0)
    <3>1. CASE j = r
      BY <1>2, <3>1
    <3>2. CASE j # r
      <4>1. j \in r+1..row_count-1 /\ j-1 \in r..row_count-1
        BY <1>1, <3>2
      <4>2. g[j] = s(j) /\ g[j-1] = s(j-1)
        BY <4>1
      <4> HIDE DEF g
      <4>3. QED
        BY <1>2, <3>2, <4>1, <4>2
    <3>3. QED
      BY <3>1, <3>2
  <2>2. g = [j \in r..row_count-1 |-> g[j]]
    OBVIOUS
  <2> HIDE DEF g
  <2>3. QED
    BY <2>1, <2>2 DEF IsCount
<1>5. IsCount(c, r)
  BY <1>4
<1> HIDE DEF c, g
<1> DEFINE S == {m \in Nat : r+m <= row_count-1 => c[r+m] = s(r+m)}
<1>6. 0 \in S
  <2>1. r \in r..row_count-1 /\ r+0 = r
    BY <1>1
  <2>2. c[r] = 1
    BY <1>5, <2>1 DEF IsCount
  <2>3. QED
    BY <1>2, <2>1, <2>2
<1>7. ASSUME NEW m \in S PROVE m+1 \in S
  <2> SUFFICES ASSUME r+(m+1) <= row_count-1 PROVE c[r+(m+1)] = s(r+(m+1))
    OBVIOUS
  <2> DEFINE j == r+(m+1)
  <2>1. /\ j \in r+1..row_count-1 /\ j \in r..row_count-1 /\ j # r /\ j-1 = r+m
        /\ c[r+m] = s(r+m)
    BY <1>1
  <2> HIDE DEF j
  <2>2. c[j] = c[j-1] + (IF j \in Later(r) THEN 1 ELSE 0)
    BY <1>5, <2>1 DEF IsCount
  <2>3. c[j-1] = s(j-1)
    BY <2>1
  <2>4. c[j] = s(j)
    BY <1>2, <2>1, <2>2, <2>3
  <2>5. QED
    BY <2>4 DEF j
<1> HIDE DEF S
<1>8. S = Nat
  <2>1. S \subseteq Nat
    BY DEF S
  <2>2. QED
    BY <1>6, <1>7, <2>1, Induct
<1>9. row_count-1-r \in S /\ r+(row_count-1-r) = row_count-1
  BY <1>1, <1>8
<1>10. c[row_count-1] = s(row_count-1)
  BY <1>1, <1>9 DEF S
<1>11. QED
  BY <1>2, <1>10 DEF c

\* A group's average is that of all its rows when it is opened at its first.
LEMMA AverageIsRight ==
  ASSUME PassOK, pass # "end", Reaches, query = "q4", NEW r \in 0..row_count-1, First(r)
  PROVE  GroupAverage(r) = Total(r) \div Cardinality(Members(r))
BY AverageIs, TotalIs, CountIs, Zenon

-----------------------------------------------------------------------------
\* The answer, one row at a time.
LEMMA AnswerSteps ==
  ASSUME run \in Run
  PROVE  /\ Answer(0) = [array |-> <<>>, sum |-> 0, averages |-> <<>>]
         /\ \A n \in 0..row_count-1 :
              Answer(n+1) = [array    |-> Answer(n).array \o Shown(n),
                             sum      |-> (Answer(n).sum + Added(n)) % TRange,
                             averages |-> Answer(n).averages \o Averaged(n)]
         /\ \A n \in 0..row_count :
              /\ Answer(n).sum \in 0..TRange-1
              /\ \E S : Answer(n).array \in Seq(S)
              /\ \E S : Answer(n).averages \in Seq(S)
<1> DEFINE A == [m \in 1..row_count |-> Shown(m-1)]
           B == [m \in 1..row_count |-> Added(m-1)]
           C == [m \in 1..row_count |-> Averaged(m-1)]
<1>1. row_count \in Nat /\ TRange \in Nat \ {0} /\ query \in {"q1", "q2", "q3", "q4"}
  BY Shape
<1>2. \A n : Answer(n) = [array |-> Concat(A, n), sum |-> Sum(B, n) % TRange,
                          averages |-> Concat(C, n)]
  BY DEF Answer
<1>3. \A n \in 0..row_count-1 : A[n+1] = Shown(n) /\ B[n+1] = Added(n) /\ C[n+1] = Averaged(n)
  <2> TAKE n \in 0..row_count-1
  <2>1. n+1 \in 1..row_count /\ (n+1)-1 = n
    BY <1>1
  <2>2. QED
    BY <2>1
<1>4. \A m \in 1..row_count : B[m] \in Nat
  <2> TAKE m \in 1..row_count
  <2>1. m-1 \in 0..row_count-1
    BY <1>1
  <2>2. query = "q3" => V(m-1, 1) \in 0..TRange-1
    BY <2>1, Shape, ValueIsT
  <2>3. QED
    BY <1>1, <2>2 DEF Added
<1>5. \E S : \A m \in 1..row_count : A[m] \in Seq(S)
  <2> DEFINE S == {V(r, j) : r \in 0..row_count-1, j \in 0..enabled-1}
  <2>1. ASSUME NEW r \in 0..row_count-1 PROVE Shown(r) \in Seq(S)
    <3>1. <<>> \in Seq(S)
      OBVIOUS
    <3>2. \A j \in 0..enabled-1 : V(r, j) \in S
      OBVIOUS
    <3> HIDE DEF S
    <3>3. enabled \in Nat \ {0} /\ (query \in {"q2", "q3"} => 1 \in 0..enabled-1) /\ 0 \in 0..enabled-1
      BY Shape
    <3>4. query \in {"q2", "q3"} => <<V(r, 0)>> \in Seq(S) /\ <<V(r, 1)>> \in Seq(S)
      BY <3>2, <3>3
    <3>5. [n \in 1..enabled |-> V(r, n-1)] \in Seq(S)
      <4>1. \A n \in 1..enabled : n-1 \in 0..enabled-1
        BY <3>3
      <4>2. \A n \in 1..enabled : V(r, n-1) \in S
        BY <3>2, <4>1
      <4>3. QED
        BY <3>3, <4>2
    <3>6. QED
      BY <1>1, <3>1, <3>4, <3>5 DEF Shown
  <2> HIDE DEF S
  <2>2. \A m \in 1..row_count : m-1 \in 0..row_count-1
    BY <1>1
  <2>3. QED
    BY <2>1, <2>2
<1>6. \E S : \A m \in 1..row_count : C[m] \in Seq(S)
  <2> DEFINE S == {Total(r) \div Cardinality(Members(r)) : r \in 0..row_count-1}
  <2>1. ASSUME NEW r \in 0..row_count-1 PROVE Averaged(r) \in Seq(S)
    <3>1. <<>> \in Seq(S) /\ Total(r) \div Cardinality(Members(r)) \in S
      OBVIOUS
    <3> HIDE DEF S
    <3>2. QED
      BY <3>1 DEF Averaged
  <2> HIDE DEF S
  <2>2. \A m \in 1..row_count : m-1 \in 0..row_count-1
    BY <1>1
  <2>3. QED
    BY <2>1, <2>2
<1> HIDE DEF A, B, C
<1>7. ASSUME NEW n \in 0..row_count-1
      PROVE  /\ Concat(A, n+1) = Concat(A, n) \o Shown(n)
             /\ Concat(C, n+1) = Concat(C, n) \o Averaged(n)
             /\ Sum(B, n+1) = Sum(B, n) + Added(n)
             /\ Added(n) \in Nat
  <2>1. n \in Nat /\ n+1 \in 1..row_count
    BY <1>1
  <2>2. Concat(A, n+1) = Concat(A, n) \o A[n+1] /\ Concat(C, n+1) = Concat(C, n) \o C[n+1]
    BY ONLY <2>1, ConcatSteps, Zenon
  <2>3. Sum(B, n+1) = Sum(B, n) + B[n+1]
    BY ONLY <2>1, SumSteps, Zenon
  <2>4. QED
    BY <1>3, <1>4, <2>1, <2>2, <2>3
<1>8. ASSUME NEW n \in 0..row_count
      PROVE  /\ Sum(B, n) \in Nat
             /\ \E S : Concat(A, n) \in Seq(S)
             /\ \E S : Concat(C, n) \in Seq(S)
  <2>1. n \in Nat /\ 1..n \subseteq 1..row_count
    BY <1>1
  <2>2. Sum(B, n) \in Nat
    BY <1>1, <1>4, SumNat
  <2>3. PICK S : \A m \in 1..row_count : A[m] \in Seq(S)
    BY <1>5
  <2>4. Concat(A, n) \in Seq(S)
    BY <2>1, <2>3, ConcatSeq
  <2>5. PICK T : \A m \in 1..row_count : C[m] \in Seq(T)
    BY <1>6
  <2>6. Concat(C, n) \in Seq(T)
    BY <2>1, <2>5, ConcatSeq
  <2>7. QED
    BY <2>2, <2>4, <2>6
<1>9. Concat(A, 0) = <<>> /\ Concat(C, 0) = <<>> /\ Sum(B, 0) = 0
  BY ONLY ConcatSteps, SumSteps, Zenon
<1> HIDE DEF Sum, Concat
<1>10. Answer(0) = [array |-> <<>>, sum |-> 0, averages |-> <<>>]
  BY <1>1, <1>2, <1>9
<1>11. ASSUME NEW n \in 0..row_count-1
       PROVE  Answer(n+1) = [array    |-> Answer(n).array \o Shown(n),
                             sum      |-> (Answer(n).sum + Added(n)) % TRange,
                             averages |-> Answer(n).averages \o Averaged(n)]
  <2>1. n \in 0..row_count
    BY <1>1
  <2>2. ((Sum(B, n) % TRange) + Added(n)) % TRange = Sum(B, n+1) % TRange
    BY <1>1, <1>7, <1>8, <2>1, ModSum
  <2>3. Answer(n).array = Concat(A, n) /\ Answer(n).sum = Sum(B, n) % TRange
        /\ Answer(n).averages = Concat(C, n)
    BY <1>2
  <2>4. Answer(n+1) = [array |-> Concat(A, n+1), sum |-> Sum(B, n+1) % TRange,
                       averages |-> Concat(C, n+1)]
    BY <1>2
  <2>5. QED
    BY <1>7, <2>2, <2>3, <2>4, Zenon
<1>12. ASSUME NEW n \in 0..row_count
       PROVE  /\ Answer(n).sum \in 0..TRange-1
              /\ \E S : Answer(n).array \in Seq(S)
              /\ \E S : Answer(n).averages \in Seq(S)
  <2>1. Answer(n).array = Concat(A, n) /\ Answer(n).sum = Sum(B, n) % TRange
        /\ Answer(n).averages = Concat(C, n)
    BY <1>2
  <2>2. Sum(B, n) % TRange \in 0..TRange-1
    BY <1>1, <1>8
  <2>3. QED
    BY <1>8, <2>1, <2>2
<1>13. QED
  BY <1>10, <1>11, <1>12

\* The table's side of all this stays as the run does.
LEMMA AnswerStays ==
  ASSUME UNCHANGED run
  PROVE  /\ rise' = rise /\ query' = query /\ row_count' = row_count
         /\ \A r, j : V(r, j)' = V(r, j)
         /\ \A r : LowByte(r)' = LowByte(r)
         /\ \A r : Qualifies(r)' <=> Qualifies(r)
         /\ \A n : Answer(n)' = Answer(n)
         /\ UNCHANGED pass => (Reaches' <=> Reaches)
<1>1. /\ rise' = rise /\ query' = query /\ k' = k /\ row_count' = row_count /\ enabled' = enabled
      /\ \A j : off(j)' = off(j)
      /\ \A r, j : V(r, j)' = V(r, j)
  BY DEF rise, query, k, row_count, enabled, off, V
<1>2. \A r : Qualifies(r)' <=> Qualifies(r)
  BY <1>1 DEF Qualifies
<1>3. \A r : Members(r)' = Members(r)
  BY <1>1, <1>2 DEF Members
<1>4. \A r : Total(r)' = Total(r)
  BY <1>1, <1>3 DEF Total
<1>5. \A r : First(r)' <=> First(r)
  BY <1>1, <1>2 DEF First
<1>6. \A r : Shown(r)' = Shown(r)
  <2> TAKE r
  <2>1. CASE Qualifies(r)
    <3> DEFINE all == [n \in 1..enabled |-> V(r, n-1)]
    <3>1. all' = all
      BY <1>1
    <3>2. Shown(r) = CASE query = "q1" -> all
                       [] query = "q2" -> <<V(r, 0)>>
                       [] query = "q3" -> IF rise THEN <<>> ELSE <<V(r, 1)>>
                       [] query = "q4" -> <<>>
      BY <2>1, Zenon DEF Shown
    <3>3. Shown(r)' = CASE query' = "q1" -> all'
                        [] query' = "q2" -> <<V(r, 0)'>>
                        [] query' = "q3" -> IF rise' THEN <<>> ELSE <<V(r, 1)'>>
                        [] query' = "q4" -> <<>>
      BY <1>2, <2>1, Zenon DEF Shown
    <3> HIDE DEF all
    <3>4. QED
      BY <1>1, <3>1, <3>2, <3>3
  <2>2. CASE ~Qualifies(r)
    BY <1>2, <2>2 DEF Shown
  <2>3. QED
    BY <2>1, <2>2
<1>7. \A r : Added(r)' = Added(r)
  BY <1>1, <1>2 DEF Added
<1>8. \A r : Averaged(r)' = Averaged(r)
  BY <1>1, <1>3, <1>4, <1>5 DEF Averaged
<1>9. \A n : Answer(n)' = Answer(n)
  BY <1>1, <1>6, <1>7, <1>8 DEF Answer
<1>10. Prefix' <=> Prefix
  BY <1>1 DEF Prefix
<1>a. \A r : LowByte(r)' = LowByte(r)
  BY <1>1 DEF LowByte
<1>11. Groupable' <=> Groupable
  BY <1>1, <1>2, <1>4, <1>a DEF Groupable
<1>12. UNCHANGED pass => (Reaches' <=> Reaches)
  BY <1>1, <1>2, <1>3, <1>10, <1>11 DEF Reaches
<1>13. QED
  BY <1>1, <1>2, <1>9, <1>12, <1>a

-----------------------------------------------------------------------------
\* The groups are what is kept of the keys of the qualifying rows above i.
Known(n) ==
  \A x : already_grouped(x) <=> \E q \in 0..n-1 : Qualifies(q) /\ LowByte(q) = x

GroupsKnown == pass # "end" /\ Reaches /\ query = "q4" => Known(i)

\* PassComputesTheQuery is inductive with the groups q4 has found so far.
QueryInv == PassOK /\ GroupsKnown /\ PassComputesTheQuery

\* The head of a pass.
AtHead ==
  /\ run \in Run /\ i = 0 /\ array = <<>> /\ sum = 0
  /\ group_array = <<>> /\ averages = <<>>

\* A pass that has seen no row has the answer for none.
LEMMA HeadAnswers == AtHead => GroupsKnown /\ PassComputesTheQuery
<1> SUFFICES ASSUME AtHead PROVE GroupsKnown /\ PassComputesTheQuery
  OBVIOUS
<1>1. Result = Answer(i)
  BY AnswerSteps DEF AtHead, Result
<1>2. Known(i)
  <2>1. DOMAIN group_array = {} /\ 0..i-1 = {}
    BY DEF AtHead
  <2>2. QED
    BY <2>1 DEF Known, already_grouped
<1>3. QED
  BY <1>1, <1>2 DEF GroupsKnown, PassComputesTheQuery

\* What a turn of the outer loop adds.
TurnAdds(n) ==
  /\ array' = array \o Shown(n)
  /\ sum' = (sum + Added(n)) % TRange
  /\ averages' = averages \o Averaged(n)

\* q1, q2 and q3 add what the reference adds.
LEMMA ScanTurn ==
  ASSUME PassOK, pass # "end", Reaches, i \in 0..row_count-1,
         NEW S, array \in Seq(S), sum \in 0..TRange-1, NEW T, averages \in Seq(T),
         Project \/ Select \/ SelectSum
  PROVE  TurnAdds(i) /\ query # "q4"
<1>1. TRange \in Nat \ {0} /\ run \in Run
  BY Shape DEF PassOK
<1>2. array \o <<>> = array /\ averages \o <<>> = averages /\ (sum + 0) % TRange = sum
  BY <1>1
<1>3. \A e : Append(array, e) = array \o <<e>>
  OBVIOUS
<1>4. query # "q4" => Averaged(i) = <<>>
  BY DEF Averaged
<1>5. CASE Project
  <2>1. ~(rise /\ pass = "col") /\ query = "q1"
    BY <1>5 DEF Project, Reaches
  <2>2. \A n \in 1..enabled : Field(i, n-1) = V(i, n-1)
    <3> TAKE n \in 1..enabled
    <3>1. n-1 \in 0..Wanted-1
      BY <1>1, <2>1, Shape DEF Wanted
    <3>2. QED
      BY <3>1, Reads
  <2>3. [n \in 1..enabled |-> Field(i, n-1)] = [n \in 1..enabled |-> V(i, n-1)]
    BY <2>2
  <2>4. Shown(i) = [n \in 1..enabled |-> V(i, n-1)] /\ Added(i) = 0
    BY <2>1 DEF Shown, Qualifies, Added
  <2>5. /\ array' = array \o [n \in 1..enabled |-> Field(i, n-1)]
        /\ UNCHANGED <<sum, averages>>
    BY <1>5, <2>1 DEF Project
  <2>6. QED
    BY <1>2, <1>4, <2>1, <2>3, <2>4, <2>5 DEF TurnAdds
<1>6. CASE Select \/ SelectSum
  <2>1. query \in {"q2", "q3"}
    BY <1>6 DEF Select, SelectSum
  <2>2. Field(i, 0) = V(i, 0) /\ Field(i, 1) = V(i, 1)
    <3>1. Wanted = 2 /\ 0 \in 0..Wanted-1 /\ 1 \in 0..Wanted-1
      BY <2>1 DEF Wanted
    <3>2. QED
      BY <3>1, Reads
  <2>3. CASE query = "q2"
    <3>1. Qualifies(i) <=> V(i, 1) > k
      BY <2>3 DEF Qualifies
    <3>2. Added(i) = 0 /\ Shown(i) = IF Qualifies(i) THEN <<V(i, 0)>> ELSE <<>>
      <4>1. CASE Qualifies(i)
        BY <2>3, <4>1 DEF Added, Shown
      <4>2. CASE ~Qualifies(i)
        BY <2>3, <4>2 DEF Added, Shown
      <4>3. QED
        BY <4>1, <4>2
    <3>3. /\ array' = IF V(i, 1) > k THEN Append(array, V(i, 0)) ELSE array
          /\ UNCHANGED <<sum, averages>>
      BY <1>6, <2>2, <2>3 DEF Select, SelectSum
    <3>4. QED
      BY <1>2, <1>3, <1>4, <2>1, <3>1, <3>2, <3>3 DEF TurnAdds
  <2>4. CASE query = "q3"
    <3>1. Qualifies(i) <=> V(i, 0) < k
      BY <2>4 DEF Qualifies
    <3>2. /\ Added(i) = IF Qualifies(i) THEN V(i, 1) ELSE 0
          /\ Shown(i) = IF Qualifies(i) /\ ~rise THEN <<V(i, 1)>> ELSE <<>>
      <4>1. CASE Qualifies(i)
        BY <2>4, <4>1 DEF Added, Shown
      <4>2. CASE ~Qualifies(i)
        BY <2>4, <4>2 DEF Added, Shown
      <4>3. QED
        BY <4>1, <4>2
    <3>3. /\ array' = IF V(i, 0) < k /\ ~rise THEN Append(array, V(i, 1)) ELSE array
          /\ sum' = IF V(i, 0) < k THEN (sum + V(i, 1)) % TRange ELSE sum
          /\ UNCHANGED averages
      BY <1>6, <2>2, <2>4 DEF Select, SelectSum
    <3>4. QED
      BY <1>2, <1>3, <1>4, <2>1, <3>1, <3>2, <3>3 DEF TurnAdds
  <2>5. QED
    BY <2>1, <2>3, <2>4
<1>7. QED
  BY <1>5, <1>6

\* q4 opens a group where the reference has a first row.
LEMMA GroupTurn ==
  ASSUME PassOK, pass # "end", Reaches, i \in 0..row_count-1, Known(i),
         NEW S, array \in Seq(S), sum \in 0..TRange-1, NEW T, averages \in Seq(T),
         NEW U, group_array \in Seq(U), Group
  PROVE  /\ TurnAdds(i)
         /\ \A x : already_grouped(x)' <=> \E q \in 0..i : Qualifies(q) /\ LowByte(q) = x
<1> DEFINE key == Field(i, 1) % KeyRange
<1>1. /\ TRange \in Nat \ {0} /\ KeyRange \in Nat \ {0} /\ run \in Run /\ query = "q4"
      /\ row_count \in Nat /\ i \in Nat
  BY Shape DEF PassOK, Group
<1>2. array \o <<>> = array /\ averages \o <<>> = averages /\ (sum + 0) % TRange = sum
  BY <1>1
<1>3. Shown(i) = <<>> /\ Added(i) = 0
  BY <1>1 DEF Shown, Added
<1>4. Field(i, 1) = V(i, 1) /\ (grouped(Field(i, 2)) <=> Qualifies(i))
  BY <1>1, GroupedIs
<1>5. key = LowByte(i)
  BY <1>4 DEF LowByte
<1>6. UNCHANGED <<array, sum>>
  BY DEF Group
<1>7. \A x : (\E q \in 0..i : Qualifies(q) /\ LowByte(q) = x)
                <=> already_grouped(x) \/ (Qualifies(i) /\ LowByte(i) = x)
  <2>1. \A q : q \in 0..i <=> q \in 0..i-1 \/ q = i
    BY <1>1
  <2>2. QED
    BY <2>1 DEF Known
<1>8. First(i) <=> Qualifies(i) /\ ~already_grouped(LowByte(i))
  <2>1. already_grouped(LowByte(i)) <=> \E q \in 0..i-1 : Qualifies(q) /\ LowByte(q) = LowByte(i)
    BY Zenon DEF Known
  <2>2. \A q \in 0..i-1 : q \in 0..row_count-1
    BY <1>1
  <2>3. ASSUME Qualifies(i), NEW q \in 0..i-1, Qualifies(q)
        PROVE  LowByte(q) = LowByte(i) <=> V(q, 1) = V(i, 1)
    <3>1. V(q, 1) = V(i, 1) => LowByte(q) = LowByte(i)
      BY Zenon DEF LowByte
    <3>2. LowByte(q) = LowByte(i) => V(q, 1) = V(i, 1)
      BY <1>1, <2>2, <2>3 DEF Reaches, Groupable
    <3>3. QED
      BY <3>1, <3>2
  <2>4. QED
    BY <2>1, <2>3, Zenon DEF First
<1>9. CASE First(i)
  <2>1. /\ group_array' = Append(group_array, key)
        /\ averages' = Append(averages, GroupAverage(i))
    BY <1>4, <1>5, <1>8, <1>9 DEF Group
  <2>2. averages' = averages \o Averaged(i)
    <3>1. Averaged(i) = <<Total(i) \div Cardinality(Members(i))>>
      BY <1>1, <1>9 DEF Averaged
    <3>2. GroupAverage(i) = Total(i) \div Cardinality(Members(i))
      BY <1>1, <1>9, AverageIsRight
    <3>3. \A e : Append(averages, e) = averages \o <<e>>
      OBVIOUS
    <3>4. QED
      BY <2>1, <3>1, <3>2, <3>3, Zenon
  <2>3. key = LowByte(i) /\ Qualifies(i)
    BY <1>5, <1>8, <1>9
  <2> HIDE DEF key
  <2>4. \A x : already_grouped(x)' <=> already_grouped(x) \/ x = key
    <3>1. /\ DOMAIN group_array' = 1..Len(group_array)+1
          /\ DOMAIN group_array = 1..Len(group_array) /\ Len(group_array) \in Nat
          /\ group_array'[Len(group_array)+1] = key
          /\ \A n \in 1..Len(group_array) : group_array'[n] = group_array[n]
      <4>1. group_array \in Seq(U \cup {key})
        OBVIOUS
      <4>2. QED
        BY <2>1, <4>1
    <3>2. \A n : n \in 1..Len(group_array)+1 <=> n \in 1..Len(group_array) \/ n = Len(group_array)+1
      BY <3>1
    <3>3. QED
      BY <3>1, <3>2 DEF already_grouped
  <2>5. QED
    BY <1>2, <1>3, <1>6, <1>7, <2>2, <2>3, <2>4 DEF TurnAdds
<1>10. CASE ~First(i)
  <2>1. UNCHANGED <<group_array, averages>>
    BY <1>4, <1>5, <1>8, <1>10 DEF Group
  <2>2. Averaged(i) = <<>>
    BY <1>10 DEF Averaged
  <2>3. \A x : already_grouped(x)' <=> already_grouped(x)
    BY <2>1 DEF already_grouped
  <2>4. \A x : (Qualifies(i) /\ LowByte(i) = x) => already_grouped(x)
    BY <1>8, <1>10
  <2>5. QED
    BY <1>2, <1>3, <1>6, <1>7, <2>1, <2>2, <2>3, <2>4 DEF TurnAdds
<1>11. QED
  BY <1>9, <1>10

\* A turn of a pass keeps the invariant ...
LEMMA RowKeeps == QueryInv /\ GroupsInv /\ Row => QueryInv'
<1> SUFFICES ASSUME QueryInv, GroupsInv, Row PROVE QueryInv'
  OBVIOUS
<1>1. /\ run \in Run /\ row_count \in Nat /\ i \in 0..row_count-1 /\ i' = i+1
      /\ pass # "end" /\ UNCHANGED <<run, pass>>
  BY Shape DEF QueryInv, PassOK, Row
<1>2. /\ rise' = rise /\ query' = query /\ row_count' = row_count
      /\ \A r, j : V(r, j)' = V(r, j)
      /\ \A r : LowByte(r)' = LowByte(r)
      /\ \A r : Qualifies(r)' <=> Qualifies(r)
      /\ \A n : Answer(n)' = Answer(n)
      /\ Reaches' <=> Reaches
  BY <1>1, AnswerStays
<1>3. PassOK'
  BY <1>1, <1>2 DEF QueryInv, PassOK
<1>4. ASSUME Reaches
      PROVE  /\ Result' = Answer(i+1)
             /\ query = "q4" =>
                  \A x : already_grouped(x)' <=> \E q \in 0..i : Qualifies(q) /\ LowByte(q) = x
  <2>1. Result = Answer(i) /\ PassOK
    BY <1>1, <1>4 DEF QueryInv, PassComputesTheQuery
  <2>2. array = Answer(i).array /\ sum = Answer(i).sum /\ averages = Answer(i).averages
    <3>1. array = Result.array /\ sum = Result.sum /\ averages = Result.averages
      BY DEF Result
    <3>2. QED
      BY ONLY <2>1, <3>1, Zenon
  <2>3. i \in 0..row_count
    BY <1>1
  <2>4. PICK S : array \in Seq(S)
    BY <1>1, <2>2, <2>3, AnswerSteps
  <2>5. PICK T : averages \in Seq(T)
    BY <1>1, <2>2, <2>3, AnswerSteps
  <2>6. sum \in 0..TRange-1
    BY <1>1, <2>2, <2>3, AnswerSteps
  <2>7. PICK U : group_array \in Seq(U)
    BY DEF GroupsInv
  <2>8. /\ TurnAdds(i)
        /\ query = "q4" =>
             \A x : already_grouped(x)' <=> \E q \in 0..i : Qualifies(q) /\ LowByte(q) = x
    <3>1. CASE Group
      <4>1. Known(i)
        BY <1>1, <1>4, <3>1 DEF QueryInv, GroupsKnown, Group
      <4>2. QED
        BY <1>1, <1>4, <2>1, <2>4, <2>5, <2>6, <2>7, <3>1, <4>1, GroupTurn
    <3>2. CASE Project \/ Select \/ SelectSum
      BY <1>1, <1>4, <2>1, <2>4, <2>5, <2>6, <3>2, ScanTurn
    <3>3. QED
      BY <3>1, <3>2 DEF Row
  <2>9. Answer(i+1) = [array    |-> Answer(i).array \o Shown(i),
                       sum      |-> (Answer(i).sum + Added(i)) % TRange,
                       averages |-> Answer(i).averages \o Averaged(i)]
    BY <1>1, AnswerSteps
  <2>10. Result' = [array |-> array', sum |-> sum', averages |-> averages']
    BY DEF Result
  <2>11. Result' = Answer(i+1)
    BY <2>2, <2>8, <2>9, <2>10 DEF TurnAdds
  <2>12. QED
    BY <2>8, <2>11
<1>5. PassComputesTheQuery'
  <2>1. Answer(i+1) = Answer(i)'
    <3>1. Answer(i)' = Answer(i')
      BY <1>2
    <3>2. QED
      BY <1>1, <3>1
  <2>2. QED
    BY <1>1, <1>2, <1>4, <2>1 DEF PassComputesTheQuery
<1>6. GroupsKnown'
  <2>1. 0..i'-1 = 0..i
    BY <1>1
  <2>2. Known(i)' <=>
          \A x : already_grouped(x)' <=> \E q \in 0..i'-1 : Qualifies(q)' /\ LowByte(q)' = x
    BY Zenon DEF Known
  <2>3. QED
    BY <1>1, <1>2, <1>4, <2>1, <2>2 DEF GroupsKnown
<1>7. QED
  BY <1>3, <1>5, <1>6 DEF QueryInv

\* ... and so does the next pass, whatever this one leaves.
LEMMA EndPassKeeps == QueryInv /\ EndPass => QueryInv'
<1> SUFFICES ASSUME QueryInv, EndPass PROVE QueryInv'
  OBVIOUS
<1>1. AtHead'
  BY DEF QueryInv, PassOK, EndPass, StartPass, AtHead
<1>2. (GroupsKnown /\ PassComputesTheQuery)'
  BY <1>1, HeadAnswers, PTL
<1>3. PassOK'
  <2>1. /\ run \in Run /\ row_count \in Nat /\ UNCHANGED run /\ i' = 0
        /\ pass' = CASE pass = "cold" -> "hot" [] pass = "hot" -> "row"
                     [] pass = "row" /\ rise /\ query = "q1" -> "col" [] OTHER -> "end"
    BY Shape DEF QueryInv, PassOK, EndPass, StartPass
  <2>2. rise' = rise /\ query' = query /\ row_count' = row_count
    BY <2>1, AnswerStays
  <2>3. QED
    BY <2>1, <2>2 DEF QueryInv, PassOK
<1>4. QED
  BY <1>2, <1>3 DEF QueryInv

\* Row by row a pass has what its query asks for, on the tables and under the
\* offsets that Reaches names: for EDBT's q2 and q3 in the window, only where
\* the enabled columns are the table's first ones (the defaults are not), and
\* for q4 only where no two keys agree in their low byte and no sum wraps, and
\* in the column pass where every group is one row (EDBT/queries/q1.c .. q4.c
\* and RISE's).
THEOREM QueriesAreRight == Spec => []PassComputesTheQuery
<1>1. Init => QueryInv
  <2> SUFFICES ASSUME Init PROVE QueryInv
    OBVIOUS
  <2>1. AtHead
    BY DEF Init, AtHead
  <2>2. PassOK
    BY Shape DEF Init, PassOK
  <2>3. QED
    BY <2>1, <2>2, HeadAnswers DEF QueryInv
<1>2. QueryInv /\ GroupsInv /\ [Next]_vars => QueryInv'
  <2> SUFFICES ASSUME QueryInv, GroupsInv, [Next]_vars PROVE QueryInv'
    OBVIOUS
  <2>1. CASE UNCHANGED vars
    <3>1. /\ UNCHANGED <<run, pass, i, group_array, Result>>
          /\ \A x : already_grouped(x)' <=> already_grouped(x)
      BY <2>1 DEF vars, pass_state, Result, already_grouped
    <3>2. /\ rise' = rise /\ query' = query /\ row_count' = row_count
          /\ \A r, j : V(r, j)' = V(r, j)
          /\ \A r : LowByte(r)' = LowByte(r)
          /\ \A r : Qualifies(r)' <=> Qualifies(r)
          /\ \A n : Answer(n)' = Answer(n)
          /\ Reaches' <=> Reaches
      BY <3>1, AnswerStays
    <3>3. Answer(i)' = Answer(i)
      BY <3>1, <3>2
    <3>4. Known(i)' <=> Known(i)
      BY <3>1, <3>2 DEF Known
    <3>5. QED
      BY <3>1, <3>2, <3>3, <3>4 DEF QueryInv, PassOK, GroupsKnown, PassComputesTheQuery
  <2>2. QED
    BY <2>1, RowKeeps, EndPassKeeps DEF Next
<1>3. QueryInv => PassComputesTheQuery
  BY DEF QueryInv
<1>4. QED
  BY <1>1, <1>2, <1>3, GroupsInvariance, PTL DEF Spec

=============================================================================
