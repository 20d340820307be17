----------------------------- MODULE ScanProofs -----------------------------
(***************************************************************************)
(* q1, q2 and q3 of vldb2023/query.c answer their queries, for every table *)
(* and query: what the loops of Loops leave, where the fields of a table   *)
(* are in the three stores, and the three programs over them.              *)
(***************************************************************************)
EXTENDS AvgScan, SelectScan, JoinScan, WellFoundedInduction, TLAPS

-----------------------------------------------------------------------------
\* A set of naturals that is not empty has a least member.
LEMMA Least ==
  ASSUME NEW T, T \subseteq Nat, T # {}
  PROVE  \E x \in T : \A y \in T : x <= y
<1>1. PICK x \in T : \A y \in T : <<y, x>> \notin OpToRel(<, Nat)
  BY WFMin, NatLessThanWellFounded, Zenon
<1>2. \A y \in T : y \in Nat /\ ~(y < x)
  BY <1>1, Zenon DEF OpToRel
<1>3. QED
  BY <1>2

\* A set of naturals with 0, and with the successor of each of its members, is
\* Nat.
LEMMA Induct ==
  ASSUME NEW S, S \subseteq Nat, 0 \in S, \A n \in S : n+1 \in S
  PROVE  S = Nat
<1> SUFFICES ASSUME S # Nat PROVE FALSE
  OBVIOUS
<1>1. PICK x \in Nat \ S : \A y \in Nat \ S : x <= y
  BY Least
<1>2. x-1 \in Nat \ S
  BY <1>1
<1>3. QED
  BY <1>1, <1>2

-----------------------------------------------------------------------------
\* The function by which Sum is defined exists, and is the same for every
\* number of turns as far as both go.
IsSum(s, f, n) == s = [k \in 0..n |-> IF k = 0 THEN 0 ELSE s[k-1] + f[k]]

LEMMA SumExists == \A f : \A n \in Nat : \E s : IsSum(s, f, n)
<1> TAKE f
<1> DEFINE S == {n \in Nat : \E s : IsSum(s, f, n)}
<1>1. 0 \in S
  <2>1. IsSum([k \in 0..0 |-> 0], f, 0)
    BY DEF IsSum
  <2>2. QED
    BY <2>1
<1>2. ASSUME NEW n \in S PROVE n+1 \in S
  <2>1. PICK s : IsSum(s, f, n)
    OBVIOUS
  <2> DEFINE t == [k \in 0..n+1 |-> IF k = n+1 THEN s[n] + f[n+1] ELSE s[k]]
  <2>2. \A k \in 0..n+1 : t[k] = IF k = 0 THEN 0 ELSE t[k-1] + f[k]
    <3> TAKE k \in 0..n+1
    <3>1. CASE k = 0
      BY <2>1, <3>1 DEF IsSum
    <3>2. CASE k \in 1..n
      <4>1. t[k] = s[k] /\ t[k-1] = s[k-1] /\ k # 0
        BY <3>2
      <4>2. s[k] = s[k-1] + f[k]
        BY <2>1, <3>2 DEF IsSum
      <4>3. QED
        BY <4>1, <4>2
    <3>3. CASE k = n+1
      BY <3>3
    <3>4. QED
      BY <3>1, <3>2, <3>3
  <2>3. t = [k \in 0..n+1 |-> t[k]]
    OBVIOUS
  <2> HIDE DEF t
  <2>4. IsSum(t, f, n+1)
    BY <2>2, <2>3 DEF IsSum
  <2>5. QED
    BY <2>4
<1> HIDE DEF S
<1>3. S = Nat
  <2>1. S \subseteq Nat
    BY DEF S
  <2>2. QED
    BY <1>1, <1>2, <2>1, Induct
<1>4. QED
  BY <1>3 DEF S

LEMMA SumUnique ==
  ASSUME NEW f, NEW n \in Nat, NEW m \in 0..n,
         NEW s, IsSum(s, f, n), NEW t, IsSum(t, f, m)
  PROVE  s[m] = t[m]
<1> DEFINE S == {k \in Nat : k <= m => s[k] = t[k]}
<1>1. 0 \in S
  BY DEF IsSum
<1>2. ASSUME NEW k \in S PROVE k+1 \in S
  <2> SUFFICES ASSUME k+1 <= m PROVE s[k+1] = t[k+1]
    OBVIOUS
  <2>1. k+1 \in 0..n /\ k+1 \in 0..m /\ k+1 # 0 /\ (k+1)-1 = k /\ s[k] = t[k]
    OBVIOUS
  <2>2. s[k+1] = s[k] + f[k+1] /\ t[k+1] = t[k] + f[k+1]
    BY <2>1 DEF IsSum
  <2>3. QED
    BY <2>1, <2>2
<1> HIDE DEF S
<1>3. S = Nat
  <2>1. S \subseteq Nat
    BY DEF S
  <2>2. QED
    BY <1>1, <1>2, <2>1, Induct
<1>4. QED
  BY <1>3 DEF S

\* Sum one turn at a time.
LEMMA SumSteps ==
  ASSUME NEW f
  PROVE  /\ Sum(f, 0) = 0
         /\ \A n \in Nat : Sum(f, n+1) = Sum(f, n) + f[n+1]
<1> DEFINE s(n) == CHOOSE t : IsSum(t, f, n)
<1>1. \A n : Sum(f, n) = s(n)[n]
  BY DEF Sum, IsSum
<1>2. \A n \in Nat : IsSum(s(n), f, n)
  BY SumExists
<1> HIDE DEF s
<1>3. s(0)[0] = 0
  BY <1>2 DEF IsSum
<1>4. ASSUME NEW n \in Nat PROVE s(n+1)[n+1] = s(n)[n] + f[n+1]
  <2>1. n+1 \in Nat /\ n \in 0..n+1 /\ IsSum(s(n+1), f, n+1) /\ IsSum(s(n), f, n)
    BY <1>2
  <2>2. s(n+1)[n] = s(n)[n]
    BY <2>1, SumUnique
  <2>3. s(n+1)[n+1] = s(n+1)[n] + f[n+1]
    BY <2>1 DEF IsSum
  <2>4. QED
    BY <2>2, <2>3
<1>5. QED
  BY <1>1, <1>3, <1>4

-----------------------------------------------------------------------------
\* The function by which Concat is defined exists, and is the same for every
\* number of turns as far as both go.
Behind(a, b) == a \o b

IsConcat(s, f, n) == s = [k \in 0..n |-> IF k = 0 THEN <<>> ELSE Behind(s[k-1], f[k])]

LEMMA ConcatExists == \A f : \A n \in Nat : \E s : IsConcat(s, f, n)
<1> TAKE f
<1> DEFINE S == {n \in Nat : \E s : IsConcat(s, f, n)}
<1>1. 0 \in S
  <2>1. IsConcat([k \in 0..0 |-> <<>>], f, 0)
    BY DEF IsConcat
  <2>2. QED
    BY <2>1
<1>2. ASSUME NEW n \in S PROVE n+1 \in S
  <2>1. PICK s : IsConcat(s, f, n)
    OBVIOUS
  <2> DEFINE t == [k \in 0..n+1 |-> IF k = n+1 THEN Behind(s[n], f[n+1]) ELSE s[k]]
  <2>2. \A k \in 0..n+1 : t[k] = IF k = 0 THEN <<>> ELSE Behind(t[k-1], f[k])
    <3> TAKE k \in 0..n+1
    <3>1. CASE k = 0
      BY <2>1, <3>1 DEF IsConcat
    <3>2. CASE k \in 1..n
      <4>1. t[k] = s[k] /\ t[k-1] = s[k-1] /\ k # 0
        BY <3>2
      <4>2. s[k] = Behind(s[k-1], f[k])
        BY <2>1, <3>2 DEF IsConcat
      <4>3. QED
        BY <4>1, <4>2
    <3>3. CASE k = n+1
      BY <3>3
    <3>4. QED
      BY <3>1, <3>2, <3>3
  <2>3. t = [k \in 0..n+1 |-> t[k]]
    OBVIOUS
  <2> HIDE DEF t
  <2>4. IsConcat(t, f, n+1)
    BY <2>2, <2>3 DEF IsConcat
  <2>5. QED
    BY <2>4
<1> HIDE DEF S
<1>3. S = Nat
  <2>1. S \subseteq Nat
    BY DEF S
  <2>2. QED
    BY <1>1, <1>2, <2>1, Induct
<1>4. QED
  BY <1>3 DEF S

LEMMA ConcatUnique ==
  ASSUME NEW f, NEW n \in Nat, NEW m \in 0..n,
         NEW s, IsConcat(s, f, n), NEW t, IsConcat(t, f, m)
  PROVE  s[m] = t[m]
<1> DEFINE S == {k \in Nat : k <= m => s[k] = t[k]}
<1>1. 0 \in S
  BY DEF IsConcat
<1>2. ASSUME NEW k \in S PROVE k+1 \in S
  <2> SUFFICES ASSUME k+1 <= m PROVE s[k+1] = t[k+1]
    OBVIOUS
  <2>1. k+1 \in 0..n /\ k+1 \in 0..m /\ k+1 # 0 /\ (k+1)-1 = k /\ s[k] = t[k]
    OBVIOUS
  <2>2. s[k+1] = Behind(s[k], f[k+1]) /\ t[k+1] = Behind(t[k], f[k+1])
    BY <2>1 DEF IsConcat
  <2>3. QED
    BY <2>1, <2>2
<1> HIDE DEF S
<1>3. S = Nat
  <2>1. S \subseteq Nat
    BY DEF S
  <2>2. QED
    BY <1>1, <1>2, <2>1, Induct
<1>4. QED
  BY <1>3 DEF S

\* Concat one turn at a time.
LEMMA ConcatSteps ==
  ASSUME NEW f
  PROVE  /\ Concat(f, 0) = <<>>
         /\ \A n \in Nat : Concat(f, n+1) = Concat(f, n) \o f[n+1]
<1> DEFINE s(n) == CHOOSE t : IsConcat(t, f, n)
<1>1. \A n : Concat(f, n) = s(n)[n]
  BY DEF Concat, IsConcat, Behind
<1>2. \A n \in Nat : IsConcat(s(n), f, n)
  BY ConcatExists
<1> HIDE DEF s
<1>3. s(0)[0] = <<>>
  BY <1>2 DEF IsConcat
<1>4. ASSUME NEW n \in Nat PROVE s(n+1)[n+1] = Behind(s(n)[n], f[n+1])
  <2>1. n+1 \in Nat /\ n \in 0..n+1 /\ IsConcat(s(n+1), f, n+1) /\ IsConcat(s(n), f, n)
    BY <1>2
  <2>2. s(n+1)[n] = s(n)[n]
    BY <2>1, ConcatUnique
  <2>3. s(n+1)[n+1] = Behind(s(n+1)[n], f[n+1])
    BY <2>1 DEF IsConcat
  <2>4. QED
    BY <2>2, <2>3
<1>5. QED
  BY <1>1, <1>3, <1>4 DEF Behind

-----------------------------------------------------------------------------
\* Sums of natural numbers are natural numbers, and grow.
LEMMA SumNat ==
  ASSUME NEW f, NEW n \in Nat, \A k \in 1..n : f[k] \in Nat
  PROVE  /\ \A m \in 0..n : Sum(f, m) \in Nat
         /\ \A m \in 0..n-1 : Sum(f, m+1) = Sum(f, m) + f[m+1]
<1> DEFINE S == {m \in Nat : m <= n => Sum(f, m) \in Nat}
<1>0. Sum(f, 0) = 0 /\ \A m \in Nat : Sum(f, m+1) = Sum(f, m) + f[m+1]
  BY SumSteps
<1> HIDE DEF Sum
<1>1. 0 \in S
  BY <1>0
<1>2. ASSUME NEW m \in S PROVE m+1 \in S
  <2> SUFFICES ASSUME m+1 <= n PROVE Sum(f, m+1) \in Nat
    OBVIOUS
  <2>1. m \in Nat /\ Sum(f, m) \in Nat /\ m+1 \in 1..n
    OBVIOUS
  <2>2. f[m+1] \in Nat
    BY <2>1
  <2>3. QED
    BY <1>0, <2>1, <2>2
<1> HIDE DEF S
<1>3. S = Nat
  <2>1. S \subseteq Nat
    BY DEF S
  <2>2. QED
    BY <1>1, <1>2, <2>1, Induct
<1>4. QED
  BY <1>0, <1>3 DEF S

LEMMA SumGrows ==
  ASSUME NEW f, NEW n \in Nat, \A k \in 1..n : f[k] \in Nat,
         NEW a \in 0..n, NEW b \in a..n
  PROVE  Sum(f, a) <= Sum(f, b)
<1> DEFINE S == {m \in Nat : a+m <= n => Sum(f, a) <= Sum(f, a+m)}
<1>0. /\ \A m \in 0..n : Sum(f, m) \in Nat
      /\ \A m \in 0..n-1 : Sum(f, m+1) = Sum(f, m) + f[m+1]
  BY SumNat
<1>1. 0 \in S
  BY <1>0
<1>2. ASSUME NEW m \in S PROVE m+1 \in S
  <2> SUFFICES ASSUME a+(m+1) <= n PROVE Sum(f, a) <= Sum(f, a+(m+1))
    OBVIOUS
  <2>1. /\ m \in Nat /\ a+m \in 0..n-1 /\ a+(m+1) = (a+m)+1 /\ a+m+1 \in 1..n
        /\ Sum(f, a) <= Sum(f, a+m)
    OBVIOUS
  <2>2. f[a+m+1] \in Nat /\ Sum(f, a+m) \in Nat /\ Sum(f, a) \in Nat
        /\ Sum(f, (a+m)+1) = Sum(f, a+m) + f[a+m+1]
    BY <1>0, <2>1
  <2>3. QED
    BY <2>1, <2>2
<1> HIDE DEF S
<1>3. S = Nat
  <2>1. S \subseteq Nat
    BY DEF S
  <2>2. QED
    BY <1>1, <1>2, <2>1, Induct
<1>4. b-a \in S /\ a+(b-a) = b
  BY <1>3
<1>5. QED
  BY <1>4 DEF S

\* What is in a sum lies between the sums before and behind it.
LEMMA SumGap ==
  ASSUME NEW f, NEW n \in Nat, \A k \in 1..n : f[k] \in Nat,
         NEW a \in 0..n-1, NEW b \in a+1..n
  PROVE  Sum(f, a) + f[a+1] <= Sum(f, b)
<1>1. a \in 0..n-1 /\ a+1 \in 0..n /\ b \in (a+1)..n
  OBVIOUS
<1>2. Sum(f, a+1) = Sum(f, a) + f[a+1]
  BY SumNat
<1>3. Sum(f, a+1) <= Sum(f, b)
  BY <1>1, SumGrows
<1>4. QED
  BY <1>2, <1>3

\* A sum depends on what is summed up.
LEMMA SumSame ==
  ASSUME NEW f, NEW g, NEW n \in Nat, \A k \in 1..n : f[k] = g[k]
  PROVE  Sum(f, n) = Sum(g, n)
<1> DEFINE S == {m \in Nat : m <= n => Sum(f, m) = Sum(g, m)}
<1>0. \A h : Sum(h, 0) = 0 /\ \A m \in Nat : Sum(h, m+1) = Sum(h, m) + h[m+1]
  BY SumSteps
<1>1. 0 \in S
  BY <1>0
<1>2. ASSUME NEW m \in S PROVE m+1 \in S
  <2> SUFFICES ASSUME m+1 <= n PROVE Sum(f, m+1) = Sum(g, m+1)
    OBVIOUS
  <2>1. m \in Nat /\ Sum(f, m) = Sum(g, m) /\ m+1 \in 1..n
    OBVIOUS
  <2>2. f[m+1] = g[m+1]
    BY <2>1
  <2>3. Sum(f, m+1) = Sum(f, m) + f[m+1] /\ Sum(g, m+1) = Sum(g, m) + g[m+1]
    BY <1>0, <2>1
  <2>4. QED
    BY <2>1, <2>2, <2>3
<1> HIDE DEF S
<1>3. S = Nat
  <2>1. S \subseteq Nat
    BY DEF S
  <2>2. QED
    BY <1>1, <1>2, <2>1, Induct
<1>4. QED
  BY <1>3 DEF S

\* A factor comes out of a sum.
LEMMA SumTimes ==
  ASSUME NEW f, NEW g, NEW n \in Nat, NEW c \in Nat,
         \A k \in 1..n : f[k] \in Nat /\ g[k] = f[k] * c
  PROVE  Sum(g, n) = Sum(f, n) * c
<1> DEFINE S == {m \in Nat : m <= n => Sum(g, m) = Sum(f, m) * c}
<1>0. Sum(g, 0) = 0 /\ Sum(f, 0) = 0 /\ \A m \in Nat : Sum(g, m+1) = Sum(g, m) + g[m+1]
  BY SumSteps
<1>1. 0 \in S
  BY <1>0
<1>2. ASSUME NEW m \in S PROVE m+1 \in S
  <2> SUFFICES ASSUME m+1 <= n PROVE Sum(g, m+1) = Sum(f, m+1) * c
    OBVIOUS
  <2>1. m \in Nat /\ Sum(g, m) = Sum(f, m) * c /\ m+1 \in 1..n /\ m \in 0..n-1 /\ m \in 0..n
    OBVIOUS
  <2>2. f[m+1] \in Nat /\ g[m+1] = f[m+1] * c
    BY <2>1
  <2>3. Sum(f, m) \in Nat /\ Sum(f, m+1) = Sum(f, m) + f[m+1]
    BY <2>1, SumNat
  <2>4. Sum(g, m+1) = Sum(g, m) + g[m+1]
    BY <1>0, <2>1
  <2>5. \A x, y \in Nat : (x + y) * c = x * c + y * c
    OBVIOUS
  <2>6. QED
    BY <2>1, <2>2, <2>3, <2>4, <2>5
<1> HIDE DEF S
<1>3. S = Nat
  <2>1. S \subseteq Nat
    BY DEF S
  <2>2. QED
    BY <1>1, <1>2, <2>1, Induct
<1>4. QED
  BY <1>3 DEF S

\* The same number over and over.
LEMMA SumConstant ==
  ASSUME NEW c \in Nat, NEW n \in Nat
  PROVE  Sum([k \in 1..n |-> c], n) = n * c
<1> DEFINE f == [k \in 1..n |-> 1]
           g == [k \in 1..n |-> c]
           S == {m \in Nat : m <= n => Sum(f, m) = m}
<1>0. Sum(f, 0) = 0 /\ \A m \in Nat : Sum(f, m+1) = Sum(f, m) + f[m+1]
  BY SumSteps
<1>1. S = Nat
  <2>1. 0 \in S
    BY <1>0
  <2>2. ASSUME NEW m \in S PROVE m+1 \in S
    <3> SUFFICES ASSUME m+1 <= n PROVE Sum(f, m+1) = m+1
      OBVIOUS
    <3>1. m \in Nat /\ Sum(f, m) = m /\ f[m+1] = 1
      OBVIOUS
    <3>2. QED
      BY <1>0, <3>1
  <2>3. S \subseteq Nat
    OBVIOUS
  <2> HIDE DEF S
  <2>4. QED
    BY <2>1, <2>2, <2>3, Induct
<1>2. Sum(f, n) = n
  BY <1>1
<1>3. \A k \in 1..n : f[k] \in Nat /\ g[k] = f[k] * c
  OBVIOUS
<1> HIDE DEF f, g
<1>4. Sum(g, n) = Sum(f, n) * c
  BY <1>3, SumTimes
<1>5. QED
  BY <1>2, <1>4 DEF g

\* A sum of larger numbers is larger.
LEMMA SumMono ==
  ASSUME NEW f, NEW g, NEW n \in Nat, \A k \in 1..n : f[k] \in Nat /\ g[k] \in Nat /\ f[k] <= g[k]
  PROVE  Sum(f, n) <= Sum(g, n)
<1> DEFINE S == {m \in Nat : m <= n => Sum(f, m) <= Sum(g, m)}
<1>0. Sum(f, 0) = 0 /\ Sum(g, 0) = 0
  BY SumSteps
<1>1. 0 \in S
  BY <1>0
<1>2. ASSUME NEW m \in S PROVE m+1 \in S
  <2> SUFFICES ASSUME m+1 <= n PROVE Sum(f, m+1) <= Sum(g, m+1)
    OBVIOUS
  <2>1. m \in Nat /\ Sum(f, m) <= Sum(g, m) /\ m+1 \in 1..n /\ m \in 0..n-1 /\ m \in 0..n
    OBVIOUS
  <2>2. f[m+1] \in Nat /\ g[m+1] \in Nat /\ f[m+1] <= g[m+1]
    BY <2>1
  <2>3. Sum(f, m) \in Nat /\ Sum(f, m+1) = Sum(f, m) + f[m+1]
    BY <2>1, SumNat
  <2>4. Sum(g, m) \in Nat /\ Sum(g, m+1) = Sum(g, m) + g[m+1]
    BY <2>1, SumNat
  <2>5. QED
    BY <2>1, <2>2, <2>3, <2>4
<1> HIDE DEF S
<1>3. S = Nat
  <2>1. S \subseteq Nat
    BY DEF S
  <2>2. QED
    BY <1>1, <1>2, <2>1, Induct
<1>4. QED
  BY <1>3 DEF S

LEMMA SumBound ==
  ASSUME NEW f, NEW n \in Nat, NEW c \in Nat, \A k \in 1..n : f[k] \in 0..c
  PROVE  Sum(f, n) <= n * c
<1> DEFINE g == [k \in 1..n |-> c]
<1>1. \A k \in 1..n : f[k] \in Nat /\ g[k] \in Nat /\ f[k] <= g[k]
  OBVIOUS
<1>2. Sum(g, n) = n * c
  BY SumConstant
<1> HIDE DEF g
<1>3. Sum(f, n) <= Sum(g, n)
  BY <1>1, SumMono
<1>4. QED
  BY <1>2, <1>3

\* A summand that is d larger.
OneMore(f, g, n, c, d) ==
  \A k \in 1..n : f[k] \in Nat /\ g[k] = IF k = c THEN f[k] + d ELSE f[k]

LEMMA SumPlus ==
  ASSUME NEW f, NEW g, NEW n \in Nat, NEW c \in 1..n, NEW d \in Nat, OneMore(f, g, n, c, d)
  PROVE  Sum(g, n) = Sum(f, n) + d
<1> DEFINE S == {m \in Nat : m <= n => Sum(g, m) = IF c <= m THEN Sum(f, m) + d ELSE Sum(f, m)}
<1>0. Sum(f, 0) = 0 /\ Sum(g, 0) = 0 /\ \A m \in Nat : Sum(g, m+1) = Sum(g, m) + g[m+1]
  BY SumSteps
<1>1. 0 \in S
  BY <1>0
<1>2. ASSUME NEW m \in S PROVE m+1 \in S
  <2> SUFFICES ASSUME m+1 <= n
               PROVE  Sum(g, m+1) = IF c <= m+1 THEN Sum(f, m+1) + d ELSE Sum(f, m+1)
    OBVIOUS
  <2>1. /\ m \in Nat /\ Sum(g, m) = IF c <= m THEN Sum(f, m) + d ELSE Sum(f, m)
        /\ m+1 \in 1..n /\ m \in 0..n-1 /\ m \in 0..n
    OBVIOUS
  <2>2. /\ f[m+1] \in Nat /\ g[m+1] = IF m+1 = c THEN f[m+1] + d ELSE f[m+1]
        /\ \A k \in 1..n : f[k] \in Nat
    BY <2>1 DEF OneMore
  <2>3. Sum(f, m) \in Nat /\ Sum(f, m+1) = Sum(f, m) + f[m+1]
    BY <2>1, <2>2, SumNat
  <2>4. Sum(g, m+1) = Sum(g, m) + g[m+1]
    BY <1>0, <2>1
  <2>5. QED
    BY <2>1, <2>2, <2>3, <2>4
<1> HIDE DEF S
<1>3. S = Nat
  <2>1. S \subseteq Nat
    BY DEF S
  <2>2. QED
    BY <1>1, <1>2, <2>1, Induct
<1>4. n \in S /\ c <= n
  BY <1>3
<1>5. QED
  BY <1>4 DEF S

\* A sum over numbers that are picked once each is no more than the whole sum.
LEMMA SumPicked ==
  ASSUME NEW f, NEW m \in Nat, \A k \in 1..m : f[k] \in Nat,
         NEW p, NEW n \in Nat, \A j \in 1..n : p[j] \in 1..m,
         \A j, l \in 1..n : p[j] = p[l] => j = l
  PROVE  Sum([j \in 1..n |-> f[p[j]]], n) <= Sum(f, m)
<1> DEFINE g == [j \in 1..n |-> f[p[j]]]
           h(e) == [k \in 1..m |-> IF \E j \in 1..e : p[j] = k THEN f[k] ELSE 0]
           S == {e \in Nat : e <= n => Sum(g, e) = Sum(h(e), m)}
<1>0. \A j \in 1..n : g[j] = f[p[j]] /\ g[j] \in Nat
  OBVIOUS
<1>1. \A e : \A k \in 1..m : h(e)[k] = IF \E j \in 1..e : p[j] = k THEN f[k] ELSE 0
  OBVIOUS
<1> HIDE DEF g, h
<1>2. 0 \in S
  <2>1. \A k \in 1..m : h(0)[k] \in 0..0
    BY <1>1
  <2>2. Sum(h(0), m) <= m * 0
    BY <2>1, SumBound
  <2>3. Sum(h(0), m) \in Nat
    <3>1. \A k \in 1..m : h(0)[k] \in Nat
      BY <2>1
    <3>2. m \in 0..m
      OBVIOUS
    <3>3. QED
      BY <3>1, <3>2, SumNat
  <2>4. Sum(g, 0) = 0
    BY SumSteps
  <2>5. QED
    BY <2>2, <2>3, <2>4
<1>3. ASSUME NEW e \in S PROVE e+1 \in S
  <2> SUFFICES ASSUME e+1 <= n PROVE Sum(g, e+1) = Sum(h(e+1), m)
    OBVIOUS
  <2>1. e \in Nat /\ Sum(g, e) = Sum(h(e), m) /\ e+1 \in 1..n /\ e \in 0..n-1
    OBVIOUS
  <2>2. Sum(g, e+1) = Sum(g, e) + f[p[e+1]]
    <3>1. Sum(g, e+1) = Sum(g, e) + g[e+1]
      BY <2>1, SumSteps
    <3>2. QED
      BY <1>0, <2>1, <3>1
  <2> DEFINE c == p[e+1]
             d == f[c]
  <2>3. c \in 1..m /\ d \in Nat
    BY <2>1
  <2>4. ASSUME NEW k \in 1..m
        PROVE  h(e)[k] \in Nat /\ h(e+1)[k] = IF k = c THEN h(e)[k] + d ELSE h(e)[k]
    <3>1. h(e)[k] \in Nat /\ f[k] \in Nat
      BY <1>1
    <3>2. CASE k = c
      <4>1. ~\E j \in 1..e : p[j] = k
        BY <2>1, <3>2
      <4>2. \E j \in 1..e+1 : p[j] = k
        BY <2>1, <3>2
      <4>3. h(e)[k] = 0 /\ h(e+1)[k] = f[k]
        BY <1>1, <4>1, <4>2
      <4>4. QED
        BY <3>1, <3>2, <4>3
    <3>3. CASE k # c
      <4>1. (\E j \in 1..e+1 : p[j] = k) <=> (\E j \in 1..e : p[j] = k)
        BY <2>1, <3>3
      <4>2. h(e+1)[k] = h(e)[k]
        BY <1>1, <4>1
      <4>3. QED
        BY <3>1, <3>3, <4>2
    <3>4. QED
      BY <3>2, <3>3
  <2> HIDE DEF c, d
  <2>5. Sum(h(e+1), m) = Sum(h(e), m) + d
    <3>1. OneMore(h(e), h(e+1), m, c, d)
      BY <2>4 DEF OneMore
    <3>2. QED
      BY <2>3, <3>1, SumPlus
  <2>6. QED
    BY <2>1, <2>2, <2>5 DEF c, d
<1> HIDE DEF S
<1>4. S = Nat
  <2>1. S \subseteq Nat
    BY DEF S
  <2>2. QED
    BY <1>2, <1>3, <2>1, Induct
<1>5. Sum(g, n) = Sum(h(n), m)
  BY <1>4 DEF S
<1>6. \A k \in 1..m : h(n)[k] \in Nat /\ f[k] \in Nat /\ h(n)[k] <= f[k]
  BY <1>1
<1>7. Sum(h(n), m) <= Sum(f, m)
  BY <1>6, SumMono
<1>8. QED
  BY <1>5, <1>7 DEF g

-----------------------------------------------------------------------------
\* What is appended depends on the parts.
LEMMA ConcatSame ==
  ASSUME NEW f, NEW g, NEW n \in Nat, \A k \in 1..n : f[k] = g[k]
  PROVE  Concat(f, n) = Concat(g, n)
<1> DEFINE S == {m \in Nat : m <= n => Concat(f, m) = Concat(g, m)}
<1>0. \A h : Concat(h, 0) = <<>>
             /\ \A m \in Nat : Concat(h, m+1) = Behind(Concat(h, m), h[m+1])
  BY ConcatSteps DEF Behind
<1>1. 0 \in S
  BY <1>0
<1>2. ASSUME NEW m \in S PROVE m+1 \in S
  <2> SUFFICES ASSUME m+1 <= n PROVE Concat(f, m+1) = Concat(g, m+1)
    OBVIOUS
  <2>1. m \in Nat /\ Concat(f, m) = Concat(g, m) /\ m+1 \in 1..n
    OBVIOUS
  <2>2. f[m+1] = g[m+1]
    BY <2>1
  <2>3. /\ Concat(f, m+1) = Behind(Concat(f, m), f[m+1])
        /\ Concat(g, m+1) = Behind(Concat(g, m), g[m+1])
    BY <1>0, <2>1
  <2>4. QED
    BY <2>1, <2>2, <2>3
<1> HIDE DEF S
<1>3. S = Nat
  <2>1. S \subseteq Nat
    BY DEF S
  <2>2. QED
    BY <1>1, <1>2, <2>1, Induct
<1>4. QED
  BY <1>3 DEF S

\* One list among empty ones is the whole.
LEMMA ConcatOne ==
  ASSUME NEW f, NEW n \in Nat, NEW V, NEW c \in 1..n, f[c] \in Seq(V),
         \A k \in 1..n : k # c => f[k] = <<>>
  PROVE  Concat(f, n) = f[c]
<1> DEFINE S == {m \in Nat : m <= n => Concat(f, m) = IF c <= m THEN f[c] ELSE <<>>}
<1>1. 0 \in S
  BY ConcatSteps
<1>2. ASSUME NEW m \in S PROVE m+1 \in S
  <2> SUFFICES ASSUME m+1 <= n PROVE Concat(f, m+1) = IF c <= m+1 THEN f[c] ELSE <<>>
    OBVIOUS
  <2>1. m \in Nat /\ m+1 \in 1..n /\ Concat(f, m) = IF c <= m THEN f[c] ELSE <<>>
    OBVIOUS
  <2>2. Concat(f, m+1) = Concat(f, m) \o f[m+1]
    BY <2>1, ConcatSteps
  <2>3. \A x \in Seq(V) : x \o <<>> = x /\ <<>> \o x = x
    OBVIOUS
  <2>4. <<>> \o <<>> = <<>>
    OBVIOUS
  <2> HIDE DEF S
  <2>5. CASE m+1 = c
    <3>1. Concat(f, m) = <<>> /\ c <= m+1
      BY <2>1, <2>5
    <3>2. Concat(f, m+1) = <<>> \o f[c]
      BY <2>2, <2>5, <3>1, Zenon
    <3>3. QED
      BY <2>3, <3>1, <3>2, Zenon
  <2>6. CASE m+1 # c
    <3>1. f[m+1] = <<>> /\ (c <= m+1 <=> c <= m)
      BY <2>1, <2>6
    <3>2. Concat(f, m+1) = Concat(f, m) \o <<>>
      BY <2>2, <3>1, Zenon
    <3>3. CASE c <= m
      <4>1. Concat(f, m) = f[c]
        BY <2>1, <3>3
      <4>2. QED
        BY <2>3, <3>1, <3>2, <3>3, <4>1, Zenon
    <3>4. CASE ~(c <= m)
      <4>1. Concat(f, m) = <<>>
        BY <2>1, <3>4
      <4>2. QED
        BY <2>4, <3>1, <3>2, <3>4, <4>1, Zenon
    <3>5. QED
      BY <3>3, <3>4
  <2>7. QED
    BY <2>5, <2>6
<1>3. S = Nat
  <2>1. S \subseteq Nat
    OBVIOUS
  <2> HIDE DEF S
  <2>2. QED
    BY <1>1, <1>2, <2>1, Induct, Zenon
<1>4. QED
  BY <1>3

LEMMA ConcatNone ==
  ASSUME NEW f, NEW n \in Nat, \A k \in 1..n : f[k] = <<>>
  PROVE  Concat(f, n) = <<>>
<1> DEFINE S == {m \in Nat : m <= n => Concat(f, m) = <<>>}
<1>1. 0 \in S
  BY ConcatSteps
<1>2. ASSUME NEW m \in S PROVE m+1 \in S
  <2> SUFFICES ASSUME m+1 <= n PROVE Concat(f, m+1) = <<>>
    OBVIOUS
  <2>1. m \in Nat /\ m+1 \in 1..n /\ Concat(f, m) = <<>>
    OBVIOUS
  <2>2. Concat(f, m+1) = Concat(f, m) \o f[m+1]
    BY <2>1, ConcatSteps
  <2>3. Concat(f, m+1) = <<>> \o <<>>
    BY <2>1, <2>2, Zenon
  <2>4. <<>> \o <<>> = <<>>
    OBVIOUS
  <2>5. QED
    BY <2>3, <2>4, Zenon
<1>3. S = Nat
  <2>1. S \subseteq Nat
    OBVIOUS
  <2> HIDE DEF S
  <2>2. QED
    BY <1>1, <1>2, <2>1, Induct, Zenon
<1>4. QED
  BY <1>3

\* A list gets the next number if it is in the set, and has no others.
LEMMA InOrderSteps ==
  ASSUME NEW S
  PROVE  /\ InOrder(S, 0) = <<>>
         /\ \A n \in Nat :
              /\ n+1 \in S => InOrder(S, n+1) = InOrder(S, n) \o <<n+1>>
              /\ n+1 \notin S => InOrder(S, n+1) = InOrder(S, n) \o <<>>
<1> DEFINE f(n) == [k \in 1..n |-> IF k \in S THEN <<k>> ELSE <<>>]
<1>1. \A n : InOrder(S, n) = Concat(f(n), n)
  BY DEF InOrder
<1>2. ASSUME NEW n \in Nat PROVE Concat(f(n+1), n) = Concat(f(n), n)
  <2>1. \A k \in 1..n : f(n+1)[k] = f(n)[k]
    OBVIOUS
  <2> HIDE DEF f
  <2>2. QED
    BY <2>1, ConcatSame
<1>3. ASSUME NEW n \in Nat
      PROVE  f(n+1)[n+1] = IF n+1 \in S THEN <<n+1>> ELSE <<>>
  OBVIOUS
<1> HIDE DEF f
<1>4. ASSUME NEW n \in Nat PROVE InOrder(S, n+1) = Behind(InOrder(S, n), f(n+1)[n+1])
  BY <1>1, <1>2, ConcatSteps DEF Behind
<1>5. InOrder(S, 0) = <<>>
  BY <1>1, ConcatSteps
<1>6. QED
  BY <1>3, <1>4, <1>5 DEF Behind

LEMMA InOrderFacts ==
  ASSUME NEW S, NEW n \in Nat
  PROVE  /\ InOrder(S, n) \in Seq(S \cap (1..n))
         /\ \A k \in S \cap (1..n) : \E m \in 1..Len(InOrder(S, n)) : InOrder(S, n)[m] = k
         /\ n+1 \in S => InOrder(S, n+1) = Append(InOrder(S, n), n+1)
         /\ n+1 \notin S => InOrder(S, n+1) = InOrder(S, n)
<1> DEFINE Listed(m) == /\ InOrder(S, m) \in Seq(S \cap (1..m))
                        /\ \A k \in S \cap (1..m) :
                             \E j \in 1..Len(InOrder(S, m)) : InOrder(S, m)[j] = k
           T == {m \in Nat : Listed(m)}
<1>1. ASSUME NEW m \in Nat, InOrder(S, m) \in Seq(S \cap (1..m))
      PROVE  /\ m+1 \in S => InOrder(S, m+1) = Append(InOrder(S, m), m+1)
             /\ m+1 \notin S => InOrder(S, m+1) = InOrder(S, m)
  <2>1. \A X : \A s \in Seq(X) : s \o <<>> = s /\ \A e : s \o <<e>> = Append(s, e)
    OBVIOUS
  <2>2. /\ m+1 \in S => InOrder(S, m+1) = InOrder(S, m) \o <<m+1>>
        /\ m+1 \notin S => InOrder(S, m+1) = InOrder(S, m) \o <<>>
    BY InOrderSteps
  <2>3. QED
    BY <1>1, <2>1, <2>2
<1>2. 0 \in T
  <2>1. InOrder(S, 0) = <<>>
    BY InOrderSteps
  <2>2. \A X : <<>> \in Seq(X)
    OBVIOUS
  <2>3. S \cap (1..0) = {}
    OBVIOUS
  <2>4. Listed(0)
    BY <2>1, <2>2, <2>3
  <2>5. QED
    BY <2>4
<1>3. ASSUME NEW m \in T PROVE m+1 \in T
  <2>0. m \in Nat /\ Listed(m)
    OBVIOUS
  <2>1. S \cap (1..m) \subseteq S \cap (1..m+1)
    BY <2>0
  <2>2. CASE m+1 \in S
    <3> DEFINE s == InOrder(S, m)
    <3>1. s \in Seq(S \cap (1..m+1)) /\ Len(s) \in Nat /\ m+1 \in S \cap (1..m+1)
      BY <2>0, <2>1, <2>2
    <3>2. InOrder(S, m+1) = Append(s, m+1)
      BY <1>1, <2>0, <2>2
    <3>3. \A k \in S \cap (1..m+1) : k \in S \cap (1..m) \/ k = m+1
      BY <2>0
    <3>4. \A k \in S \cap (1..m) : \E j \in 1..Len(s) : s[j] = k
      BY <2>0
    <3> HIDE DEF s
    <3>5. /\ Append(s, m+1) \in Seq(S \cap (1..m+1)) /\ Len(Append(s, m+1)) = Len(s) + 1
          /\ Append(s, m+1)[Len(s)+1] = m+1 /\ \A j \in 1..Len(s) : Append(s, m+1)[j] = s[j]
      BY <3>1
    <3>6. ASSUME NEW k \in S \cap (1..m+1) PROVE \E j \in 1..Len(s)+1 : Append(s, m+1)[j] = k
      <4>1. CASE k = m+1
        <5>1. Len(s)+1 \in 1..Len(s)+1
          BY <3>1
        <5>2. QED
          BY <3>5, <4>1, <5>1
      <4>2. CASE k # m+1
        <5>1. PICK j \in 1..Len(s) : s[j] = k
          BY <3>3, <3>4, <4>2
        <5>2. j \in 1..Len(s)+1
          BY <3>1
        <5>3. QED
          BY <3>5, <5>1, <5>2
      <4>3. QED
        BY <4>1, <4>2
    <3>7. m+1 \in Nat
      BY <2>0
    <3>8. QED
      BY <3>2, <3>5, <3>6, <3>7
  <2>3. CASE m+1 \notin S
    <3>1. S \cap (1..m) = S \cap (1..m+1) /\ m+1 \in Nat
      BY <2>0, <2>3
    <3>2. InOrder(S, m+1) = InOrder(S, m)
      BY <1>1, <2>0, <2>3
    <3>3. QED
      BY <2>0, <3>1, <3>2
  <2>4. QED
    BY <2>2, <2>3
<1> HIDE DEF T
<1>4. T = Nat
  <2>1. T \subseteq Nat
    BY DEF T
  <2>2. QED
    BY <1>2, <1>3, <2>1, Induct
<1>5. Listed(n)
  BY <1>4 DEF T
<1>6. QED
  BY <1>1, <1>5

\* A list depends on the members up to its bound.
LEMMA InOrderSame ==
  ASSUME NEW S, NEW T, NEW n \in Nat, \A k \in 1..n : k \in S <=> k \in T
  PROVE  InOrder(S, n) = InOrder(T, n)
<1>1. [k \in 1..n |-> IF k \in S THEN <<k>> ELSE <<>>] = [k \in 1..n |-> IF k \in T THEN <<k>> ELSE <<>>]
  OBVIOUS
<1>2. QED
  BY <1>1 DEF InOrder

-----------------------------------------------------------------------------
\* Byte a of row m, of rows of R bytes.
Place(R, m, a) == m * R + a

\* Rows of R bytes one after the other do not overlap.
LEMMA RowsApart ==
  ASSUME NEW R \in Nat, NEW e \in Nat, NEW j \in Nat, NEW a \in 0..R-1, NEW b \in 0..R-1,
         Place(R, e, a) = Place(R, j, b)
  PROVE  e = j /\ a = b
<1>0. e * R + a = j * R + b
  BY DEF Place
<1>1. ASSUME NEW m \in Nat, NEW n \in Nat, m < n PROVE m * R + R <= n * R
  <2>1. n = m + 1 + (n - m - 1) /\ n - m - 1 \in Nat
    BY <1>1
  <2>2. \A d \in Nat : (m + 1 + d) * R = m * R + R + d * R /\ d * R >= 0
    OBVIOUS
  <2>3. QED
    BY <2>1, <2>2
<1>2. ~(e < j)
  <2> SUFFICES ASSUME e < j PROVE FALSE
    OBVIOUS
  <2>1. e * R + R <= j * R /\ e * R \in Nat /\ j * R \in Nat
    BY <1>1
  <2>2. QED
    BY <1>0, <2>1
<1>3. ~(j < e)
  <2> SUFFICES ASSUME j < e PROVE FALSE
    OBVIOUS
  <2>1. j * R + R <= e * R /\ e * R \in Nat /\ j * R \in Nat
    BY <1>1
  <2>2. QED
    BY <1>0, <2>1
<1>4. e = j
  BY <1>2, <1>3
<1>5. e * R \in Nat
  OBVIOUS
<1>6. QED
  BY <1>0, <1>4, <1>5

\* The fields of a row lie one behind the other.
LEMMA ColumnsApart ==
  ASSUME NEW t, IsTable(t)
  PROVE  /\ num_cols(t) \in Nat /\ row_size(t) \in Nat
         /\ \A j \in 0..num_cols(t)-1 :
              /\ t.widths[j+1] \in {1, 2, 4, 8} /\ calc_offset(t, j) \in Nat
              /\ calc_offset(t, j) + t.widths[j+1] <= row_size(t)
              /\ \A c \in j+1..num_cols(t)-1 :
                   calc_offset(t, j) + t.widths[j+1] <= calc_offset(t, c)
<1> DEFINE w == t.widths
           n == num_cols(t)
<1>1. n \in Nat /\ \A k \in 1..n : w[k] \in {1, 2, 4, 8}
  BY DEF IsTable, num_cols
<1>2. \A k \in 1..n : w[k] \in Nat
  BY <1>1
<1>3. \A j \in 0..n-1 : w[j+1] \in {1, 2, 4, 8}
  BY <1>1
<1> HIDE DEF w, n
<1>4. \A m \in 0..n : Sum(w, m) \in Nat
  BY <1>1, <1>2, SumNat
<1>5. ASSUME NEW j \in 0..n-1, NEW c \in j+1..n PROVE Sum(w, j) + w[j+1] <= Sum(w, c)
  BY <1>1, <1>2, SumGap
<1>6. \A j \in 0..n-1 : \A c \in j+1..n-1 : c \in j+1..n
  BY <1>1
<1>7. \A j \in 0..n-1 : n \in j+1..n /\ j \in 0..n
  BY <1>1
<1>8. n \in 0..n
  BY <1>1
<1>9. QED
  BY <1>1, <1>3, <1>4, <1>5, <1>6, <1>7, <1>8 DEF w, n, row_size, calc_offset

\* No two columns begin at the same byte.
LEMMA ColumnIsThere ==
  ASSUME NEW t, IsTable(t), NEW j \in 0..num_cols(t)-1, NEW c \in 0..num_cols(t)-1,
         calc_offset(t, j) = calc_offset(t, c)
  PROVE  j = c
<1>1. num_cols(t) \in Nat
  BY ColumnsApart
<1>2. ASSUME NEW a \in 0..num_cols(t)-1, NEW b \in 0..num_cols(t)-1, a < b
      PROVE  calc_offset(t, a) < calc_offset(t, b)
  <2>1. b \in a+1..num_cols(t)-1
    BY <1>1, <1>2
  <2>2. /\ t.widths[a+1] \in {1, 2, 4, 8} /\ calc_offset(t, a) \in Nat /\ calc_offset(t, b) \in Nat
        /\ calc_offset(t, a) + t.widths[a+1] <= calc_offset(t, b)
    BY <2>1, ColumnsApart
  <2>3. QED
    BY <2>2
<1>3. calc_offset(t, j) \in Nat /\ calc_offset(t, c) \in Nat
  BY ColumnsApart
<1>4. ~(j < c) /\ ~(c < j)
  BY <1>2, <1>3
<1>5. QED
  BY <1>1, <1>4

\* When every field has an address of its own, it is found there.
LEMMA FieldIsThere ==
  ASSUME NEW t, NEW at, NEW f \in Fields(t),
         \A g \in Fields(t) : at[g] = at[f] => g = f
  PROVE  /\ at[f] \in DOMAIN MemoryOf(t, at)
         /\ MemoryOf(t, at)[at[f]] = FieldValue(t, f[1], f[2])
<1>1. (CHOOSE g \in Fields(t) : at[g] = at[f]) = f
  OBVIOUS
<1>2. at[f] \in {at[g] : g \in Fields(t)}
  OBVIOUS
<1>3. MemoryOf(t, at)[at[f]] =
        LET g == CHOOSE h \in Fields(t) : at[h] = at[f] IN FieldValue(t, g[1], g[2])
  BY <1>2, Zenon DEF MemoryOf
<1>4. DOMAIN MemoryOf(t, at) = {at[g] : g \in Fields(t)}
  BY DEF MemoryOf
<1>5. QED
  BY <1>1, <1>2, <1>3, <1>4

\* Where the fields of a row store are.
At(t, f) == Place(row_size(t), f[1], calc_offset(t, f[2]))

LEMMA FieldsApart ==
  ASSUME NEW t, IsTable(t), NEW f \in Fields(t), NEW g \in Fields(t), At(t, g) = At(t, f)
  PROVE  g = f
<1>1. /\ f[1] \in 0..t.rows-1 /\ f[2] \in 0..num_cols(t)-1 /\ f = <<f[1], f[2]>>
      /\ g[1] \in 0..t.rows-1 /\ g[2] \in 0..num_cols(t)-1 /\ g = <<g[1], g[2]>>
  BY DEF Fields
<1>2. f[1] \in Nat /\ g[1] \in Nat /\ row_size(t) \in Nat /\ num_cols(t) \in Nat
  BY <1>1, ColumnsApart DEF IsTable
<1>3. calc_offset(t, f[2]) \in 0..row_size(t)-1 /\ calc_offset(t, g[2]) \in 0..row_size(t)-1
  BY <1>1, <1>2, ColumnsApart
<1>4. g[1] = f[1] /\ calc_offset(t, g[2]) = calc_offset(t, f[2])
  BY <1>2, <1>3, RowsApart DEF At
<1>5. g[2] = f[2]
  BY <1>1, <1>4, ColumnIsThere
<1>6. QED
  BY <1>1, <1>4, <1>5

LEMMA FieldsAre ==
  ASSUME NEW t, NEW e \in 0..t.rows-1, NEW j \in 0..num_cols(t)-1
  PROVE  <<e, j>> \in Fields(t) /\ <<e, j>>[1] = e /\ <<e, j>>[2] = j
BY DEF Fields

\* The row store has row i at i * row_size, and its fields in order.
LEMMA RowStore ==
  ASSUME NEW t, IsTable(t), NEW e \in 0..t.rows-1, NEW j \in 0..num_cols(t)-1
  PROVE  /\ e * row_size(t) + calc_offset(t, j) \in DOMAIN db_populate_row(t)
         /\ db_populate_row(t)[e * row_size(t) + calc_offset(t, j)] = FieldValue(t, e, j)
<1> DEFINE at == [f \in Fields(t) |->
                    Sum([r \in 1..f[1] |-> Sum(t.widths, num_cols(t))], f[1]) + Sum(t.widths, f[2])]
<1>1. db_populate_row(t) = MemoryOf(t, at)
  BY DEF db_populate_row
<1>0. t.rows \in Nat
  BY DEF IsTable
<1>2. ASSUME NEW f \in Fields(t)
      PROVE  /\ f[1] \in 0..t.rows-1 /\ f[2] \in 0..num_cols(t)-1 /\ f = <<f[1], f[2]>>
             /\ at[f] = f[1] * row_size(t) + calc_offset(t, f[2])
  <2>1. f[1] \in 0..t.rows-1 /\ f[2] \in 0..num_cols(t)-1 /\ f = <<f[1], f[2]>>
    BY DEF Fields
  <2>2. at[f] = Sum([r \in 1..f[1] |-> row_size(t)], f[1]) + calc_offset(t, f[2])
    BY DEF row_size, calc_offset
  <2>3. \A m \in Nat : Sum([r \in 1..m |-> row_size(t)], m) = m * row_size(t)
    BY ColumnsApart, SumConstant
  <2>4. f[1] \in Nat
    BY <1>0, <2>1
  <2>5. QED
    BY <2>1, <2>2, <2>3, <2>4
<1> HIDE DEF at
<1>3. ASSUME NEW f \in Fields(t), NEW g \in Fields(t), at[g] = at[f] PROVE g = f
  <2>1. At(t, g) = At(t, f)
    BY <1>2, <1>3 DEF At, Place
  <2>2. QED
    BY <2>1, FieldsApart
<1>4. <<e, j>> \in Fields(t) /\ <<e, j>>[1] = e /\ <<e, j>>[2] = j
  BY FieldsAre
<1>5. at[<<e, j>>] \in DOMAIN MemoryOf(t, at) /\ MemoryOf(t, at)[at[<<e, j>>]] = FieldValue(t, e, j)
  BY <1>3, <1>4, FieldIsThere
<1>6. at[<<e, j>>] = e * row_size(t) + calc_offset(t, j)
  BY <1>2, <1>4
<1>7. QED
  BY <1>1, <1>5, <1>6

\* The column store has column j, a field per row, behind the columns before it.
LEMMA ColumnStore ==
  ASSUME NEW t, IsTable(t), NEW e \in 0..t.rows-1, NEW j \in 0..num_cols(t)-1
  PROVE  db_populate_col(t)[calc_offset(t, j) * t.rows + e * t.widths[j+1]] = FieldValue(t, e, j)
<1> DEFINE at == [f \in Fields(t) |-> Sum([c \in 1..f[2] |-> t.widths[c] * t.rows], f[2])
                                     + f[1] * t.widths[f[2]+1]]
<1>0. t.rows \in Nat /\ num_cols(t) \in Nat
  BY ColumnsApart DEF IsTable
<1>1. db_populate_col(t) = MemoryOf(t, at)
  BY DEF db_populate_col
<1>2. ASSUME NEW f \in Fields(t)
      PROVE  /\ f[1] \in 0..t.rows-1 /\ f[2] \in 0..num_cols(t)-1 /\ f = <<f[1], f[2]>>
             /\ at[f] = calc_offset(t, f[2]) * t.rows + f[1] * t.widths[f[2]+1]
  <2>1. f[1] \in 0..t.rows-1 /\ f[2] \in 0..num_cols(t)-1 /\ f = <<f[1], f[2]>>
    BY DEF Fields
  <2>2. ASSUME NEW m \in 0..num_cols(t)-1
        PROVE  Sum([c \in 1..m |-> t.widths[c] * t.rows], m) = calc_offset(t, m) * t.rows
    <3> DEFINE g == [c \in 1..m |-> t.widths[c] * t.rows]
    <3>1. m \in Nat
      BY <1>0
    <3>2. \A c \in 1..m : t.widths[c] \in Nat /\ g[c] = t.widths[c] * t.rows
      <4> TAKE c \in 1..m
      <4>1. c-1 \in 0..num_cols(t)-1 /\ (c-1)+1 = c
        BY <1>0
      <4>2. QED
        BY <4>1, ColumnsApart
    <3> HIDE DEF g
    <3>3. Sum(g, m) = Sum(t.widths, m) * t.rows
      BY <1>0, <3>1, <3>2, SumTimes
    <3>4. QED
      BY <3>3 DEF g, calc_offset
  <2>3. QED
    BY <2>1, <2>2
<1> HIDE DEF at
<1>3. ASSUME NEW f \in Fields(t), NEW g \in Fields(t), f[2] < g[2] PROVE at[f] < at[g]
  <2>1. /\ f[1] \in 0..t.rows-1 /\ g[1] \in 0..t.rows-1
        /\ f[2] \in 0..num_cols(t)-1 /\ g[2] \in f[2]+1..num_cols(t)-1
    BY <1>0, <1>2, <1>3
  <2>2. /\ t.widths[f[2]+1] \in Nat \ {0} /\ t.widths[g[2]+1] \in Nat
        /\ calc_offset(t, f[2]) \in Nat /\ calc_offset(t, g[2]) \in Nat
        /\ calc_offset(t, f[2]) + t.widths[f[2]+1] <= calc_offset(t, g[2])
    <3>1. g[2] \in 0..num_cols(t)-1
      BY <1>2
    <3>2. t.widths[f[2]+1] \in {1, 2, 4, 8} /\ t.widths[g[2]+1] \in {1, 2, 4, 8}
      BY <2>1, <3>1, ColumnsApart, Zenon
    <3>3. /\ calc_offset(t, f[2]) \in Nat /\ calc_offset(t, g[2]) \in Nat
          /\ calc_offset(t, f[2]) + t.widths[f[2]+1] <= calc_offset(t, g[2])
      BY <2>1, <3>1, ColumnsApart, Zenon
    <3>4. QED
      BY <3>2, <3>3
  <2>3. ASSUME NEW n \in Nat, NEW a \in 0..n-1, NEW b \in 0..n-1,
               NEW w \in Nat \ {0}, NEW v \in Nat, NEW p \in Nat, NEW q \in Nat, p + w <= q
        PROVE  p * n + a * w < q * n + b * v
    <3>1. a * w < n * w /\ a * w \in Nat
      <4>1. n = a + (n-a) /\ n-a \in Nat \ {0}
        BY <2>3
      <4>2. \A d \in Nat \ {0} : (a + d) * w = a * w + d * w /\ d * w > 0
        BY <2>3
      <4>3. a * w \in Nat
        BY <2>3
      <4>4. QED
        BY <4>1, <4>2, <4>3
    <3>2. p * n + w * n <= q * n /\ p * n \in Nat
      <4>1. q = p + w + (q - p - w) /\ q - p - w \in Nat
        BY <2>3
      <4>2. \A d \in Nat : (p + w + d) * n = p * n + w * n + d * n /\ d * n >= 0
        BY <2>3
      <4>3. p * n \in Nat /\ w * n \in Nat
        BY <2>3
      <4>4. QED
        BY <4>1, <4>2, <4>3
    <3>3. w * n = n * w /\ b * v \in Nat /\ n * w \in Nat /\ q * n \in Nat
      BY <2>3
    <3>4. QED
      BY <3>1, <3>2, <3>3
  <2>4. calc_offset(t, f[2]) * t.rows + f[1] * t.widths[f[2]+1]
          < calc_offset(t, g[2]) * t.rows + g[1] * t.widths[g[2]+1]
    BY ONLY <1>0, <2>1, <2>2, <2>3, ZenonT(30)
  <2>5. QED
    BY <1>2, <2>4
<1>4. ASSUME NEW f \in Fields(t), NEW g \in Fields(t), at[g] = at[f] PROVE g = f
  <2>1. /\ f[1] \in 0..t.rows-1 /\ g[1] \in 0..t.rows-1
        /\ f[2] \in 0..num_cols(t)-1 /\ g[2] \in 0..num_cols(t)-1
    BY <1>2
  <2>2. \A h \in Fields(t) : at[h] \in Nat
    <3> TAKE h \in Fields(t)
    <3>1. h[1] \in Nat /\ t.widths[h[2]+1] \in Nat /\ calc_offset(t, h[2]) \in Nat
      BY <1>0, <1>2, ColumnsApart
    <3>2. \A a, b, c, d \in Nat : a * b + c * d \in Nat
      OBVIOUS
    <3>3. calc_offset(t, h[2]) * t.rows + h[1] * t.widths[h[2]+1] \in Nat
      BY ONLY <1>0, <3>1, <3>2, Zenon
    <3>4. QED
      BY <1>2, <3>3
  <2>3. f[2] = g[2]
    <3>1. at[f] \in Nat /\ at[g] \in Nat
      BY <2>2
    <3>2. ~(f[2] < g[2]) /\ ~(g[2] < f[2])
      BY <1>3, <1>4, <3>1
    <3>3. QED
      BY <1>0, <2>1, <3>2
  <2>4. \A p, a, b \in Nat : \A w \in Nat \ {0} : p + a * w = p + b * w => a = b
    <3> SUFFICES ASSUME NEW p \in Nat, NEW a \in Nat, NEW b \in Nat, NEW w \in Nat \ {0},
                        p + a * w = p + b * w
                 PROVE  a = b
      OBVIOUS
    <3>1. a * w \in Int /\ b * w \in Int
      OBVIOUS
    <3>2. (a - b) * w = a * w - b * w
      OBVIOUS
    <3>3. (a - b) * w = 0
      BY <3>1, <3>2
    <3>4. QED
      BY <3>3
  <2>5. /\ t.widths[f[2]+1] \in Nat \ {0} /\ calc_offset(t, f[2]) * t.rows \in Nat
        /\ f[1] \in Nat /\ g[1] \in Nat
    <3>1. t.widths[f[2]+1] \in {1, 2, 4, 8} /\ calc_offset(t, f[2]) \in Nat
      BY <2>1, ColumnsApart
    <3>2. QED
      BY <1>0, <2>1, <3>1
  <2>6. calc_offset(t, f[2]) * t.rows + f[1] * t.widths[f[2]+1]
          = calc_offset(t, f[2]) * t.rows + g[1] * t.widths[f[2]+1]
    BY <1>2, <1>4, <2>3
  <2>7. f[1] = g[1]
    BY ONLY <2>4, <2>5, <2>6, ZenonT(30)
  <2>8. QED
    BY <1>2, <2>3, <2>7
<1>5. <<e, j>> \in Fields(t) /\ <<e, j>>[1] = e /\ <<e, j>>[2] = j
  BY FieldsAre
<1>6. MemoryOf(t, at)[at[<<e, j>>]] = FieldValue(t, e, j)
  BY <1>4, <1>5, FieldIsThere
<1>7. at[<<e, j>>] = calc_offset(t, j) * t.rows + e * t.widths[j+1]
  BY <1>2, <1>5
<1>8. QED
  BY <1>1, <1>6, <1>7

\* The window has row i of the columns cols at i * PackedRowSize, in the order
\* of their registers, and holds what the engine takes for them.
LEMMA WindowTakes ==
  ASSUME NEW db, NEW offsets, NEW t, IsTable(t),
         NEW cols \in Seq(0..num_cols(t)-1), Len(cols) <= MaxCols,
         NEW e \in 0..t.rows-1, NEW c \in 1..Len(cols)
  PROVE  Window(db, t, cols, offsets)[e * PackedRowSize(t, cols) + PackedOffset(t, cols, c-1)]
           = db[e * row_size(t) + TakenFrom(offsets, c-1)]
<1> DEFINE n == Len(cols)
           v == [rows |-> t.rows, widths |-> [k \in 1..n |-> t.widths[cols[k]+1]]]
<1>0. /\ t.rows \in Nat /\ num_cols(t) \in Nat /\ n \in Nat
      /\ \A k \in 1..n : cols[k] \in 0..num_cols(t)-1
  <2>1. t.rows \in Nat
    BY DEF IsTable
  <2>2. num_cols(t) \in Nat
    BY ColumnsApart, Zenon
  <2> DEFINE C == 0..num_cols(t)-1
  <2>3. cols \in Seq(C)
    OBVIOUS
  <2> HIDE DEF C
  <2>4. n \in Nat /\ \A k \in 1..n : cols[k] \in C
    BY ONLY <2>3
  <2>5. QED
    BY <2>1, <2>2, <2>4, Zenon DEF C
<1>1. IsTable(v) /\ v.rows = t.rows /\ num_cols(v) = n
      /\ \A k \in 1..n : v.widths[k] = t.widths[cols[k]+1]
  <2>1. \A k \in 1..n : t.widths[cols[k]+1] \in {1, 2, 4, 8}
    BY <1>0, ColumnsApart
  <2>2. v.widths \in Seq({1, 2, 4, 8}) /\ Len(v.widths) = n
    BY <1>0, <2>1
  <2>3. v.rows = t.rows /\ num_cols(v) = n /\ \A k \in 1..n : v.widths[k] = t.widths[cols[k]+1]
    BY <1>0, <2>2 DEF num_cols
  <2>4. IsTable(v)
    BY <1>0, <2>2, <2>3 DEF IsTable
  <2>5. QED
    BY <2>3, <2>4
<1> HIDE DEF v
<1>2. \A m \in 0..n : PackedOffset(t, cols, m) = calc_offset(v, m)
  <2> TAKE m \in 0..n
  <2> DEFINE f == [k \in 1..m |-> t.widths[cols[k]+1]]
  <2>1. m \in Nat /\ \A k \in 1..m : f[k] = v.widths[k]
    <3>1. m \in Nat /\ \A k \in 1..m : k \in 1..n
      BY <1>0
    <3>2. \A k \in 1..m : f[k] = t.widths[cols[k]+1]
      BY Zenon
    <3>3. \A k \in 1..m : v.widths[k] = t.widths[cols[k]+1]
      BY <1>1, <3>1, Zenon
    <3>4. QED
      BY <3>1, <3>2, <3>3, Zenon
  <2> HIDE DEF f
  <2>2. Sum(f, m) = Sum(v.widths, m)
    BY <2>1, SumSame
  <2>3. QED
    BY <2>2 DEF f, PackedOffset, calc_offset
<1>3. PackedRowSize(t, cols) = row_size(v)
  BY <1>0, <1>1, <1>2 DEF PackedRowSize, row_size
<1> DEFINE W(a) == db[a[1] * row_size(t) + TakenFrom(offsets, a[2])]
<1> DEFINE P(a) == a[1] * PackedRowSize(t, cols) + PackedOffset(t, cols, a[2])
           C == (0..t.rows-1) \X (0..n-1)
<1>4. C = Fields(v) /\ \A g \in C : P(g) = At(v, g)
  <2>1. C = Fields(v)
    BY <1>1 DEF Fields
  <2>2. \A g \in C : g[1] \in Int /\ g[2] \in 0..n
    BY <1>0
  <2>3. \A g \in C : P(g) = At(v, g)
    BY <1>2, <1>3, <2>2 DEF At, Place
  <2>4. QED
    BY <2>1, <2>3
<1> DEFINE f == <<e, c-1>>
<1>5. f \in C /\ f[1] = e /\ f[2] = c-1
  <2>1. c-1 \in 0..n-1
    BY <1>0
  <2>2. QED
    BY <2>1
<1>6. P(f) = e * PackedRowSize(t, cols) + PackedOffset(t, cols, c-1)
  BY <1>5
<1> HIDE DEF f
<1>7. (CHOOSE g \in C : P(g) = P(f)) = f
  <2> HIDE DEF C, P
  <2>1. \A g \in C : P(g) = P(f) => g = f
    BY <1>1, <1>4, <1>5, FieldsApart
  <2>2. QED
    BY <1>5, <2>1
<1>8. Window(db, t, cols, offsets)[P(f)] = W(f)
  <2>1. Window(db, t, cols, offsets) = [a \in {P(g) : g \in C} |-> W(CHOOSE g \in C : P(g) = a)]
    BY DEF Window
  <2> HIDE DEF C, P, W
  <2>2. P(f) \in {P(g) : g \in C}
    BY <1>5
  <2>3. QED
    BY <1>7, <2>1, <2>2
<1>9. W(f) = db[e * row_size(t) + TakenFrom(offsets, c-1)]
  BY <1>5
<1>10. QED
  BY <1>6, <1>8, <1>9

\* A row of a table has 2040 bytes at most: a register holds every offset.
Short == 0..2040

LEMMA RowsAreShort ==
  ASSUME NEW t, IsTable(t)
  PROVE  \A j \in 0..num_cols(t)-1 : /\ calc_offset(t, j) \in Short
                                      /\ UShort(calc_offset(t, j)) = calc_offset(t, j)
<1> DEFINE w == t.widths
           n == num_cols(t)
<1>1. n \in Nat /\ n <= MaxCols /\ \A k \in 1..n : w[k] \in {1, 2, 4, 8}
  <2>1. n = Len(w) /\ w \in Seq({1, 2, 4, 8}) /\ n <= MaxCols
    BY DEF IsTable, num_cols
  <2> HIDE DEF n, w
  <2>2. n \in Nat /\ \A k \in 1..n : w[k] \in {1, 2, 4, 8}
    BY ONLY <2>1
  <2>3. QED
    BY <2>1, <2>2, Zenon
<1>2. \A k \in 1..n : w[k] \in 0..8
  BY <1>1
<1> HIDE DEF w
<1>3. Sum(w, n) <= n * 8
  <2>1. n \in Nat
    BY <1>1
  <2> HIDE DEF n
  <2>2. QED
    BY <1>2, <2>1, SumBound
<1>4. row_size(t) \in Short
  <2>1. row_size(t) = Sum(w, n)
    BY DEF row_size, calc_offset, w
  <2>2. row_size(t) \in Nat
    BY ColumnsApart
  <2>3. ASSUME NEW m \in Nat, m <= MaxCols, NEW r \in Nat, r <= m * 8 PROVE r \in Short
    BY <2>3 DEF MaxCols, Short
  <2> HIDE DEF n
  <2>4. row_size(t) <= n * 8
    BY <1>3, <2>1, Zenon
  <2>5. QED
    BY <1>1, <2>2, <2>3, <2>4, Zenon
<1>5. ASSUME NEW j \in 0..n-1 PROVE calc_offset(t, j) \in Short
  <2>1. /\ t.widths[j+1] \in {1, 2, 4, 8} /\ calc_offset(t, j) \in Nat /\ row_size(t) \in Nat
        /\ calc_offset(t, j) + t.widths[j+1] <= row_size(t)
    BY ColumnsApart
  <2>2. ASSUME NEW x \in Nat, NEW y \in {1, 2, 4, 8}, NEW r \in Short, x + y <= r PROVE x \in Short
    BY <2>2 DEF Short
  <2>3. QED
    BY <1>4, <2>1, <2>2, Zenon
<1>6. \A x \in Short : UShort(x) = x
  BY DEF UShort, Short
<1>7. QED
  BY <1>5, <1>6

\* The distances of a SELECT lead the engine to its columns, in whatever order
\* they are: a distance back is one forth in 16 bits.
LEMMA DistancesLead ==
  ASSUME NEW t, IsTable(t), NEW cols \in Seq(0..num_cols(t)-1), NEW c \in 1..Len(cols)
  PROVE  TakenFrom(Distances(t, cols), c-1) = calc_offset(t, cols[c])
<1> DEFINE n == Len(cols)
           at(k) == calc_offset(t, cols[k])
           d == Distances(t, cols)
<1>0. n \in Nat /\ \A k \in 1..n : cols[k] \in 0..num_cols(t)-1
  <2> DEFINE C == 0..num_cols(t)-1
  <2>1. cols \in Seq(C)
    OBVIOUS
  <2> HIDE DEF C
  <2>2. n \in Nat /\ \A k \in 1..n : cols[k] \in C
    BY ONLY <2>1
  <2>3. QED
    BY <2>2, Zenon DEF C
<1>1. \A k \in 1..n : at(k) \in Short /\ FromStart(t, cols)[k] = at(k)
  <2> TAKE k \in 1..n
  <2>1. at(k) \in Short /\ UShort(at(k)) = at(k)
    <3>1. cols[k] \in 0..num_cols(t)-1
      BY <1>0
    <3>2. QED
      BY <3>1, RowsAreShort, Zenon
  <2>2. FromStart(t, cols)[k] = UShort(at(k))
    BY DEF FromStart
  <2>3. QED
    BY <2>1, <2>2
<1>2. \A k \in 1..n : d[k] = IF k = 1 THEN at(1) ELSE UShort(at(k) - at(k-1))
  <2> TAKE k \in 1..n
  <2>1. d[k] = IF k = 1 THEN FromStart(t, cols)[1]
                        ELSE UShort(FromStart(t, cols)[k] - FromStart(t, cols)[k-1])
    BY Zenon DEF Distances
  <2> HIDE DEF at, d, n
  <2>2. CASE k = 1
    BY <1>1, <2>1, <2>2
  <2>3. CASE k # 1
    <3>1. k-1 \in 1..n
      BY <1>0, <2>3
    <3>2. FromStart(t, cols)[k] = at(k) /\ FromStart(t, cols)[k-1] = at(k-1)
      BY <1>1, <3>1
    <3>3. QED
      BY <2>1, <2>3, <3>2
  <2>4. QED
    BY <2>2, <2>3
<1> HIDE DEF d, at, n
<1> DEFINE S == {m \in Nat : m+1 <= n => Sum(d, m+1) \in Nat /\ UShort(Sum(d, m+1)) = at(m+1)}
<1>3. Sum(d, 0) = 0 /\ \A m \in Nat : Sum(d, m+1) = Sum(d, m) + d[m+1]
  BY SumSteps
<1>4. 0 \in S
  <2> SUFFICES ASSUME 0+1 <= n PROVE Sum(d, 0+1) \in Nat /\ UShort(Sum(d, 0+1)) = at(0+1)
    OBVIOUS
  <2>1. 1 \in 1..n /\ 0+1 = 1
    BY <1>0
  <2>2. d[1] = at(1) /\ at(1) \in Short
    BY <1>1, <1>2, <2>1
  <2>3. Sum(d, 0+1) = at(1)
    <3>1. Sum(d, 0+1) = Sum(d, 0) + d[0+1]
      BY <1>3
    <3>2. Sum(d, 0) = 0 /\ d[0+1] = at(1)
      BY <1>3, <2>1, <2>2, Zenon
    <3>3. \A x \in Short : 0 + x = x
      BY DEF Short
    <3>4. QED
      BY <2>2, <3>1, <3>2, <3>3, Zenon
  <2>4. \A x \in Short : x \in Nat /\ UShort(x) = x
    BY DEF UShort, Short
  <2>5. QED
    BY <2>1, <2>2, <2>3, <2>4, Zenon
<1>5. ASSUME NEW m \in S PROVE m+1 \in S
  <2> SUFFICES ASSUME (m+1)+1 <= n
               PROVE  Sum(d, (m+1)+1) \in Nat /\ UShort(Sum(d, (m+1)+1)) = at((m+1)+1)
    OBVIOUS
  <2>1. m \in Nat /\ m+1 \in Nat /\ m+1 \in 1..n /\ (m+1)+1 \in 1..n /\ (m+1)+1 # 1
        /\ ((m+1)+1)-1 = m+1
    BY <1>0
  <2>2. Sum(d, m+1) \in Nat /\ UShort(Sum(d, m+1)) = at(m+1)
    BY <2>1
  <2>3. d[(m+1)+1] = UShort(at((m+1)+1) - at(m+1))
    BY <1>2, <2>1
  <2>4. Sum(d, (m+1)+1) = Sum(d, m+1) + d[(m+1)+1]
    BY <1>3, <2>1
  <2>5. at(m+1) \in Short /\ at((m+1)+1) \in Short
    BY <1>1, <2>1
  <2> DEFINE x == Sum(d, m+1)
             a == at(m+1)
             b == at((m+1)+1)
  <2>6. x + UShort(b - a) \in Nat /\ UShort(x + UShort(b - a)) = b
    <3> HIDE DEF x, a, b
    <3>1. x \in Nat /\ UShort(x) = a /\ a \in Short /\ b \in Short
      BY <2>2, <2>5 DEF x, a, b
    <3>2. QED
      BY ONLY <3>1 DEF UShort, Short
  <2>7. Sum(d, (m+1)+1) = x + UShort(b - a)
    BY <2>3, <2>4
  <2>8. QED
    BY <2>6, <2>7, Zenon
<1> HIDE DEF S
<1>6. S = Nat
  <2>1. S \subseteq Nat
    BY DEF S
  <2>2. QED
    BY <1>4, <1>5, <2>1, Induct
<1>7. c-1 \in S /\ (c-1)+1 = c /\ c <= n
  BY <1>0, <1>6 DEF n
<1>8. UShort(Sum(d, c)) = at(c)
  BY <1>7 DEF S
<1>9. QED
  BY <1>7, <1>8 DEF TakenFrom, at, d

\* The window of a SELECT has row i of the columns cols at i * PackedRowSize,
\* in the order of cols.
LEMMA WindowStore ==
  ASSUME NEW t, IsTable(t), NEW cols \in Seq(0..num_cols(t)-1), Len(cols) <= MaxCols,
         NEW e \in 0..t.rows-1, NEW c \in 1..Len(cols)
  PROVE  Memory("RME", t, cols)[e * PackedRowSize(t, cols) + PackedOffset(t, cols, c-1)]
           = FieldValue(t, e, cols[c])
<1> DEFINE db == db_populate_row(t)
           d == Distances(t, cols)
<1>1. Memory("RME", t, cols) = Window(db, t, cols, d)
  BY DEF Memory
<1>2. cols[c] \in 0..num_cols(t)-1
  <2> DEFINE C == 0..num_cols(t)-1
  <2>1. cols \in Seq(C)
    OBVIOUS
  <2> HIDE DEF C
  <2>2. cols[c] \in C
    BY ONLY <2>1
  <2>3. QED
    BY <2>2, Zenon DEF C
<1>3. TakenFrom(d, c-1) = calc_offset(t, cols[c])
  BY DistancesLead
<1>4. db[e * row_size(t) + calc_offset(t, cols[c])] = FieldValue(t, e, cols[c])
  BY <1>2, RowStore
<1> HIDE DEF db, d
<1>5. Window(db, t, cols, d)[e * PackedRowSize(t, cols) + PackedOffset(t, cols, c-1)]
        = db[e * row_size(t) + TakenFrom(d, c-1)]
  BY WindowTakes
<1>6. QED
  BY <1>1, <1>3, <1>4, <1>5

-----------------------------------------------------------------------------
\* The hash table of q3.
HT == INSTANCE HashTableProofs WITH Key <- Nat, Value <- Nat, MaxChain <- 0, call <- pc

-----------------------------------------------------------------------------
\* q1.  The rows of the column, in no store at all.
ColumnRows == [r \in 1..query.s.rows |-> FieldValue(query.s, r-1, query.col)]

\* The sum stays in the accumulator.
SumFits == width = 8 \/ ColumnSum(query.s.rows) < SumMod

AvgInv ==
  /\ store \in {"ROW", "COL", "RME"} /\ query \in AvgQuery /\ mem = AvgMem(store, query)
  /\ i \in 0..query.s.rows
  /\ SumFits => sum = ColumnSum(i)
  /\ AverageUnlessItWraps

\* A field of one or two bytes holds what fits it.
LEMMA ValueFits ==
  ASSUME NEW t, IsTable(t), NEW r \in 0..t.rows-1, NEW c \in 0..num_cols(t)-1
  PROVE  /\ FieldValue(t, r, c) \in Nat
         /\ t.widths[c+1] = 1 => FieldValue(t, r, c) < 256
         /\ t.widths[c+1] = 2 => FieldValue(t, r, c) < 65536
         /\ t.widths[c+1] \in {4, 8} => FieldValue(t, r, c) = 100 * r + c
<1> DEFINE n == 100 * r + c
           w == t.widths[c+1]
<1>1. n \in Nat
  BY ColumnsApart DEF IsTable
<1>2. w \in {1, 2, 4, 8}
  BY ColumnsApart
<1>3. FieldValue(t, r, c) = Truncate(n, w)
  BY DEF FieldValue
<1> HIDE DEF n, w
<1>4. /\ Truncate(n, w) \in Nat
      /\ w = 1 => Truncate(n, w) < 256
      /\ w = 2 => Truncate(n, w) < 65536
      /\ w \in {4, 8} => Truncate(n, w) = n
  BY ONLY <1>1, <1>2 DEF Truncate
<1>5. QED
  BY <1>3, <1>4 DEF n, w

\* Every turn reads the column's field of that row.
LEMMA AvgQueryFacts ==
  ASSUME NEW q \in AvgQuery
  PROVE  /\ IsTable(q.s) /\ q.s.rows \in Nat \ {0} /\ q.col \in 0..num_cols(q.s)-1
         /\ q.s.widths[q.col+1] \in {1, 2, 4, 8} /\ SumMod \in Nat \ {0}
<1>1. /\ IsTable(q.s) /\ q.s.rows > 0 /\ q.col \in 0..num_cols(q.s)-1
      /\ SumMod \in Nat \ {0}
  BY AvgAssumption, Zenon
<1>2. q.s.rows \in Nat \ {0}
  BY <1>1 DEF IsTable
<1>3. QED
  BY <1>1, <1>2, ColumnsApart

LEMMA AvgReads ==
  ASSUME AvgInv, i < query.s.rows
  PROVE  mem[Address] = FieldValue(query.s, i, query.col)
<1> DEFINE t == query.s
           c == query.col
<1>1. /\ IsTable(t) /\ c \in 0..num_cols(t)-1 /\ i \in 0..t.rows-1 /\ t.rows \in Nat
      /\ t.widths[c+1] \in {1, 2, 4, 8} /\ num_cols(t) \in Nat
      /\ store \in {"ROW", "COL", "RME"} /\ mem = AvgMem(store, query)
  BY AvgQueryFacts, ColumnsApart DEF AvgInv
<1>2. CASE store = "ROW"
  <2>1. mem = db_populate_row(t)
    BY <1>1, <1>2 DEF AvgMem, Memory
  <2>2. Address = i * row_size(t) + calc_offset(t, c)
    <3>1. Address = calc_offset(t, c) + i * row_size(t)
      BY <1>2 DEF Address
    <3>2. calc_offset(t, c) \in Nat /\ row_size(t) \in Nat /\ i \in Nat
      BY <1>1, ColumnsApart
    <3>3. \A x, y, z \in Nat : x + y * z = y * z + x
      OBVIOUS
    <3>4. QED
      BY ONLY <3>1, <3>2, <3>3, Zenon
  <2>3. QED
    BY <1>1, <2>1, <2>2, RowStore
<1>3. CASE store = "COL"
  <2>1. mem = db_populate_col(t)
    BY <1>1, <1>3 DEF AvgMem, Memory
  <2>2. Address = calc_offset(t, c) * t.rows + i * t.widths[c+1]
    BY <1>3 DEF Address, width
  <2>3. QED
    BY <1>1, <2>1, <2>2, ColumnStore
<1>4. CASE store = "RME"
  <2> DEFINE cols == <<c>>
  <2>1. mem = Memory("RME", t, cols)
    BY <1>1, <1>4 DEF AvgMem
  <2>2. cols \in Seq(0..num_cols(t)-1) /\ Len(cols) = 1 /\ cols[1] = c
    BY <1>1
  <2> HIDE DEF cols
  <2>3. PackedRowSize(t, cols) = t.widths[c+1] /\ PackedOffset(t, cols, 0) = 0
    <3> DEFINE f(m) == [k \in 1..m |-> t.widths[cols[k]+1]]
    <3>1. f(1)[1] = t.widths[c+1]
      BY <2>2
    <3>2. \A m : PackedOffset(t, cols, m) = Sum(f(m), m)
      BY DEF PackedOffset
    <3> HIDE DEF f
    <3>3. Sum(f(0), 0) = 0 /\ Sum(f(1), 0) = 0 /\ Sum(f(1), 0+1) = Sum(f(1), 0) + f(1)[0+1]
      BY SumSteps
    <3>4. Sum(f(1), 1) = f(1)[1]
      BY <1>1, <3>1, <3>3
    <3>5. QED
      BY <2>2, <3>1, <3>2, <3>3, <3>4 DEF PackedRowSize
  <2>4. 1 \in 1..Len(cols) /\ 1-1 = 0 /\ Len(cols) <= MaxCols
    BY <2>2 DEF MaxCols
  <2>5. Memory("RME", t, cols)[i * PackedRowSize(t, cols) + PackedOffset(t, cols, 0)]
          = FieldValue(t, i, c)
    <3>1. Memory("RME", t, cols)[i * PackedRowSize(t, cols) + PackedOffset(t, cols, 1-1)]
            = FieldValue(t, i, cols[1])
      BY <1>1, <2>2, <2>4, WindowStore, Zenon
    <3>2. QED
      BY <2>2, <2>4, <3>1
  <2>6. Address = i * t.widths[c+1]
    BY <1>4 DEF Address, width
  <2>7. \A x, y \in Nat : x * y + 0 = x * y
    OBVIOUS
  <2>8. i * t.widths[c+1] + 0 = i * t.widths[c+1]
    BY <1>1, <2>7
  <2>9. QED
    BY <2>1, <2>3, <2>5, <2>6, <2>8
<1>5. QED
  BY <1>1, <1>2, <1>3, <1>4

\* The column's sum grows by a row, and is below the largest of its values
\* times the rows.
LEMMA ColumnSums ==
  ASSUME query \in AvgQuery
  PROVE  /\ ColumnSum(0) = 0
         /\ \A n \in 0..query.s.rows : /\ ColumnSum(n) \in Nat
                                       /\ ColumnSum(n) <= ColumnSum(query.s.rows)
         /\ \A n \in 0..query.s.rows-1 :
              ColumnSum(n+1) = ColumnSum(n) + FieldValue(query.s, n, query.col)
         /\ width = 1 => ColumnSum(query.s.rows) <= query.s.rows * 255
         /\ width = 2 => ColumnSum(query.s.rows) <= query.s.rows * 65535
<1> DEFINE t == query.s
           f == ColumnRows
           N == query.s.rows
<1>1. IsTable(t) /\ N \in Nat /\ query.col \in 0..num_cols(t)-1
  BY AvgQueryFacts
<1>2. ASSUME NEW n \in 0..N PROVE ColumnSum(n) = Sum(f, n)
  <2> DEFINE g == [r \in 1..n |-> FieldValue(t, r-1, query.col)]
  <2>1. ColumnSum(n) = Sum(g, n)
    BY Zenon DEF ColumnSum
  <2>2. n \in Nat /\ \A r \in 1..n : g[r] = f[r]
    BY <1>1 DEF ColumnRows
  <2> HIDE DEF g
  <2>3. QED
    BY <2>1, <2>2, SumSame
<1>3. ASSUME NEW r \in 1..N
      PROVE  /\ f[r] = FieldValue(t, r-1, query.col) /\ f[r] \in Nat
             /\ width = 1 => f[r] < 256
             /\ width = 2 => f[r] < 65536
  <2>1. r-1 \in 0..N-1 /\ f[r] = FieldValue(t, r-1, query.col)
    BY <1>1 DEF ColumnRows
  <2>2. QED
    BY <1>1, <2>1, ValueFits DEF width
<1> HIDE DEF f
<1>4. Sum(f, 0) = 0
  BY SumSteps
<1>5. /\ \A n \in 0..N : Sum(f, n) \in Nat
      /\ \A n \in 0..N-1 : Sum(f, n+1) = Sum(f, n) + f[n+1]
  <2>1. N \in Nat /\ \A r \in 1..N : f[r] \in Nat
    BY <1>1, <1>3
  <2> HIDE DEF N
  <2>2. QED
    BY ONLY <2>1, SumNat
<1>6. ASSUME NEW n \in 0..N PROVE Sum(f, n) <= Sum(f, N)
  <2>1. N \in n..N /\ N \in Nat
    BY <1>1
  <2>2. \A r \in 1..N : f[r] \in Nat
    BY <1>3
  <2> HIDE DEF N
  <2>3. QED
    BY <2>1, <2>2, SumGrows
<1>7. ASSUME NEW c \in Nat, \A r \in 1..N : f[r] <= c PROVE Sum(f, N) <= N * c
  <2>1. \A r \in 1..N : f[r] \in 0..c
    BY <1>3, <1>7
  <2>2. QED
    BY <1>1, <2>1, SumBound
<1>8. width = 1 => Sum(f, N) <= N * 255
  <2> SUFFICES ASSUME width = 1 PROVE Sum(f, N) <= N * 255
    OBVIOUS
  <2>1. \A r \in 1..N : f[r] <= 255
    BY <1>3
  <2>2. QED
    BY <1>7, <2>1
<1>9. width = 2 => Sum(f, N) <= N * 65535
  <2> SUFFICES ASSUME width = 2 PROVE Sum(f, N) <= N * 65535
    OBVIOUS
  <2>1. \A r \in 1..N : f[r] <= 65535
    BY <1>3
  <2>2. QED
    BY <1>7, <2>1
<1>10. ASSUME NEW n \in 0..N-1 PROVE Sum(f, n+1) = Sum(f, n) + FieldValue(t, n, query.col)
  <2>1. n+1 \in 1..N /\ (n+1)-1 = n
    BY <1>1
  <2>2. QED
    BY <1>3, <1>5, <2>1
<1>11. 0 \in 0..N /\ N \in 0..N /\ \A n \in 0..N-1 : n \in 0..N /\ n+1 \in 0..N
  BY <1>1
<1>12. QED
  BY <1>2, <1>4, <1>5, <1>6, <1>8, <1>9, <1>10, <1>11

\* A quotient is as wide as the column.
LEMMA AverageFits ==
  ASSUME query \in AvgQuery
  PROVE  Truncate(Average, width) = Average
<1> DEFINE N == query.s.rows
           s == ColumnSum(N)
           w == width
           q == s \div N
<1>1. /\ N \in Nat \ {0} /\ s \in Nat /\ w \in {1, 2, 4, 8}
      /\ w = 1 => s <= N * 255
      /\ w = 2 => s <= N * 65535
  <2>1. N \in Nat \ {0} /\ w \in {1, 2, 4, 8}
    BY AvgQueryFacts DEF width
  <2>2. N \in 0..N
    BY <2>1
  <2>3. QED
    BY <2>1, <2>2, ColumnSums
<1>2. Average = q
  BY DEF Average
<1> HIDE DEF N, s, w
<1>3. q \in Nat /\ N * q <= s
  BY <1>1
<1> HIDE DEF q
<1>4. ASSUME NEW c \in Nat, s <= N * c PROVE q <= c
  <2> SUFFICES ASSUME q > c PROVE FALSE
    BY <1>3
  <2>1. q = c + 1 + (q - c - 1) /\ q - c - 1 \in Nat
    BY <1>3, <1>4
  <2>2. \A d \in Nat : N * (c + 1 + d) = N * c + N + N * d /\ N * d >= 0
    BY <1>1
  <2>3. N * q = N * c + N + N * (q - c - 1) /\ N * (q - c - 1) >= 0
    BY <2>1, <2>2
  <2>4. N * q \in Int /\ N * c \in Int /\ N * (q - c - 1) \in Int
    BY <1>1, <1>3
  <2>5. QED
    BY <1>1, <1>3, <1>4, <2>3, <2>4
<1>5. /\ w = 1 => q <= 255
      /\ w = 2 => q <= 65535
  BY <1>1, <1>4
<1>6. /\ \A n \in Nat : n <= 255 => n % 256 = n
      /\ \A n \in Nat : n <= 65535 => n % 65536 = n
  OBVIOUS
<1>7. Truncate(q, w) = q
  BY <1>1, <1>3, <1>5, <1>6 DEF Truncate
<1>8. QED
  BY <1>2, <1>7 DEF w

LEMMA AvgInitInv == ASSUME AvgInit PROVE AvgInv
<1>1. query \in AvgQuery /\ i = 0 /\ sum = 0 /\ res = {}
      /\ store \in {"ROW", "COL", "RME"} /\ mem = AvgMem(store, query)
  BY DEF AvgInit
<1>2. 0 \in 0..query.s.rows /\ ColumnSum(0) = 0
  BY <1>1, AvgQueryFacts, ColumnSums
<1>3. QED
  BY <1>1, <1>2 DEF AvgInv, AverageUnlessItWraps

LEMMA AvgNextInv ==
  ASSUME AvgInv, [AvgNext]_avgVars
  PROVE  AvgInv'
<1>1. /\ query \in AvgQuery /\ query' = query /\ store' = store /\ mem' = mem
      /\ query.s.rows \in Nat \ {0} /\ SumMod \in Nat \ {0} /\ i \in 0..query.s.rows
  BY AvgQueryFacts DEF AvgInv, AvgNext, Accumulate, Return, avgVars
<1>2. /\ Average' = Average
      /\ SumFits' = SumFits /\ AvgMem(store, query)' = AvgMem(store, query)
      /\ width' = width /\ ColumnSum(query.s.rows)' = ColumnSum(query.s.rows)
  BY <1>1 DEF ColumnSum, Average, SumFits, width
<1>3. CASE Accumulate
  <2>1. /\ i < query.s.rows /\ i' = i + 1 /\ res' = res
        /\ sum' = Accumulator(sum + FieldValue(query.s, i, query.col))
    BY <1>3, AvgReads DEF Accumulate
  <2>2. /\ i \in 0..query.s.rows-1 /\ i+1 \in 0..query.s.rows
        /\ ColumnSum(i+1) = ColumnSum(i) + FieldValue(query.s, i, query.col)
        /\ ColumnSum(i+1) \in Nat /\ ColumnSum(i+1) <= ColumnSum(query.s.rows)
        /\ ColumnSum(query.s.rows) \in Nat
    <3>1. i \in 0..query.s.rows-1 /\ i+1 \in 0..query.s.rows /\ query.s.rows \in 0..query.s.rows
      BY <1>1, <2>1
    <3>2. QED
      BY <1>1, <3>1, ColumnSums
  <2>3. SumFits => sum' = ColumnSum(i+1)
    <3> SUFFICES ASSUME SumFits PROVE sum' = ColumnSum(i+1)
      OBVIOUS
    <3>1. sum' = Accumulator(ColumnSum(i+1))
      BY <2>1, <2>2 DEF AvgInv
    <3>2. CASE width = 8
      BY <3>1, <3>2 DEF Accumulator
    <3>3. CASE width # 8
      <4>1. ColumnSum(i+1) < SumMod
        BY <1>1, <2>2, <3>3 DEF SumFits
      <4>2. \A n, m \in Nat : n < m => n % m = n
        OBVIOUS
      <4>3. QED
        BY <1>1, <2>2, <3>1, <3>3, <4>1, <4>2 DEF Accumulator
    <3>4. QED
      BY <3>2, <3>3
  <2>4. ColumnSum(i)' = ColumnSum(i+1)
    BY <1>1, <2>1 DEF ColumnSum
  <2>5. AverageUnlessItWraps'
    BY <1>1, <1>2, <2>1 DEF AvgInv, AverageUnlessItWraps
  <2>6. QED
    BY <1>1, <1>2, <2>1, <2>2, <2>3, <2>4, <2>5 DEF AvgInv
<1>4. CASE Return
  <2>1. /\ i = query.s.rows /\ i' = i /\ sum' = sum
        /\ res' = {Truncate(sum \div query.s.rows, width)}
    BY <1>4 DEF Return
  <2>2. SumFits => res' = {Average}
    BY <1>1, <2>1, AverageFits DEF AvgInv, Average
  <2>3. AverageUnlessItWraps'
    BY <1>1, <1>2, <2>2 DEF AverageUnlessItWraps, SumFits
  <2>4. ColumnSum(i)' = ColumnSum(i)
    BY <1>1, <2>1 DEF ColumnSum
  <2>5. QED
    BY <1>1, <1>2, <2>1, <2>3, <2>4 DEF AvgInv
<1>5. CASE UNCHANGED avgVars
  <2>1. i' = i /\ sum' = sum /\ res' = res
    BY <1>5 DEF avgVars
  <2>2. ColumnSum(i)' = ColumnSum(i)
    BY <1>1, <2>1 DEF ColumnSum
  <2>3. QED
    BY <1>1, <1>2, <2>1, <2>2 DEF AvgInv, AverageUnlessItWraps
<1>6. QED
  BY <1>3, <1>4, <1>5 DEF AvgNext

\* All three stores return the average of the column, for every table, unless
\* 32 bits are too few for its sum (avg_row, avg_col, avg_rme).
THEOREM AverageIsRight == AvgSpec => []AverageUnlessItWraps
<1>1. AvgInit => AvgInv
  BY AvgInitInv
<1>2. AvgInv /\ [AvgNext]_avgVars => AvgInv'
  BY AvgNextInv
<1>3. AvgInv => AverageUnlessItWraps
  BY DEF AvgInv
<1>4. QED
  BY <1>1, <1>2, <1>3, PTL DEF AvgSpec

-----------------------------------------------------------------------------
\* Selection is over the layout of this module too.
LEMMA SameSelection ==
  /\ \A S, n : Abstract!InOrder(S, n) = InOrder(S, n)
  /\ \A t, a, b : Abstract!FieldValue(t, a, b) = FieldValue(t, a, b)
BY DEF InOrder, Concat, FieldValue, Truncate, Abstract!InOrder, Abstract!Concat,
       Abstract!FieldValue, Abstract!Truncate

\* The rows the scan is to keep.
Wanted(r) == Abstract!Matches(query, r) /\ Reached(r)

\* The rows of the answer among the first n.
Answer(n) ==
  LET rows == InOrder({r \in 1..query.s.rows : Wanted(r-1)}, n)
  IN  [m \in 1..Len(rows) |-> Abstract!Project(query, rows[m] - 1)]

\* Where a walk with a pointer is: at the row of the loop, or at the first row
\* that was rejected.
Walk(p) ==
  /\ row = p * RowStep
  /\ \A r \in 0..p-1 : Abstract!Matches(query, r)
  /\ p = i \/ ~Abstract!Matches(query, p)

\* One of the scans of the model is running.
Chosen == \E s \in Scan : store = s[1] /\ query = s[2]

SelInv ==
  /\ Chosen /\ mem = SlctMem(store, query)
  /\ i \in 0..query.s.rows
  /\ store # "COL" => \E p \in 0..i : Walk(p)
  /\ result = Answer(i) /\ Len(result) <= i /\ ptr = Len(result) * RowBytes
  /\ done => i = query.s.rows
  /\ ShowsTheRowsReached

LEMMA SelQueryFacts ==
  ASSUME Chosen
  PROVE  /\ store \in {"ROW", "COL", "RME"} /\ IsTable(query.s) /\ Limit \in Nat
         /\ query.s.rows \in Nat /\ num_cols(query.s) \in Nat
         /\ Len(query.cols) \in Nat /\ Len(query.cols) <= MaxCols
         /\ \A o \in 1..Len(query.cols) :
              /\ query.cols[o].col \in 0..num_cols(query.s)-1
              /\ query.cols[o].project \in BOOLEAN /\ query.cols[o].k \in Int
<1> DEFINE t == query.s
           os == query.cols
<1>1. PICK s \in Scan : store = s[1] /\ query = s[2]
  BY DEF Chosen
<1>2. /\ store \in {"ROW", "COL", "RME"} /\ IsTable(t) /\ os \in Seq(Option(t)) /\ Len(os) \in 1..MAX_GROUPS
      /\ Limit \in Nat
  BY <1>1, SelectAssumption, Zenon
<1>3. ASSUME NEW o \in 1..Len(os)
      PROVE  os[o].col \in 0..num_cols(t)-1 /\ os[o].project \in BOOLEAN /\ os[o].k \in Int
  <2>1. os[o] \in Option(t)
    BY <1>2
  <2>2. QED
    BY <2>1 DEF Option
<1>4. t.rows \in Nat /\ num_cols(t) \in Nat /\ Len(os) \in Nat /\ Len(os) <= MaxCols
  <2>1. t.rows \in Nat /\ num_cols(t) \in Nat
    BY <1>2, ColumnsApart DEF IsTable
  <2>2. \A m \in 1..MAX_GROUPS : m \in Nat /\ m <= MaxCols
    BY DEF MAX_GROUPS, MaxCols
  <2>3. QED
    BY <1>2, <2>1, <2>2, Zenon
<1>5. QED
  BY <1>2, <1>3, <1>4

\* What the loop body reads is the field of the row of the pointer, or of the
\* loop in the column store.
LEMMA SelReads ==
  ASSUME Chosen, mem = SlctMem(store, query),
         NEW p \in 0..query.s.rows-1, IF store = "COL" THEN p = i ELSE row = p * RowStep,
         NEW o \in 1..Len(query.cols)
  PROVE  Field(o) = FieldValue(query.s, p, query.cols[o].col)
<1> DEFINE t == query.s
           c == query.cols[o].col
<1>1. /\ IsTable(t) /\ c \in 0..num_cols(t)-1 /\ t.rows \in Nat
      /\ store \in {"ROW", "COL", "RME"}
  BY SelQueryFacts
<1>2. CASE store = "ROW"
  <2>1. mem = db_populate_row(t)
    BY <1>2 DEF SlctMem, Memory
  <2>2. RowStep = row_size(t) /\ Start(o) = calc_offset(t, c)
    BY <1>2 DEF RowStep, Start, Table, opts
  <2>3. Field(o) = mem[p * row_size(t) + calc_offset(t, c)]
    BY <1>2, <2>2 DEF Field
  <2>4. QED
    BY <1>1, <2>1, <2>3, RowStore
<1>3. CASE store = "COL"
  <2>1. mem = db_populate_col(t)
    BY <1>3 DEF SlctMem, Memory
  <2>2. Start(o) = calc_offset(t, c) * t.rows /\ Width(o) = t.widths[c+1]
    BY <1>3 DEF Width, Start, Table, opts
  <2>3. Field(o) = mem[calc_offset(t, c) * t.rows + p * t.widths[c+1]]
    BY <1>3, <2>2 DEF Field
  <2>4. QED
    BY <1>1, <2>1, <2>3, ColumnStore
<1>4. CASE store = "RME"
  <2> DEFINE cols == [j \in 1..Len(query.cols) |-> query.cols[j].col]
  <2>1. mem = Memory("RME", t, cols)
    BY <1>4 DEF SlctMem
  <2>2. RowStep = PackedRowSize(t, cols) /\ Start(o) = PackedOffset(t, cols, o-1)
    BY <1>4 DEF RowStep, Start, Table, opts, Cols
  <2>3. Field(o) = mem[p * PackedRowSize(t, cols) + PackedOffset(t, cols, o-1)]
    BY <1>4, <2>2 DEF Field
  <2>4. cols \in Seq(0..num_cols(t)-1) /\ o \in 1..Len(cols) /\ cols[o] = c /\ Len(cols) <= MaxCols
    <3>1. Len(query.cols) \in Nat /\ Len(query.cols) <= MaxCols /\ \A j \in 1..Len(query.cols) : query.cols[j].col \in 0..num_cols(t)-1
      BY SelQueryFacts, Zenon
    <3>2. QED
      BY <3>1
  <2> HIDE DEF cols
  <2>5. QED
    BY <1>1, <2>1, <2>3, <2>4, WindowStore
<1>5. QED
  BY <1>1, <1>2, <1>3, <1>4

\* The conditions of the loop body are those of the WHERE clause.
LEMMA BadMeans ==
  ASSUME Chosen, mem = SlctMem(store, query),
         NEW p \in 0..query.s.rows-1, IF store = "COL" THEN p = i ELSE row = p * RowStep
  PROVE  bad <=> ~Abstract!Matches(query, p)
<1> DEFINE os == query.cols
           V(o) == FieldValue(query.s, p, os[o].col)
           N == 1..Len(os)
<1>1. \A o \in N : Field(o) = V(o)
  BY SelReads
<1>2. \A o \in N : V(o) \in Nat /\ os[o].k \in Int
  <2> TAKE o \in N
  <2>1. IsTable(query.s) /\ os[o].col \in 0..num_cols(query.s)-1 /\ os[o].k \in Int
    BY SelQueryFacts
  <2>2. QED
    BY <2>1, ValueFits
<1>3. bad <=> \E o \in {m \in N : os[m].op # "NOP"} : os[o].op = "LT" /\ Field(o) >= os[o].k
  BY Zenon DEF bad, conditions, opts
<1>4. Abstract!Matches(query, p) <=> \A o \in {m \in N : os[m].op = "LT"} : V(o) < os[o].k
  BY SameSelection, Zenon DEF Abstract!Matches, Abstract!Conditions
<1> HIDE DEF V, N, os
<1>5. \A o \in N : Field(o) >= os[o].k <=> ~(V(o) < os[o].k)
  BY <1>1, <1>2
<1>6. bad <=> \E o \in N : os[o].op = "LT" /\ ~(V(o) < os[o].k)
  BY <1>3, <1>5
<1>7. QED
  BY <1>4, <1>6

LEMMA ProjectionsAre ==
  ASSUME Chosen
  PROVE  /\ projections \in Seq(1..Len(query.cols))
         /\ Abstract!Projections(query) = projections
<1> DEFINE ps == projections
           P == {o \in 1..Len(query.cols) : query.cols[o].project}
<1>1. ps = InOrder(P, Len(query.cols)) /\ Abstract!Projections(query) = ps
  BY SameSelection DEF projections, opts, Abstract!Projections
<1>2. Len(query.cols) \in Nat
  BY SelQueryFacts
<1> HIDE DEF P, ps
<1>3. ps \in Seq(P \cap (1..Len(query.cols)))
  BY <1>1, <1>2, InOrderFacts
<1>4. P \cap (1..Len(query.cols)) \subseteq 1..Len(query.cols)
  OBVIOUS
<1>5. QED
  BY <1>1, <1>3, <1>4 DEF ps

\* A turn of the loop keeps a row exactly if it is to be kept, and what it
\* copies of it is what the query selects.
LEMMA SelTurn ==
  ASSUME SelInv, i < query.s.rows
  PROVE  /\ bad <=> ~Wanted(i)
         /\ ~bad => /\ (store # "COL" => row = i * RowStep)
                    /\ [n \in DOMAIN projections |-> Field(projections[n])]
                         = Abstract!Project(query, i)
<1>1. /\ Chosen /\ mem = SlctMem(store, query) /\ query.s.rows \in Nat
      /\ i \in 0..query.s.rows-1
      /\ store # "COL" => \E p \in 0..i : Walk(p)
  BY SelQueryFacts DEF SelInv
<1>2. /\ bad <=> ~Wanted(i)
      /\ ~bad => (store # "COL" => row = i * RowStep)
  <2>1. CASE store = "COL"
    BY <1>1, <2>1, BadMeans DEF Wanted, Reached
  <2>2. CASE store # "COL"
    <3>1. PICK p \in 0..i : Walk(p)
      BY <1>1, <2>2
    <3>2. p \in 0..query.s.rows-1
      BY <1>1
    <3>3. bad <=> ~Abstract!Matches(query, p)
      BY <1>1, <2>2, <3>1, <3>2, BadMeans DEF Walk
    <3>4. CASE p = i
      BY <3>1, <3>3, <3>4 DEF Walk, Wanted, Reached
    <3>5. CASE p # i
      <4>1. ~Abstract!Matches(query, p)
        BY <3>1, <3>5 DEF Walk
      <4>2. p \in 0..i-1
        BY <1>1, <3>5
      <4>3. ~Reached(i)
        BY <2>2, <4>1, <4>2, Zenon DEF Reached
      <4>4. QED
        BY <3>3, <4>1, <4>3, Zenon DEF Wanted
    <3>6. QED
      BY <3>4, <3>5
  <2>3. QED
    BY <2>1, <2>2
<1>3. ASSUME ~bad
      PROVE  [n \in DOMAIN projections |-> Field(projections[n])]
               = Abstract!Project(query, i)
  <2> DEFINE ps == projections
  <2>1. ps \in Seq(1..Len(query.cols)) /\ Abstract!Projections(query) = ps
    BY <1>1, ProjectionsAre
  <2> HIDE DEF ps
  <2>2. DOMAIN ps = 1..Len(ps) /\ \A n \in 1..Len(ps) : ps[n] \in 1..Len(query.cols)
    BY <2>1
  <2>3. \A o \in 1..Len(query.cols) : Field(o) = FieldValue(query.s, i, query.cols[o].col)
    BY <1>1, <1>2, <1>3, SelReads
  <2>4. Abstract!Project(query, i)
          = [n \in 1..Len(ps) |-> FieldValue(query.s, i, query.cols[ps[n]].col)]
    BY <2>1, SameSelection DEF Abstract!Project
  <2>5. [n \in DOMAIN ps |-> Field(ps[n])]
          = [n \in 1..Len(ps) |-> FieldValue(query.s, i, query.cols[ps[n]].col)]
    BY <2>2, <2>3
  <2>6. QED
    BY <2>4, <2>5 DEF ps
<1>4. QED
  BY <1>2, <1>3

Selected == {Abstract!Project(query, r) : r \in 0..query.s.rows-1}

\* The answer grows by the rows to keep, one at a time.
LEMMA AnswerSteps ==
  ASSUME Chosen
  PROVE  /\ Answer(0) = <<>>
         /\ \A n \in 0..query.s.rows-1 :
              Answer(n+1) = IF Wanted(n)
                              THEN Append(Answer(n), Abstract!Project(query, n))
                              ELSE Answer(n)
         /\ \A n \in 0..query.s.rows : Answer(n) \in Seq(Selected)
<1> DEFINE N == query.s.rows
           R == {r \in 1..N : Wanted(r-1)}
           P(k) == Abstract!Project(query, k-1)
           L(n) == InOrder(R, n)
<1>1. N \in Nat
  BY SelQueryFacts
<1>2. \A n : Answer(n) = [m \in 1..Len(L(n)) |-> P(L(n)[m])]
  BY DEF Answer
<1>3. \A n \in 0..N-1 : n+1 \in R <=> Wanted(n)
  <2> TAKE n \in 0..N-1
  <2>1. n+1 \in 1..N /\ (n+1)-1 = n
    BY <1>1
  <2>2. QED
    BY <2>1
<1>4. \A n \in 0..N-1 : P(n+1) = Abstract!Project(query, n)
  <2> TAKE n \in 0..N-1
  <2>1. (n+1)-1 = n
    BY <1>1
  <2>2. QED
    BY <2>1
<1>5. L(0) = <<>>
  BY InOrderSteps
<1>10. ASSUME NEW n \in 0..N PROVE Answer(n) \in Seq(Selected)
  <2>1. n \in Nat
    BY <1>1
  <2>2. L(n) \in Seq(R \cap (1..n))
    BY <2>1, InOrderFacts, Zenon
  <2> HIDE DEF L
  <2>3. Len(L(n)) \in Nat /\ \A m \in 1..Len(L(n)) : L(n)[m] \in 1..N
    BY <2>2
  <2>4. \A k \in 1..N : P(k) \in Selected
    <3> TAKE k \in 1..N
    <3>1. k-1 \in 0..N-1
      BY <1>1
    <3>2. QED
      BY <3>1 DEF Selected
  <2> HIDE DEF P, N
  <2>5. \A m \in 1..Len(L(n)) : P(L(n)[m]) \in Selected
    BY <2>3, <2>4
  <2>6. QED
    BY <1>2, <2>3, <2>5
<1> HIDE DEF R, P, L
<1>6. ASSUME NEW n \in 0..N-1
      PROVE  /\ L(n) \in Seq(Nat)
             /\ n+1 \in R => L(n+1) = Append(L(n), n+1)
             /\ n+1 \notin R => L(n+1) = L(n)
  <2>1. n \in Nat
    BY <1>1
  <2>2. /\ L(n) \in Seq(R \cap (1..n))
        /\ n+1 \in R => L(n+1) = Append(L(n), n+1)
        /\ n+1 \notin R => L(n+1) = L(n)
    BY <2>1, InOrderFacts, Zenon DEF L
  <2>3. R \cap (1..n) \subseteq Nat
    BY <2>1
  <2>4. QED
    BY <2>2, <2>3
<1>7. Answer(0) = <<>>
  BY <1>2, <1>5
<1> HIDE DEF N
<1>8. ASSUME NEW n \in 0..N-1
      PROVE  Answer(n+1) = IF n+1 \in R THEN Append(Answer(n), P(n+1)) ELSE Answer(n)
  <2> DEFINE l == L(n)
  <2>1. l \in Seq(Nat) /\ Answer(n) = [m \in 1..Len(l) |-> P(l[m])]
    BY <1>2, <1>6
  <2>2. CASE n+1 \in R
    <3>1. Answer(n+1) = [m \in 1..Len(Append(l, n+1)) |-> P(Append(l, n+1)[m])]
      BY <1>2, <1>6, <2>2
    <3> HIDE DEF l
    <3>2. /\ Len(Append(l, n+1)) = Len(l) + 1 /\ Len(l) \in Nat
          /\ \A m \in 1..Len(l) : Append(l, n+1)[m] = l[m]
          /\ Append(l, n+1)[Len(l)+1] = n+1
      BY <2>1
    <3> DEFINE f == [m \in 1..Len(l) |-> P(l[m])]
               g == [m \in 1..Len(l)+1 |-> P(Append(l, n+1)[m])]
               h == Append(f, P(n+1))
    <3>3. DOMAIN h = 1..Len(l)+1 /\ (\A m \in 1..Len(l) : h[m] = P(l[m])) /\ h[Len(l)+1] = P(n+1)
      <4> DEFINE V == {P(l[m]) : m \in 1..Len(l)} \cup {P(n+1)}
      <4>1. f \in Seq(V) /\ Len(f) = Len(l) /\ \A m \in 1..Len(l) : f[m] = P(l[m])
        BY <3>2
      <4>2. P(n+1) \in V
        OBVIOUS
      <4> HIDE DEF f, V
      <4>3. QED
        BY <3>2, <4>1, <4>2
    <3>4. \A m \in 1..Len(l)+1 : g[m] = h[m]
      <4> TAKE m \in 1..Len(l)+1
      <4>1. CASE m \in 1..Len(l)
        BY <3>2, <3>3, <4>1
      <4>2. CASE m = Len(l)+1
        BY <3>2, <3>3, <4>2
      <4>3. QED
        BY <3>2, <4>1, <4>2
    <3>5. g = h
      <4>1. DOMAIN g = 1..Len(l)+1 /\ g = [m \in DOMAIN g |-> g[m]]
        OBVIOUS
      <4>2. h = [m \in DOMAIN h |-> h[m]]
        <5> DEFINE V == {P(l[m]) : m \in 1..Len(l)} \cup {P(n+1)}
        <5>1. f \in Seq(V) /\ P(n+1) \in V
          BY <3>2
        <5> HIDE DEF f, V
        <5>2. h \in Seq(V)
          BY <5>1
        <5> HIDE DEF h
        <5>3. QED
          BY <5>2
      <4> HIDE DEF g, h
      <4>3. QED
        BY <3>3, <3>4, <4>1, <4>2
    <3>6. QED
      BY <2>1, <2>2, <3>1, <3>2, <3>5 DEF l
  <2>3. CASE n+1 \notin R
    BY <1>2, <1>6, <2>3
  <2>4. QED
    BY <2>2, <2>3
<1>9. QED
  BY <1>3, <1>4, <1>7, <1>8, <1>10 DEF N

\* Nothing the answer depends on changes with the memory, the loop or the
\* result.
LEMMA SameAnswer ==
  ASSUME query' = query, store' = store
  PROVE  /\ \A n : Abstract!Matches(query, n)' <=> Abstract!Matches(query, n)
         /\ \A n : Answer(n)' = Answer(n)
BY DEF Answer, Wanted, Reached, Abstract!Matches, Abstract!Project, Abstract!Conditions,
       Abstract!Projections

PrintsTheAnswer ==
  done => LET all == Answer(query.s.rows)
          IN  shown = SubSeq(all, 1, IF Limit < Len(all) THEN Limit ELSE Len(all))

LEMMA Shows == ShowsTheRowsReached <=> PrintsTheAnswer
BY SameSelection, Zenon DEF ShowsTheRowsReached, Printed, PrintsTheAnswer, Answer, Wanted, Table

\* The rows of a store follow one another, and a kept row takes no more than
\* a row of the table unless a column is projected twice.
LEMMA RowStepNat ==
  ASSUME Chosen
  PROVE  RowStep \in Nat
<1> DEFINE t == query.s
           cols == [j \in 1..Len(query.cols) |-> query.cols[j].col]
           w == [j \in 1..Len(cols) |-> t.widths[cols[j] + 1]]
<1>1. /\ IsTable(t) /\ store \in {"ROW", "COL", "RME"} /\ Len(cols) \in Nat
      /\ \A j \in 1..Len(cols) : cols[j] \in 0..num_cols(t)-1
  BY SelQueryFacts
<1>2. row_size(t) \in Nat
  BY <1>1, ColumnsApart
<1>3. PackedRowSize(t, cols) = Sum(w, Len(cols))
  BY DEF PackedRowSize, PackedOffset
<1>4. \A j \in 1..Len(cols) : w[j] \in Nat
  <2> TAKE j \in 1..Len(cols)
  <2>1. w[j] = t.widths[cols[j] + 1] /\ cols[j] \in 0..num_cols(t)-1
    BY <1>1
  <2> DEFINE c == cols[j]
  <2> HIDE DEF cols, w, t, c
  <2>2. c \in 0..num_cols(t)-1 /\ IsTable(t) /\ w[j] = t.widths[c+1]
    BY <1>1, <2>1 DEF c
  <2>3. t.widths[c+1] \in {1, 2, 4, 8}
    BY <2>2, ColumnsApart
  <2>4. QED
    BY <2>2, <2>3
<1>5. store = "ROW" => RowStep = row_size(t)
  BY DEF RowStep, Table
<1>6. store = "COL" => RowStep = 0
  BY DEF RowStep
<1>7. store = "RME" => RowStep = PackedRowSize(t, cols)
  BY DEF RowStep, Table, Cols, opts
<1> HIDE DEF cols, w, t
<1>8. Sum(w, Len(cols)) \in Nat
  <2>1. Len(cols) \in 0..Len(cols)
    BY <1>1
  <2>2. QED
    BY <1>1, <1>4, <2>1, SumNat
<1>9. QED
  BY <1>1, <1>2, <1>3, <1>5, <1>6, <1>7, <1>8

NoneTwice ==
  \A m, n \in DOMAIN projections :
    m # n => query.cols[projections[m]].col # query.cols[projections[n]].col

LEMMA RowBytesFit ==
  ASSUME Chosen
  PROVE  RowBytes \in Nat /\ (NoneTwice => RowBytes <= row_size(query.s))
<1> DEFINE t == query.s
           ps == projections
           N == Len(ps)
           p == [n \in 1..N |-> query.cols[ps[n]].col + 1]
           m == num_cols(t)
           w == [n \in 1..N |-> t.widths[p[n]]]
<1>1. /\ IsTable(t) /\ m \in Nat /\ ps \in Seq(1..Len(query.cols))
      /\ \A o \in 1..Len(query.cols) : query.cols[o].col \in 0..m-1
  BY SelQueryFacts, ProjectionsAre
<1>2. RowBytes = Sum(w, N)
  <2>1. RowBytes = Sum([n \in 1..N |-> t.widths[query.cols[ps[n]].col + 1]], N)
    BY DEF RowBytes, Width, Table, opts
  <2>2. w = [n \in 1..N |-> t.widths[query.cols[ps[n]].col + 1]]
    OBVIOUS
  <2>3. QED
    BY <2>1, <2>2, Zenon
<1>3. row_size(t) = Sum(t.widths, m)
  BY DEF row_size, calc_offset
<1> HIDE DEF ps
<1>4. N \in Nat /\ DOMAIN ps = 1..N /\ \A n \in 1..N : ps[n] \in 1..Len(query.cols)
  BY <1>1
<1>5. \A n \in 1..N : p[n] = query.cols[ps[n]].col + 1 /\ p[n] \in 1..m
  BY <1>1, <1>4
<1>6. \A k \in 1..m : t.widths[k] \in Nat
  <2> TAKE k \in 1..m
  <2>1. k-1 \in 0..m-1 /\ (k-1)+1 = k
    BY <1>1
  <2>2. t.widths[(k-1)+1] \in {1, 2, 4, 8}
    BY <1>1, <2>1, ColumnsApart
  <2>3. QED
    BY <2>1, <2>2
<1>7. NoneTwice => \A a, b \in 1..N : p[a] = p[b] => a = b
  <2> SUFFICES ASSUME NoneTwice, NEW a \in 1..N, NEW b \in 1..N, p[a] = p[b], a # b PROVE FALSE
    OBVIOUS
  <2>1. query.cols[ps[a]].col # query.cols[ps[b]].col
    BY <1>4 DEF NoneTwice, ps
  <2>2. query.cols[ps[a]].col \in Int /\ query.cols[ps[b]].col \in Int
    BY <1>1, <1>4
  <2>3. p[a] = query.cols[ps[a]].col + 1 /\ p[b] = query.cols[ps[b]].col + 1
    BY <1>5, Zenon
  <2>4. \A x, y \in Int : x + 1 = y + 1 => x = y
    OBVIOUS
  <2>5. query.cols[ps[a]].col + 1 = query.cols[ps[b]].col + 1
    BY <2>3, Zenon
  <2>6. QED
    BY <2>1, <2>2, <2>4, <2>5, Zenon
<1> HIDE DEF N, p, m, t
<1>8. Sum(w, N) \in Nat
  <2>1. N \in 0..N /\ \A n \in 1..N : w[n] \in Nat
    BY <1>4, <1>5, <1>6
  <2> HIDE DEF w
  <2>2. QED
    BY <1>4, <2>1, SumNat
<1>9. ASSUME NoneTwice PROVE Sum(w, N) <= Sum(t.widths, m)
  <2> DEFINE f == t.widths
  <2>1. /\ m \in Nat /\ N \in Nat /\ \A k \in 1..m : f[k] \in Nat
        /\ \A n \in 1..N : p[n] \in 1..m
        /\ \A a, b \in 1..N : p[a] = p[b] => a = b
    BY <1>1, <1>4, <1>5, <1>6, <1>7, <1>9
  <2> HIDE DEF f
  <2>2. Sum([n \in 1..N |-> f[p[n]]], N) <= Sum(f, m)
    BY ONLY <2>1, SumPicked
  <2>3. QED
    BY <2>2 DEF f
<1>10. QED
  BY <1>2, <1>3, <1>8, <1>9 DEF t

LEMMA SelInitInv == ASSUME SlctInit PROVE SelInv
<1>1. /\ Chosen /\ mem = SlctMem(store, query)
      /\ i = 0 /\ row = 0 /\ result = <<>> /\ ptr = 0 /\ ~done
  BY DEF SlctInit, Chosen
<1>2. query.s.rows \in Nat /\ Answer(0) = <<>>
  BY <1>1, SelQueryFacts, AnswerSteps
<1>3. RowStep \in Nat /\ RowBytes \in Nat
  BY <1>1, RowBytesFit, RowStepNat
<1>4. i \in 0..query.s.rows /\ ShowsTheRowsReached
  BY <1>1, <1>2, Shows DEF PrintsTheAnswer
<1>5. \E p \in 0..i : Walk(p)
  <2>1. 0 \in 0..i /\ Walk(0)
    BY <1>1, <1>3 DEF Walk
  <2>2. QED
    BY <2>1
<1>6. Len(result) = 0 /\ 0 * RowBytes = 0
  BY <1>1, <1>3
<1>7. QED
  BY <1>1, <1>2, <1>4, <1>5, <1>6 DEF SelInv

LEMMA SelNextInv ==
  ASSUME SelInv, [SlctNext]_slctVars
  PROVE  SelInv'
<1> DEFINE N == query.s.rows
<1>1. /\ Chosen /\ mem = SlctMem(store, query) /\ N \in Nat /\ i \in 0..N
      /\ RowStep \in Nat /\ RowBytes \in Nat
      /\ store # "COL" => \E p \in 0..i : Walk(p)
      /\ result = Answer(i) /\ Len(result) <= i /\ ptr = Len(result) * RowBytes
      /\ done => i = N
      /\ result \in Seq(Selected)
  <2>1. /\ Chosen /\ mem = SlctMem(store, query) /\ i \in 0..N
        /\ store # "COL" => \E p \in 0..i : Walk(p)
        /\ result = Answer(i) /\ Len(result) <= i /\ ptr = Len(result) * RowBytes
        /\ done => i = N
    BY DEF SelInv
  <2>2. QED
    BY <2>1, SelQueryFacts, RowStepNat, RowBytesFit, AnswerSteps
<1>2. query' = query /\ store' = store /\ mem' = mem
  BY DEF SlctNext, RejectRow, KeepRow, SlctReport, slctVars
<1>3. Chosen' /\ mem' = SlctMem(store, query)' /\ N' = N
      /\ RowStep' = RowStep /\ RowBytes' = RowBytes
  <2>1. Chosen' /\ N' = N
    BY <1>1, <1>2 DEF Chosen
  <2>2. SlctMem(store, query)' = SlctMem(store, query)
    BY <1>2 DEF SlctMem, Memory
  <2>3. RowStep' = RowStep
    BY <1>2 DEF RowStep, Table, Cols, opts
  <2>4. RowBytes' = RowBytes
    BY <1>2 DEF RowBytes, Width, projections, Table, opts
  <2>5. QED
    BY <1>1, <1>2, <2>1, <2>2, <2>3, <2>4
<1>4. /\ \A n : Answer(n)' = Answer(n)
      /\ \A n : Abstract!Matches(query, n)' <=> Abstract!Matches(query, n)
  BY <1>2, SameAnswer
<1>5. CASE RejectRow
  <2>1. /\ i \in 0..N-1 /\ i < N /\ bad /\ i' = i+1 /\ i+1 \in 0..N
        /\ row' = row /\ result' = result /\ ptr' = ptr /\ done' = done
    <3>1. /\ i < N /\ bad /\ i' = i+1
          /\ row' = row /\ result' = result /\ ptr' = ptr /\ done' = done
      BY <1>5, Zenon DEF RejectRow, Table
    <3> HIDE DEF N
    <3>2. QED
      BY <1>1, <3>1
  <2>2. ~Wanted(i)
    BY <2>1, SelTurn
  <2>3. Answer(i+1) = Answer(i)
    BY <1>1, <2>1, <2>2, AnswerSteps
  <2>4. store # "COL" => \E p \in 0..i+1 : Walk(p)'
    <3> SUFFICES ASSUME store # "COL" PROVE \E p \in 0..i+1 : Walk(p)'
      OBVIOUS
    <3>1. PICK p \in 0..i : Walk(p)
      BY <1>1
    <3>2. p \in 0..i+1
      BY <1>1
    <3>3. /\ row = p * RowStep /\ \A r \in 0..p-1 : Abstract!Matches(query, r)
          /\ ~Abstract!Matches(query, p)
      BY <2>2, <3>1, Zenon DEF Walk, Wanted, Reached
    <3>4. /\ (row = p * RowStep)' /\ \A r \in 0..p-1 : Abstract!Matches(query, r)'
          /\ (~Abstract!Matches(query, p))'
      BY <1>3, <1>4, <2>1, <3>3
    <3>5. QED
      BY <3>2, <3>4 DEF Walk
  <2>5. Answer(i)' = Answer(i')
    BY <1>4
  <2>6. ~done
    BY <1>1, <2>1
  <2>7. ShowsTheRowsReached'
    BY <2>1, <2>6 DEF ShowsTheRowsReached
  <2>8. QED
    BY <1>1, <1>2, <1>3, <2>1, <2>3, <2>4, <2>5, <2>6, <2>7 DEF SelInv
<1>6. CASE KeepRow
  <2>1. /\ i \in 0..N-1 /\ i < N /\ ~bad /\ i' = i+1 /\ i+1 \in 0..N
        /\ row' = row + RowStep /\ ptr' = ptr + RowBytes /\ done' = done
        /\ result' = Append(result, [n \in DOMAIN projections |-> Field(projections[n])])
    <3>1. /\ i < N /\ ~bad /\ i' = i+1
          /\ row' = row + RowStep /\ ptr' = ptr + RowBytes /\ done' = done
          /\ result' = Append(result, [n \in DOMAIN projections |-> Field(projections[n])])
      BY <1>6, Zenon DEF KeepRow, Table
    <3> HIDE DEF N
    <3>2. QED
      BY <1>1, <3>1
  <2>2. /\ Wanted(i) /\ (store # "COL" => row = i * RowStep)
        /\ result' = Append(result, Abstract!Project(query, i))
    BY <2>1, SelTurn
  <2>3. result' = Answer(i+1)
    BY <1>1, <2>1, <2>2, AnswerSteps
  <2>4. store # "COL" => \E p \in 0..i+1 : Walk(p)'
    <3> SUFFICES ASSUME store # "COL" PROVE \E p \in 0..i+1 : Walk(p)'
      OBVIOUS
    <3>1. PICK p \in 0..i+1 : p = i+1
      BY <1>1
    <3>2. row' = (i+1) * RowStep
      <4>1. \A a, b \in Nat : a * b + b = (a+1) * b
        OBVIOUS
      <4>2. row' = i * RowStep + RowStep /\ i \in Nat
        BY <1>1, <2>1, <2>2
      <4>3. QED
        BY <1>1, <4>1, <4>2
    <3>3. \A r \in 0..i : Abstract!Matches(query, r)'
      <4>1. \A r \in 0..i : r \in 0..i-1 \/ r = i
        BY <1>1
      <4>2. QED
        BY <1>4, <2>2, <4>1, Zenon DEF Wanted, Reached
    <3>4. \A r \in 0..p-1 : Abstract!Matches(query, r)'
      <4>1. 0..p-1 = 0..i
        BY <1>1, <3>1
      <4>2. QED
        BY <3>3, <4>1
    <3>5. Walk(p)'
      BY <1>3, <2>1, <3>1, <3>2, <3>4 DEF Walk
    <3>6. QED
      BY <3>5
  <2>5. Len(result') = Len(result) + 1 /\ Len(result') <= i+1 /\ ptr' = Len(result') * RowBytes
    <3>1. Abstract!Project(query, i) \in Selected
      BY <2>1 DEF Selected
    <3>2. Len(result') = Len(result) + 1 /\ Len(result) \in Nat
      BY <1>1, <2>2, <3>1
    <3>3. \A a, b \in Nat : a * b + b = (a+1) * b
      OBVIOUS
    <3>4. ptr' = (Len(result) + 1) * RowBytes
      BY <1>1, <2>1, <3>2, <3>3
    <3>5. QED
      BY <1>1, <3>2, <3>4
  <2>6. Answer(i)' = Answer(i')
    BY <1>4
  <2>7. ~done
    BY <1>1, <2>1
  <2>8. ShowsTheRowsReached'
    BY <2>1, <2>7 DEF ShowsTheRowsReached
  <2>9. QED
    BY <1>1, <1>2, <1>3, <2>1, <2>3, <2>4, <2>5, <2>6, <2>7, <2>8 DEF SelInv
<1>7. CASE SlctReport
  <2>1. /\ i = N /\ i' = i /\ row' = row /\ result' = result /\ ptr' = ptr
        /\ shown' = SubSeq(result, 1, IF Limit < Len(result) THEN Limit ELSE Len(result))
    BY <1>7, Zenon DEF SlctReport, Table
  <2>2. Answer(i)' = Answer(i) /\ Answer(N)' = Answer(N)
    BY <1>3, <1>4, <2>1
  <2>3. ShowsTheRowsReached'
    <3>1. PrintsTheAnswer'
      BY <1>1, <1>3, <2>1, <2>2 DEF PrintsTheAnswer
    <3>2. QED
      BY <3>1, Shows, PTL
  <2>4. store # "COL" => \E p \in 0..i : Walk(p)'
    BY <1>1, <1>3, <1>4, <2>1 DEF Walk
  <2>5. QED
    BY <1>1, <1>2, <1>3, <2>1, <2>2, <2>3, <2>4 DEF SelInv
<1>8. CASE UNCHANGED slctVars
  <2>1. /\ i' = i /\ row' = row /\ result' = result /\ ptr' = ptr /\ done' = done /\ shown' = shown
    BY <1>8 DEF slctVars
  <2>2. Answer(i)' = Answer(i) /\ Answer(N)' = Answer(N)
    BY <1>3, <1>4, <2>1
  <2>3. ShowsTheRowsReached'
    <3>1. PrintsTheAnswer
      BY Shows DEF SelInv
    <3>2. PrintsTheAnswer'
      BY <1>1, <1>3, <2>1, <2>2, <3>1 DEF PrintsTheAnswer
    <3>3. QED
      BY <3>2, Shows, PTL
  <2>4. store # "COL" => \E p \in 0..i : Walk(p)'
    BY <1>1, <1>3, <1>4, <2>1 DEF Walk
  <2>5. QED
    BY <1>1, <1>2, <1>3, <2>1, <2>2, <2>3, <2>4 DEF SelInv
<1>9. QED
  BY <1>5, <1>6, <1>7, <1>8 DEF SlctNext

\* What a finished scan of q2 prints, for every table, option list and limit:
\* from the column store the first rows of the WHERE clause, from the row
\* store and the window those of them with no rejected row before them
\* (slct_row, slct_col, slct_rme).
THEOREM ShownRowsAreRight == SlctSpec => []ShowsTheRowsReached
<1>1. SlctInit => SelInv
  BY SelInitInv
<1>2. SelInv /\ [SlctNext]_slctVars => SelInv'
  BY SelNextInv
<1>3. SelInv => ShowsTheRowsReached
  BY DEF SelInv
<1>4. QED
  BY <1>1, <1>2, <1>3, PTL DEF SlctSpec

\* The conditions of the query are on columns too wide to wrap.
WideConditions == \A o \in conditions : opts[o].op = "LT" => Width(o) >= 4

\* Once a row fails a condition on wide columns, so do those behind it.
LEMMA Rises ==
  ASSUME Chosen, WideConditions,
         NEW p \in 0..query.s.rows-1, NEW r \in p..query.s.rows-1,
         ~Abstract!Matches(query, p)
  PROVE  ~Abstract!Matches(query, r)
<1>1. PICK o \in 1..Len(query.cols) :
        /\ query.cols[o].op = "LT"
        /\ ~(FieldValue(query.s, p, query.cols[o].col) < query.cols[o].k)
  BY SameSelection DEF Abstract!Matches, Abstract!Conditions
<1> DEFINE t == query.s
           c == query.cols[o].col
           k == query.cols[o].k
<1>2. /\ IsTable(t) /\ c \in 0..num_cols(t)-1 /\ num_cols(t) \in Nat /\ t.rows \in Nat
      /\ k \in Int /\ t.widths[c+1] \in {4, 8}
  <2>1. IsTable(t) /\ c \in 0..num_cols(t)-1 /\ num_cols(t) \in Nat /\ t.rows \in Nat /\ k \in Int
    BY <1>1, SelQueryFacts
  <2> DEFINE w == t.widths[c+1]
  <2>2. w >= 4
    BY <1>1 DEF WideConditions, conditions, opts, Width, Table
  <2>3. w \in {1, 2, 4, 8}
    BY <2>1, ColumnsApart
  <2> HIDE DEF w
  <2>4. w \in {4, 8}
    BY ONLY <2>2, <2>3
  <2>5. QED
    BY <2>1, <2>4 DEF w
<1> HIDE DEF c, k
<1>3. c \in Int /\ r \in 0..t.rows-1 /\ r >= p /\ p \in Int /\ r \in Int
  BY <1>2
<1>5. ~(FieldValue(t, p, c) < k)
  BY <1>1 DEF c, k
<1> HIDE DEF t
<1>4. FieldValue(t, p, c) = 100 * p + c /\ FieldValue(t, r, c) = 100 * r + c
  <2>1. p \in 0..t.rows-1
    BY DEF t
  <2>2. ASSUME NEW n \in 0..t.rows-1 PROVE FieldValue(t, n, c) = 100 * n + c
    BY <1>2, ValueFits, SMTT(30)
  <2>3. QED
    BY <1>3, <2>1, <2>2, Zenon
<1>6. ~(FieldValue(t, r, c) < k)
  BY <1>2, <1>3, <1>4, <1>5
<1>7. QED
  BY <1>1, <1>6, SameSelection DEF Abstract!Matches, Abstract!Conditions, t, c, k

\* What a finished scan of q2 prints is the first rows of the WHERE clause, as
\* RUNNING.md says: always from the column store, and from the row store and
\* the window whenever every < condition is on a column of four or eight bytes
\* (slct_row, slct_col, slct_rme).
THEOREM WideConditionsLoseNoRow ==
  SlctSpec => [](store = "COL" \/ WideConditions => ShowsTheWhereRows)
<1>1. SlctInit => SelInv
  BY SelInitInv
<1>2. SelInv /\ [SlctNext]_slctVars => SelInv'
  BY SelNextInv
<1>3. SelInv => (store = "COL" \/ WideConditions => ShowsTheWhereRows)
  <2> SUFFICES ASSUME SelInv, store = "COL" \/ WideConditions
               PROVE  ShowsTheWhereRows
    OBVIOUS
  <2>1. Chosen /\ query.s.rows \in Nat /\ ShowsTheRowsReached
    BY SelQueryFacts DEF SelInv
  <2>2. ASSUME NEW r \in 1..Table.rows, Abstract!Matches(query, r-1)
        PROVE  Reached(r-1)
    <3> SUFFICES ASSUME store # "COL", NEW p \in 0..(r-1)-1 PROVE Abstract!Matches(query, p)
      BY Zenon DEF Reached
    <3>1. p \in 0..query.s.rows-1 /\ r-1 \in p..query.s.rows-1
      BY <2>1 DEF Table
    <3>2. QED
      BY <2>1, <2>2, <3>1, Rises, Zenon
  <2>3. {r \in 1..Table.rows : Abstract!Matches(query, r-1) /\ Reached(r-1)}
          = {r \in 1..Table.rows : Abstract!Matches(query, r-1)}
    BY <2>2
  <2>4. QED
    BY <2>1, <2>3 DEF ShowsTheRowsReached, ShowsTheWhereRows
<1>4. QED
  BY <1>1, <1>2, <1>3, PTL DEF SlctSpec

\* The rows a scan of q2 keeps never exceed the result buffer of db_size bytes
\* when no column is projected twice, however many rows match.
THEOREM KeptRowsFit == SlctSpec => []RowsFit
<1>1. SlctInit => SelInv
  BY SelInitInv
<1>2. SelInv /\ [SlctNext]_slctVars => SelInv'
  BY SelNextInv
<1>3. SelInv => RowsFit
  <2> SUFFICES ASSUME SelInv, NoneTwice PROVE ptr <= db_size(query.s)
    BY Zenon DEF RowsFit, NoneTwice, Table, opts
  <2>1. /\ Chosen /\ ptr = Len(result) * RowBytes /\ Len(result) <= i /\ i \in 0..query.s.rows
        /\ result = Answer(i)
    BY DEF SelInv
  <2>2. /\ RowBytes \in Nat /\ RowBytes <= row_size(query.s) /\ query.s.rows \in Nat
        /\ IsTable(query.s)
    BY <2>1, RowBytesFit, SelQueryFacts
  <2>3. row_size(query.s) \in Nat
    BY <2>2, ColumnsApart
  <2>4. Len(result) \in Nat /\ Len(result) <= query.s.rows
    <3>1. result \in Seq(Selected)
      BY <2>1, AnswerSteps
    <3>2. Len(result) \in Nat
      BY <3>1
    <3>3. QED
      BY <2>1, <2>2, <3>2
  <2>5. \A a, b, c, d \in Nat : a <= b /\ c <= d => a * c <= b * d
    <3> TAKE a, b, c, d \in Nat
    <3> HAVE a <= b /\ c <= d
    <3>1. a * c <= b * c
      OBVIOUS
    <3>2. b * c <= b * d
      OBVIOUS
    <3>3. a * c \in Nat /\ b * c \in Nat /\ b * d \in Nat
      OBVIOUS
    <3>4. QED
      BY <3>1, <3>2, <3>3
  <2>6. Len(result) * RowBytes <= query.s.rows * row_size(query.s)
    BY <2>2, <2>3, <2>4, <2>5, Zenon
  <2>7. QED
    BY <2>1, <2>6 DEF db_size
<1>4. QED
  BY <1>1, <1>2, <1>3, PTL DEF SlctSpec

\* Every turn of a scan of q2 does to the answer what SELECT does with the
\* next row, for every table and option list: in the column store, and in the
\* row store and the window if no row of the WHERE clause is behind a rejected
\* one (slct_row, slct_col, slct_rme).
THEOREM ScanImplementsSelect == SlctSpec => ImplementsSelection
<1>1. SlctInit => SelInv
  BY SelInitInv
<1>2. SelInv /\ [SlctNext]_slctVars => SelInv'
  BY SelNextInv
<1>3. SlctInit => Abstract!Init
  BY DEF SlctInit, Abstract!Init
<1>4. SelInv /\ [SlctNext]_slctVars => [Walkable => Abstract!Next]_Abstract!vars
  <2> SUFFICES ASSUME SelInv, [SlctNext]_slctVars, Walkable
               PROVE  [Abstract!Next]_Abstract!vars
    OBVIOUS
  <2>1. CASE RejectRow
    <3>1. i < query.s.rows /\ bad
      BY <2>1 DEF RejectRow, Table
    <3>2. ~Abstract!Matches(query, i)
      <4>1. ~Wanted(i) /\ i \in 0..query.s.rows-1
        BY <3>1, SelTurn, SelQueryFacts DEF SelInv
      <4>2. Abstract!Matches(query, i) => Reached(i)
        BY <4>1, Zenon DEF Walkable, Table
      <4>3. QED
        BY <4>1, <4>2 DEF Wanted
    <3>3. QED
      BY <2>1, <3>1, <3>2 DEF RejectRow, Abstract!Next, Abstract!ConsiderRow
  <2>2. CASE KeepRow
    <3>1. i < query.s.rows /\ ~bad
      BY <2>2 DEF KeepRow, Table
    <3>2. /\ Abstract!Matches(query, i)
          /\ [n \in DOMAIN projections |-> Field(projections[n])]
               = Abstract!Project(query, i)
      BY <3>1, SelTurn DEF Wanted
    <3>3. QED
      BY <2>2, <3>1, <3>2 DEF KeepRow, Abstract!Next, Abstract!ConsiderRow
  <2>3. CASE SlctReport
    <3>1. /\ i = query.s.rows /\ query' = query /\ i' = i /\ result' = result
          /\ shown' = SubSeq(result, 1, IF Limit < Len(result) THEN Limit ELSE Len(result))
      BY <2>3, Zenon DEF SlctReport, Table
    <3>2. Len(result) \in Nat /\ Limit \in Nat
      <4>1. Chosen /\ result = Answer(i) /\ i \in 0..query.s.rows
        BY DEF SelInv
      <4>2. result \in Seq(Selected) /\ Limit \in Nat
        BY <4>1, AnswerSteps, SelQueryFacts
      <4>3. QED
        BY <4>2
    <3>3. (IF Limit < Len(result) THEN Limit ELSE Len(result))
            = (IF Len(result) < Limit THEN Len(result) ELSE Limit)
      BY <3>2
    <3>4. QED
      BY <3>1, <3>3, Zenon DEF Abstract!Next, Abstract!Show
  <2>4. CASE UNCHANGED slctVars
    BY <2>4 DEF slctVars, Abstract!vars
  <2>5. QED
    BY <2>1, <2>2, <2>3, <2>4 DEF SlctNext
<1>5. QED
  BY <1>1, <1>2, <1>3, <1>4, PTL DEF SlctSpec, ImplementsSelection

-----------------------------------------------------------------------------
\* q3 is over the hash table of HashTable.
LEMMA JoinSameTable ==
  /\ ht_create = HT!ht_create
  /\ \A t, k : ht_search(t, k) = HT!ht_search(t, k)
  /\ \A t, k, v : ht_insert(t, k, v) = HT!ht_insert(t, k, v)
BY DEF ht_create, HT!ht_create, ht_search, HT!ht_search, ht_insert, HT!ht_insert,
       hash_function, HT!hash_function, Buckets, HT!Buckets, FirstWith, HT!FirstWith,
       ll_insert, HT!ll_insert

\* A table of columns of four bytes.
IsWide(t) == IsTable(t) /\ \A c \in 1..num_cols(t) : t.widths[c] = 4

LEMMA WideColumns ==
  ASSUME NEW t, IsWide(t)
  PROVE  /\ \A c \in 0..num_cols(t) : calc_offset(t, c) = 4 * c
         /\ row_size(t) = 4 * num_cols(t) /\ num_cols(t) \in Nat /\ t.rows \in Nat
<1> DEFINE n == num_cols(t)
           w == t.widths
<1>1. n \in Nat /\ t.rows \in Nat /\ \A c \in 1..n : w[c] = 4
  BY ColumnsApart DEF IsWide, IsTable
<1> HIDE DEF n, w
<1>2. ASSUME NEW c \in 0..n PROVE Sum(w, c) = 4 * c
  <2> DEFINE f == [k \in 1..c |-> 4]
  <2>1. c \in Nat /\ \A k \in 1..c : w[k] = f[k]
    BY <1>1
  <2>2. Sum(f, c) = c * 4
    BY <2>1, SumConstant
  <2> HIDE DEF f
  <2>3. Sum(w, c) = Sum(f, c)
    BY <2>1, SumSame
  <2>4. QED
    BY <2>1, <2>2, <2>3
<1>3. \A c : calc_offset(t, c) = Sum(w, c)
  BY DEF calc_offset, w
<1>4. row_size(t) = Sum(w, n)
  BY <1>3 DEF row_size, n
<1>5. QED
  BY <1>1, <1>2, <1>3, <1>4 DEF n

LEMMA WideValues ==
  ASSUME NEW t, IsWide(t), NEW r \in 0..t.rows-1, NEW c \in 0..num_cols(t)-1
  PROVE  FieldValue(t, r, c) = 100 * r + c /\ FieldValue(t, r, c) \in Nat
<1>1. IsTable(t) /\ num_cols(t) \in Nat
  BY WideColumns DEF IsWide
<1>2. c+1 \in 1..num_cols(t)
  BY <1>1
<1>3. t.widths[c+1] = 4
  BY <1>2 DEF IsWide
<1>4. QED
  BY <1>1, <1>3, ValueFits

LEMMA JoinQueryFacts ==
  ASSUME query \in JoinQuery
  PROVE  /\ IsWide(query.s) /\ IsWide(query.r) /\ Limit \in Nat
         /\ query.s_sel \in 0..num_cols(query.s)-1 /\ query.s_join \in 0..num_cols(query.s)-1
         /\ query.r_sel \in 0..num_cols(query.r)-1 /\ query.r_join \in 0..num_cols(query.r)-1
<1>1. ASSUME NEW t \in {query.s, query.r} PROVE IsWide(t)
  <2>1. IsTable(t) /\ \A c \in DOMAIN t.widths : t.widths[c] = 4
    BY JoinAssumption, Zenon
  <2>2. DOMAIN t.widths = 1..num_cols(t)
    BY <2>1 DEF IsTable, num_cols
  <2>3. QED
    BY <2>1, <2>2 DEF IsWide
<1>2. /\ {query.s_sel, query.s_join} \subseteq 0..num_cols(query.s)-1
      /\ {query.r_sel, query.r_join} \subseteq 0..num_cols(query.r)-1
      /\ Limit \in Nat
  BY JoinAssumption, Zenon
<1>3. QED
  BY <1>1, <1>2

\* row[col], key_col[i] and val_col[i] are the fields of row i.
LEMMA JoinReads ==
  ASSUME NEW t, IsWide(t), NEW c \in 0..num_cols(t)-1, store \in {"ROW", "COL"},
         NEW a, NEW b, mem \in JoinMem(t, a, b),
         i \in 0..t.rows-1, row = i * Stride(t)
  PROVE  Element(t, c) = FieldValue(t, i, c)
<1>1. /\ IsTable(t) /\ t.rows \in Nat /\ num_cols(t) \in Nat /\ c \in 0..num_cols(t) /\ c+1 \in 1..num_cols(t)
      /\ calc_offset(t, c) = 4 * c /\ row_size(t) = 4 * num_cols(t)
  BY WideColumns DEF IsWide
<1>2. CASE store = "ROW"
  <2>1. mem = db_populate_row(t)
    BY <1>2 DEF JoinMem, Memory
  <2>2. Stride(t) = row_size(t)
    BY <1>1, <1>2 DEF Stride
  <2>3. Element(t, c) = mem[i * row_size(t) + calc_offset(t, c)]
    BY <1>1, <1>2, <2>2 DEF Element
  <2>4. QED
    BY <1>1, <2>1, <2>3, RowStore
<1>3. CASE store = "COL"
  <2>1. mem = db_populate_col(t)
    BY <1>3 DEF JoinMem, Memory
  <2>2. t.widths[c+1] = 4
    BY <1>1 DEF IsWide
  <2>3. Element(t, c) = mem[calc_offset(t, c) * t.rows + 4 * i]
    BY <1>3 DEF Element
  <2>4. 4 * i = i * 4
    OBVIOUS
  <2>5. Element(t, c) = mem[calc_offset(t, c) * t.rows + i * t.widths[c+1]]
    BY <2>2, <2>3, <2>4
  <2>6. QED
    BY <1>1, <2>1, <2>5, ColumnStore
<1>4. QED
  BY <1>2, <1>3

\* What the engine finds in the rows of a table of columns of four bytes.
LEMMA DramReads ==
  ASSUME NEW t, IsWide(t), NEW g, NEW e \in 0..t.rows-1, NEW c \in 0..num_cols(t)-1
  PROVE  Dram(t, g)[e * row_size(t) + 4 * c] = FieldValue(t, e, c)
<1> DEFINE n == num_cols(t)
           db == db_populate_row(t)
           A == {4 * m : m \in 0..n*(t.rows+1)-1}
           x == e * row_size(t) + 4 * c
<1>1. IsTable(t) /\ t.rows \in Nat /\ n \in Nat /\ c \in 0..n /\ calc_offset(t, c) = 4 * c
      /\ row_size(t) = 4 * n
  BY WideColumns DEF IsWide
<1>2. x \in DOMAIN db /\ db[x] = FieldValue(t, e, c)
  BY <1>1, RowStore
<1>3. x \in A
  <2>1. \A k, r \in Nat : \A p \in 0..r-1 : \A q \in 0..k-1 :
          p * (4 * k) + 4 * q = 4 * (p * k + q) /\ p * k + q \in 0..k*(r+1)-1
    <3> SUFFICES ASSUME NEW k \in Nat, NEW r \in Nat, NEW p \in 0..r-1, NEW q \in 0..k-1
                 PROVE  p * (4 * k) + 4 * q = 4 * (p * k + q) /\ p * k + q \in 0..k*(r+1)-1
      OBVIOUS
    <3>1. p * (4 * k) = 4 * (p * k) /\ p * k \in Nat
      OBVIOUS
    <3>2. k * (r+1) = p * k + k + (r-p) * k /\ (r-p) * k \in Nat
      <4>1. r+1 = p + 1 + (r-p) /\ r-p \in Nat
        OBVIOUS
      <4>2. \A d \in Nat : k * (p + 1 + d) = p * k + k + d * k /\ d * k \in Nat
        OBVIOUS
      <4>3. QED
        BY <4>1, <4>2
    <3>3. QED
      BY <3>1, <3>2
  <2>2. e * (4 * n) + 4 * c = 4 * (e * n + c) /\ e * n + c \in 0..n*(t.rows+1)-1
    BY <1>1, <2>1
  <2>3. QED
    BY <1>1, <2>2
<1>4. Dram(t, g) = [a \in A |-> IF a \in DOMAIN db THEN db[a] ELSE g]
  BY Zenon DEF Dram
<1> HIDE DEF A, x, db
<1>5. Dram(t, g)[x] = FieldValue(t, e, c)
  BY <1>2, <1>3, <1>4
<1>6. QED
  BY <1>5 DEF x

\* The registers of a JOIN lead to both columns when the first is column 0:
\* there the offset of the second is its distance from the first.
LEMMA FirstColumnLeads ==
  ASSUME NEW t, IsWide(t), NEW b \in 0..num_cols(t)-1, 0 \in 0..num_cols(t)-1
  PROVE  LET d == FromStart(t, <<0, b>>)
         IN  TakenFrom(d, 0) = 0 /\ TakenFrom(d, 1) = 4 * b
<1> DEFINE d == FromStart(t, <<0, b>>)
<1>1. /\ IsTable(t) /\ 0 \in 0..num_cols(t) /\ b \in 0..num_cols(t) /\ num_cols(t) \in Nat
      /\ calc_offset(t, 0) = 4 * 0 /\ calc_offset(t, b) = 4 * b
  BY WideColumns DEF IsWide
<1>2. UShort(calc_offset(t, 0)) = calc_offset(t, 0) /\ UShort(calc_offset(t, b)) = calc_offset(t, b)
  BY <1>1, RowsAreShort
<1>3. d[1] = 0 /\ d[2] = 4 * b
  BY <1>1, <1>2 DEF FromStart
<1>4. Sum(d, 0) = 0 /\ \A m \in Nat : Sum(d, m+1) = Sum(d, m) + d[m+1]
  BY SumSteps
<1>5. UShort(0) = 0 /\ UShort(4 * b) = 4 * b
  BY <1>1, <1>2 DEF UShort
<1> HIDE DEF d
<1>6. Sum(d, 0+1) = 0 /\ Sum(d, 1+1) = 4 * b
  <2>1. 0 \in Nat /\ 1 \in Nat /\ 0+1 = 1 /\ 1+1 = 2
    OBVIOUS
  <2>2. Sum(d, 1) = 0
    BY <1>3, <1>4, <2>1
  <2>3. Sum(d, 1+1) = Sum(d, 1) + d[2]
    BY <1>4, <2>1
  <2>4. QED
    BY <1>1, <1>3, <2>1, <2>2, <2>3
<1>7. QED
  BY <1>5, <1>6 DEF TakenFrom, d

\* The two words at `row` are the two columns of row i, the selected one first,
\* if it is the first of a row.
LEMMA JoinWindow ==
  ASSUME NEW t, IsWide(t), NEW b \in 0..num_cols(t)-1, 0 \in 0..num_cols(t)-1, store = "RME",
         mem \in JoinMem(t, 0, b), i \in 0..t.rows-1, row = i * Stride(t)
  PROVE  mem[row] = FieldValue(t, i, 0) /\ mem[row+4] = FieldValue(t, i, b)
<1> DEFINE cols == <<0, b>>
           d == FromStart(t, cols)
<1>1. /\ cols \in Seq(0..num_cols(t)-1) /\ Len(cols) = 2 /\ Len(cols) <= MaxCols
      /\ cols[1] = 0 /\ cols[2] = b
  BY DEF MaxCols
<1>2. PICK g \in Garbage : mem = Window(Dram(t, g), t, cols, d)
  BY DEF JoinMem
<1>3. row = i * 8
  BY DEF Stride
<1>4. TakenFrom(d, 0) = 0 /\ TakenFrom(d, 1) = 4 * b
  BY FirstColumnLeads
<1> HIDE DEF cols, d
<1>5. IsTable(t) /\ t.rows \in Nat /\ num_cols(t) \in Nat
  BY WideColumns DEF IsWide
<1>6. ASSUME NEW n \in 0..2 PROVE PackedOffset(t, cols, n) = n * 4
  <2> DEFINE f == [j \in 1..n |-> t.widths[cols[j] + 1]]
             four == [j \in 1..n |-> 4]
  <2>1. n \in Nat /\ Sum(four, n) = n * 4
    BY SumConstant
  <2>2. \A j \in 1..n : f[j] = four[j]
    <3> TAKE j \in 1..n
    <3>1. cols[j] \in 0..num_cols(t)-1
      BY <1>1
    <3>2. cols[j] + 1 \in 1..num_cols(t)
      BY <1>5, <3>1
    <3>3. t.widths[cols[j] + 1] = 4
      BY <3>2 DEF IsWide
    <3>4. QED
      BY <3>3
  <2>3. PackedOffset(t, cols, n) = Sum(f, n)
    BY DEF PackedOffset
  <2> HIDE DEF f, four
  <2>4. QED
    BY <2>1, <2>2, <2>3, SumSame
<1>7. PackedRowSize(t, cols) = 8 /\ PackedOffset(t, cols, 1-1) = 0 /\ PackedOffset(t, cols, 2-1) = 4
  <2>1. /\ PackedOffset(t, cols, 0) = 0 * 4
        /\ PackedOffset(t, cols, 1) = 1 * 4
        /\ PackedOffset(t, cols, 2) = 2 * 4
    BY <1>6
  <2>2. QED
    BY <1>1, <2>1 DEF PackedRowSize
<1>8. \A c \in 1..2 : mem[i * PackedRowSize(t, cols) + PackedOffset(t, cols, c-1)]
                         = Dram(t, g)[i * row_size(t) + TakenFrom(d, c-1)]
  <2> TAKE c \in 1..2
  <2>1. c \in 1..Len(cols)
    BY <1>1
  <2> DEFINE db == Dram(t, g)
  <2> HIDE DEF db
  <2>2. ASSUME NEW e \in 0..t.rows-1
        PROVE  Window(db, t, cols, d)[e * PackedRowSize(t, cols) + PackedOffset(t, cols, c-1)]
                 = db[e * row_size(t) + TakenFrom(d, c-1)]
    <3>1. IsTable(t) /\ cols \in Seq(0..num_cols(t)-1) /\ Len(cols) <= MaxCols
          /\ e \in 0..t.rows-1 /\ c \in 1..Len(cols)
      BY <1>1, <1>5, <2>1
    <3>2. \A x, y : Window(x, t, cols, y)[e * PackedRowSize(t, cols) + PackedOffset(t, cols, c-1)]
                 = x[e * row_size(t) + TakenFrom(y, c-1)]
      BY <3>1, WindowTakes
    <3>3. QED
      BY <3>2, Zenon
  <2>3. QED
    BY <1>2, <2>2, Zenon DEF db
<1>9. /\ Dram(t, g)[i * row_size(t) + 4 * 0] = FieldValue(t, i, 0)
      /\ Dram(t, g)[i * row_size(t) + 4 * b] = FieldValue(t, i, b)
  BY DramReads
<1>10. /\ mem[i * 8 + 0] = Dram(t, g)[i * row_size(t) + 4 * 0]
       /\ mem[i * 8 + 4] = Dram(t, g)[i * row_size(t) + 4 * b]
  <2>1. 1 \in 1..2 /\ 2 \in 1..2 /\ 1-1 = 0 /\ 2-1 = 1 /\ 4 * 0 = 0
    OBVIOUS
  <2>2. QED
    BY <1>4, <1>7, <1>8, <2>1
<1>11. i * 8 + 0 = row /\ i * 8 + 4 = row + 4
  BY <1>3, <1>5
<1>12. QED
  BY <1>9, <1>10, <1>11

-----------------------------------------------------------------------------
\* What a search finds for key k once the first n rows of S are hashed.
Found(n, k) ==
  {FieldValue(query.s, m, query.s_sel) :
     m \in {x \in 0..n-1 : FieldValue(query.s, x, query.s_join) = k}}

Hashed(n) == \A k \in Nat : ht_search(ht, k) = Found(n, k)

\* No two rows of S have the same key.
LEMMA OneRow ==
  ASSUME query \in JoinQuery,
         NEW m \in 0..query.s.rows-1, NEW n \in 0..query.s.rows-1,
         FieldValue(query.s, m, query.s_join) = FieldValue(query.s, n, query.s_join)
  PROVE  m = n
<1> DEFINE c == query.s_join
           t == query.s
<1>1. IsWide(t) /\ c \in 0..num_cols(t)-1
  BY JoinQueryFacts
<1>2. num_cols(t) \in Nat /\ t.rows \in Nat
  BY <1>1, WideColumns
<1>3. FieldValue(t, m, c) = 100 * m + c /\ FieldValue(t, n, c) = 100 * n + c
  BY <1>1, WideValues
<1>4. c \in Int /\ m \in Int /\ n \in Int
  BY <1>1, <1>2
<1> HIDE DEF c
<1>5. 100 * m + c = 100 * n + c
  BY <1>3 DEF c
<1>6. QED
  BY <1>4, <1>5

LEMMA FoundOne ==
  ASSUME query \in JoinQuery, NEW n \in 0..query.s.rows-1
  PROVE  Found(query.s.rows, FieldValue(query.s, n, query.s_join))
           = {FieldValue(query.s, n, query.s_sel)}
<1> DEFINE t == query.s
           M == {x \in 0..t.rows-1 : FieldValue(t, x, query.s_join) = FieldValue(t, n, query.s_join)}
<1>1. M = {n}
  BY OneRow
<1>2. Found(t.rows, FieldValue(t, n, query.s_join)) = {FieldValue(t, m, query.s_sel) : m \in M}
  BY Zenon DEF Found
<1> HIDE DEF M
<1>3. QED
  BY <1>1, <1>2

\* S is hashed right: in the row and the column store, and over the window if
\* the selected column is the first of a row.
Sound == store # "RME" \/ query.s_sel = 0

\* The pair the loop over S inserts is the key and the value of its row.
LEMMA BuildPairIsRight ==
  ASSUME store \in Stores, query \in JoinQuery, Sound,
         mem \in JoinMem(query.s, query.s_sel, query.s_join),
         i \in 0..query.s.rows-1, row = i * Stride(query.s)
  PROVE  /\ BuildPair[1] = FieldValue(query.s, i, query.s_join)
         /\ BuildPair[2] = FieldValue(query.s, i, query.s_sel)
<1> DEFINE t == query.s
           a == query.s_sel
           b == query.s_join
<1>1. IsWide(t) /\ a \in 0..num_cols(t)-1 /\ b \in 0..num_cols(t)-1 /\ num_cols(t) \in Nat
  BY JoinQueryFacts, WideColumns
<1>2. store \in {"ROW", "COL", "RME"}
  BY JoinAssumption
<1>3. CASE store # "RME"
  <2>1. Element(t, a) = FieldValue(t, i, a) /\ Element(t, b) = FieldValue(t, i, b)
    BY <1>1, <1>2, <1>3, JoinReads
  <2>2. BuildPair = <<Element(t, b), Element(t, a)>>
    BY <1>3 DEF BuildPair
  <2>3. QED
    BY <2>1, <2>2
<1>4. CASE store = "RME"
  <2>1. a = 0
    BY <1>4 DEF Sound
  <2>2. mem[row] = FieldValue(t, i, a) /\ mem[row+4] = FieldValue(t, i, b)
    BY <1>1, <1>4, <2>1, JoinWindow
  <2>3. BuildPair = IF a < b THEN <<mem[row+4], mem[row]>> ELSE <<mem[row], mem[row+4]>>
    BY <1>4 DEF BuildPair
  <2>4. CASE a < b
    BY <2>2, <2>3, <2>4
  <2>5. CASE ~(a < b)
    <3>1. b = a
      BY <1>1, <2>1, <2>5
    <3>2. mem[row+4] = mem[row]
      BY <2>2, <3>1
    <3>3. QED
      BY <2>2, <2>3, <2>5, <3>1, <3>2
  <2>6. QED
    BY <2>4, <2>5
<1>5. QED
  BY <1>3, <1>4

\* The insertion of a row makes a search find it, and no less than before.
LEMMA HashRow ==
  ASSUME query \in JoinQuery, query' = query, CAPACITY \in Nat \ {0},
         NEW n \in 0..query.s.rows-1, Hashed(n), HT!TypeOK,
         ht' = ht_insert(ht, FieldValue(query.s, n, query.s_join), FieldValue(query.s, n, query.s_sel))
  PROVE  Hashed(n+1)' /\ HT!TypeOK'
<1> DEFINE t == query.s
           k == FieldValue(t, n, query.s_join)
           v == FieldValue(t, n, query.s_sel)
<1>1. k \in Nat /\ v \in Nat /\ t.rows \in Nat
  BY JoinQueryFacts, WideValues, WideColumns
<1> HIDE DEF k, v
<1>2. ht' = HT!ht_insert(ht, k, v)
  BY JoinSameTable DEF k, v
<1>3. HT!TypeOK'
  BY <1>1, <1>2, HT!InsertTyped
<1>4. ASSUME NEW q \in Nat PROVE ht_search(ht', q) = Found(n+1, q)
  <2>1. ht_search(ht', q) = IF q = k THEN {v} ELSE ht_search(ht, q)
    BY <1>1, <1>2, HT!SearchAfterInsert, JoinSameTable
  <2>2. ht_search(ht, q) = Found(n, q)
    BY DEF Hashed
  <2>3. CASE q = k
    <3>1. {x \in 0..(n+1)-1 : FieldValue(t, x, query.s_join) = q} = {n}
      <4>1. ASSUME NEW x \in 0..(n+1)-1, FieldValue(t, x, query.s_join) = q PROVE x = n
        BY <1>1, <2>3, <4>1, OneRow DEF k
      <4>2. n \in 0..(n+1)-1 /\ FieldValue(t, n, query.s_join) = q
        BY <1>1, <2>3 DEF k
      <4>3. QED
        BY <4>1, <4>2
    <3>2. Found(n+1, q) = {FieldValue(t, m, query.s_sel) : m \in {n}}
      BY <3>1 DEF Found
    <3>3. QED
      BY <2>1, <2>3, <3>2 DEF v
  <2>4. CASE q # k
    <3>1. {x \in 0..(n+1)-1 : FieldValue(t, x, query.s_join) = q}
            = {x \in 0..n-1 : FieldValue(t, x, query.s_join) = q}
      <4>1. ASSUME NEW x \in 0..(n+1)-1, FieldValue(t, x, query.s_join) = q PROVE x \in 0..n-1
        BY <1>1, <2>4, <4>1 DEF k
      <4>2. \A x \in 0..n-1 : x \in 0..(n+1)-1
        BY <1>1
      <4>3. QED
        BY <4>1, <4>2
    <3>2. Found(n+1, q) = Found(n, q)
      BY <3>1 DEF Found
    <3>3. QED
      BY <2>1, <2>2, <2>4, <3>2
  <2>5. QED
    BY <2>3, <2>4
<1>5. ASSUME NEW q \in Nat PROVE Found(n+1, q)' = Found(n+1, q)
  BY DEF Found
<1>6. QED
  BY <1>3, <1>4, <1>5 DEF Hashed

-----------------------------------------------------------------------------
\* The rows of the join with row n of R, and with the first n rows of R.
WithRow(m, n) ==
  IF FieldValue(query.s, m-1, query.s_join) = FieldValue(query.r, n-1, query.r_join)
    THEN <<<<FieldValue(query.s, m-1, query.s_sel), FieldValue(query.r, n-1, query.r_sel)>>>>
    ELSE <<>>

JoinOf(n) == Concat([m \in 1..query.s.rows |-> WithRow(m, n)], query.s.rows)

Joined(n) == Concat([k \in 1..query.r.rows |-> JoinOf(k)], n)

\* A row of R joins with the row of S that a search for its key finds.
LEMMA JoinOfRow ==
  ASSUME query \in JoinQuery, NEW n \in 0..query.r.rows-1
  PROVE  LET key == FieldValue(query.r, n, query.r_join)
             val == FieldValue(query.r, n, query.r_sel)
             found == Found(query.s.rows, key)
         IN  \/ found = {} /\ JoinOf(n+1) = <<>>
             \/ \E w \in Nat : found = {w} /\ JoinOf(n+1) = <<<<w, val>>>>
<1> DEFINE S == query.s
           key == FieldValue(query.r, n, query.r_join)
           val == FieldValue(query.r, n, query.r_sel)
           found == Found(S.rows, key)
           f == [m \in 1..S.rows |-> WithRow(m, n+1)]
           M == {x \in 0..S.rows-1 : FieldValue(S, x, query.s_join) = key}
<1>1. S.rows \in Nat /\ query.r.rows \in Nat /\ (n+1)-1 = n
  BY JoinQueryFacts, WideColumns
<1>2. JoinOf(n+1) = Concat(f, S.rows)
  BY DEF JoinOf
<1>3. ASSUME NEW m \in 1..S.rows
      PROVE  /\ m-1 \in 0..S.rows-1
             /\ m-1 \in M => f[m] = <<<<FieldValue(S, m-1, query.s_sel), val>>>>
             /\ m-1 \notin M => f[m] = <<>>
  <2>1. m-1 \in 0..S.rows-1
    BY <1>1
  <2>2. f[m] = IF FieldValue(S, m-1, query.s_join) = key
                 THEN <<<<FieldValue(S, m-1, query.s_sel), val>>>> ELSE <<>>
    BY <1>1 DEF WithRow
  <2>3. m-1 \in M <=> FieldValue(S, m-1, query.s_join) = key
    BY <2>1
  <2> HIDE DEF f, M, key, val
  <2>4. QED
    BY <2>1, <2>2, <2>3
<1>4. found = {FieldValue(S, m, query.s_sel) : m \in M}
  BY Zenon DEF Found
<1>5. CASE M = {}
  <2> HIDE DEF M, f
  <2>1. \A m \in 1..S.rows : f[m] = <<>>
    BY <1>3, <1>5
  <2>2. Concat(f, S.rows) = <<>>
    BY <1>1, <2>1, ConcatNone
  <2>3. found = {}
    BY <1>4, <1>5
  <2> HIDE DEF found
  <2>4. QED
    BY <1>2, <2>2, <2>3 DEF found
<1>6. CASE M # {}
  <2>1. PICK x \in 0..S.rows-1 : x \in M
    BY <1>6
  <2>2. M = {x}
    BY <2>1, OneRow
  <2> DEFINE w == FieldValue(S, x, query.s_sel)
  <2>3. w \in Nat
    BY JoinQueryFacts, WideValues
  <2>4. found = {w}
    <3> HIDE DEF M, found
    <3>1. QED
      BY <1>4, <2>2
  <2> HIDE DEF M, f
  <2>5. x+1 \in 1..S.rows /\ (x+1)-1 = x
    BY <1>1
  <2>6. f[x+1] = <<<<w, val>>>>
    BY <1>3, <2>1, <2>5
  <2>7. \A m \in 1..S.rows : m # x+1 => f[m] = <<>>
    <3> TAKE m \in 1..S.rows
    <3> HAVE m # x+1
    <3>1. m-1 # x
      BY <1>1
    <3>2. QED
      BY <1>3, <2>2, <3>1
  <2> HIDE DEF w, val
  <2>8. f[x+1] \in Seq({<<w, val>>})
    BY <2>6
  <2>9. Concat(f, S.rows) = f[x+1]
    BY <1>1, <2>5, <2>7, <2>8, ConcatOne
  <2>10. JoinOf(n+1) = <<<<w, val>>>>
    BY <1>2, <2>6, <2>9, Zenon
  <2> HIDE DEF found
  <2>11. QED
    BY <2>3, <2>4, <2>10 DEF found, val
<1>7. QED
  BY <1>5, <1>6

\* The words of the result buffer are the rows of J.
Written(J) ==
  /\ ptr = 2 * Len(J) /\ res_count = Len(J)
  /\ \A m \in 1..Len(J) : /\ {2*m-2, 2*m-1} \subseteq DOMAIN result
                          /\ J[m] = <<result[2*m-2], result[2*m-1]>>

Kept(n) == Joined(n) \in Seq(Nat \X Nat) /\ Len(Joined(n)) <= n /\ Written(Joined(n))

Building ==
  /\ pc = "build" /\ mem \in JoinMem(query.s, query.s_sel, query.s_join)
  /\ i \in 0..query.s.rows /\ row = i * Stride(query.s)
  /\ Sound => HT!TypeOK /\ Hashed(i)
  /\ result = <<>> /\ ptr = 0 /\ res_count = 0

Probing ==
  /\ pc = "probe" /\ mem \in JoinMem(query.r, query.r_sel, query.r_join)
  /\ i \in 0..query.r.rows /\ (Sound => Hashed(query.s.rows))
  /\ store # "RME" => row = i * Stride(query.r) /\ Kept(i)

Ended ==
  /\ pc = "done"
  /\ store # "RME" => ptr <= 2 * query.r.rows /\ Answered

JoinInv == store \in Stores /\ query \in JoinQuery /\ (Building \/ Probing \/ Ended)

LEMMA JoinedSteps ==
  ASSUME query \in JoinQuery
  PROVE  /\ Joined(0) = <<>>
         /\ \A n \in 0..query.r.rows-1 : Joined(n+1) = Joined(n) \o JoinOf(n+1)
         /\ JoinedRows = Joined(query.r.rows)
<1> DEFINE f == [k \in 1..query.r.rows |-> JoinOf(k)]
<1>1. query.r.rows \in Nat
  BY JoinQueryFacts, WideColumns
<1>2. \A n \in 0..query.r.rows-1 : n \in Nat /\ f[n+1] = JoinOf(n+1)
  BY <1>1
<1>3. \A n : Joined(n) = Concat(f, n)
  BY DEF Joined
<1>4. JoinedRows = Joined(query.r.rows)
  BY Zenon DEF JoinedRows, Joined, JoinOf, WithRow
<1> HIDE DEF f
<1>5. Concat(f, 0) = <<>> /\ \A n \in Nat : Concat(f, n+1) = Concat(f, n) \o f[n+1]
  BY ConcatSteps
<1>6. QED
  BY <1>2, <1>3, <1>4, <1>5

\* A match is written behind the others.
LEMMA Stored ==
  ASSUME NEW J \in Seq(Nat \X Nat), Written(J), NEW w \in Nat, NEW v \in Nat,
         store # "RME", Matched(w, v)
  PROVE  Written(Append(J, <<w, v>>))'
<1> DEFINE K == Append(J, <<w, v>>)
<1>1. /\ Len(J) \in Nat /\ Len(K) = Len(J) + 1 /\ K[Len(J)+1] = <<w, v>>
      /\ \A m \in 1..Len(J) : K[m] = J[m]
  OBVIOUS
<1>2. ptr = 2 * Len(J) /\ res_count = Len(J)
  BY DEF Written
<1>3. /\ result' = [x \in DOMAIN result \cup {ptr, ptr+1} |->
                      IF x = ptr THEN w ELSE IF x = ptr+1 THEN v ELSE result[x]]
      /\ ptr' = ptr + 2 /\ res_count' = res_count + 1
  BY DEF Matched, Out
<1> HIDE DEF K
<1>4. ptr' = 2 * Len(K) /\ res_count' = Len(K)
  BY <1>1, <1>2, <1>3
<1>5. ASSUME NEW m \in 1..Len(J)
      PROVE  {2*m-2, 2*m-1} \subseteq DOMAIN result' /\ K[m] = <<result'[2*m-2], result'[2*m-1]>>
  <2>1. {2*m-2, 2*m-1} \subseteq DOMAIN result /\ J[m] = <<result[2*m-2], result[2*m-1]>>
    BY DEF Written
  <2>2. 2*m-2 # ptr /\ 2*m-2 # ptr+1 /\ 2*m-1 # ptr /\ 2*m-1 # ptr+1
    <3> DEFINE n == Len(J)
    <3>1. n \in Nat /\ m \in 1..n /\ ptr = 2 * n
      BY <1>1, <1>2
    <3> HIDE DEF n
    <3>2. QED
      BY ONLY <3>1
  <2>3. result'[2*m-2] = result[2*m-2] /\ result'[2*m-1] = result[2*m-1]
    BY <1>3, <2>1, <2>2
  <2>4. {2*m-2, 2*m-1} \subseteq DOMAIN result'
    BY <1>3, <2>1
  <2>5. QED
    BY <1>1, <2>1, <2>3, <2>4
<1>6. /\ {ptr, ptr+1} \subseteq DOMAIN result'
      /\ result'[ptr] = w /\ result'[ptr+1] = v
  BY <1>1, <1>2, <1>3
<1>7. ASSUME NEW m \in 1..Len(K)
      PROVE  {2*m-2, 2*m-1} \subseteq DOMAIN result' /\ K[m] = <<result'[2*m-2], result'[2*m-1]>>
  <2>1. CASE m \in 1..Len(J)
    BY <1>5, <2>1
  <2>2. CASE m = Len(J)+1
    <3>1. 2*m-2 = ptr /\ 2*m-1 = ptr+1
      BY <1>1, <1>2, <2>2
    <3>2. QED
      BY <1>1, <1>6, <2>2, <3>1
  <2>3. QED
    BY <1>1, <2>1, <2>2
<1>8. QED
  BY <1>4, <1>7 DEF Written, K

\* Nothing the operators above say of a query changes with the scan.
LEMMA SameJoin ==
  ASSUME query' = query
  PROVE  /\ \A n : Joined(n)' = Joined(n)
         /\ \A n, k : Found(n, k)' = Found(n, k)
         /\ JoinedRows' = JoinedRows
BY DEF Joined, JoinOf, WithRow, Found, JoinedRows

LEMMA JoinInitInv ==
  ASSUME CAPACITY \in Nat \ {0}, JoinInit
  PROVE  JoinInv
<1>1. /\ store \in Stores /\ query \in JoinQuery /\ pc = "build"
      /\ mem \in JoinMem(query.s, query.s_sel, query.s_join) /\ i = 0 /\ row = 0
      /\ ht = HT!ht_create /\ result = <<>> /\ ptr = 0 /\ res_count = 0
  BY JoinSameTable DEF JoinInit
<1>2. HT!TypeOK
  BY <1>1 DEF HT!TypeOK, HT!ht_create
<1>3. \A k \in Nat : ht_search(ht, k) = {}
  BY <1>1, JoinSameTable, HT!HashRange DEF HT!ht_create, HT!ht_search, HT!FirstWith
<1>4. \A k : Found(0, k) = {}
  BY DEF Found
<1>5. query.s.rows \in Nat /\ Stride(query.s) \in Nat
  <2>1. query.s.rows \in Nat /\ num_cols(query.s) \in Nat
    BY <1>1, JoinQueryFacts, WideColumns
  <2>2. store \in {"ROW", "COL", "RME"}
    BY <1>1, JoinAssumption
  <2>3. QED
    BY <2>1, <2>2 DEF Stride
<1>6. Hashed(i)
  BY <1>1, <1>3, <1>4 DEF Hashed
<1>7. QED
  BY <1>1, <1>2, <1>5, <1>6 DEF JoinInv, Building

LEMMA RowStepJoin ==
  ASSUME store \in Stores, NEW t, IsWide(t)
  PROVE  Stride(t) \in Nat
<1>1. num_cols(t) \in Nat
  BY WideColumns
<1>2. store \in {"ROW", "COL", "RME"}
  BY JoinAssumption
<1>3. QED
  BY <1>1, <1>2 DEF Stride

\* A turn of the loop over S.
LEMMA BuildStep ==
  ASSUME CAPACITY \in Nat \ {0}, store \in Stores, query \in JoinQuery,
         query' = query, store' = store, Building, BuildRow
  PROVE  Building'
<1> DEFINE N == query.s.rows
<1>1. /\ mem \in JoinMem(query.s, query.s_sel, query.s_join)
      /\ i \in 0..N /\ row = i * Stride(query.s)
      /\ (Sound => HT!TypeOK /\ Hashed(i)) /\ result = <<>> /\ ptr = 0 /\ res_count = 0
  BY DEF Building
<1>2. /\ i < N /\ i' = i + 1 /\ row' = row + Stride(query.s) /\ mem' = mem /\ pc = "build" /\ pc' = pc
      /\ ht' = ht_insert(ht, BuildPair[1], BuildPair[2])
      /\ result' = result /\ ptr' = ptr /\ res_count' = res_count
  BY Zenon DEF BuildRow
<1>3. N \in Nat /\ IsWide(query.s)
  BY JoinQueryFacts, WideColumns
<1>4. i \in 0..N-1 /\ i+1 \in 0..N /\ i \in Nat
  BY <1>1, <1>2, <1>3
<1>5. PICK n \in 0..N-1 : n = i
  BY <1>4
<1>6. ASSUME Sound PROVE Hashed(n+1)' /\ HT!TypeOK'
  <2>1. /\ BuildPair[1] = FieldValue(query.s, i, query.s_join)
        /\ BuildPair[2] = FieldValue(query.s, i, query.s_sel)
    BY <1>1, <1>4, <1>6, BuildPairIsRight
  <2>2. Hashed(n) /\ HT!TypeOK
    BY <1>1, <1>5, <1>6
  <2>3. ht' = ht_insert(ht, FieldValue(query.s, n, query.s_join), FieldValue(query.s, n, query.s_sel))
    BY <1>2, <1>5, <2>1
  <2>4. QED
    BY <2>2, <2>3, HashRow
<1>7. ASSUME Sound PROVE Hashed(i)' /\ HT!TypeOK'
  <2>1. i' = n+1
    BY <1>2, <1>5
  <2>2. QED
    BY <1>6, <1>7, <2>1 DEF Hashed, Found
<1>8. (Sound => HT!TypeOK /\ Hashed(i))'
  <2>1. Sound' <=> Sound
    BY DEF Sound
  <2>2. QED
    BY <1>7, <2>1
<1>9. row' = i' * Stride(query.s)
  <2>1. Stride(query.s) \in Nat
    BY <1>3, RowStepJoin
  <2>2. \A a, b \in Nat : a * b + b = (a+1) * b
    OBVIOUS
  <2>3. QED
    BY <1>1, <1>2, <1>4, <2>1, <2>2
<1>10. Stride(query.s)' = Stride(query.s)
  BY DEF Stride, num_cols
<1>11. JoinMem(query.s, query.s_sel, query.s_join)' = JoinMem(query.s, query.s_sel, query.s_join)
  BY DEF JoinMem, Memory
<1>12. (i \in 0..N)'
  BY <1>2, <1>4
<1>13. (row = i * Stride(query.s))' /\ (mem \in JoinMem(query.s, query.s_sel, query.s_join))'
  BY <1>1, <1>2, <1>9, <1>10, <1>11
<1>14. QED
  BY <1>1, <1>2, <1>8, <1>12, <1>13 DEF Building

\* The table is complete when the scan of R starts.
LEMMA SecondStep ==
  ASSUME store \in Stores, query \in JoinQuery,
         query' = query, store' = store, Building, SecondTable
  PROVE  Probing'
<1>1. /\ i = query.s.rows /\ pc' = "probe" /\ i' = 0 /\ row' = 0 /\ ht' = ht
      /\ mem' \in JoinMem(query.r, query.r_sel, query.r_join)
      /\ result' = result /\ ptr' = ptr /\ res_count' = res_count
  BY Zenon DEF SecondTable
<1>2. (Sound => Hashed(query.s.rows)) /\ result = <<>> /\ ptr = 0 /\ res_count = 0
  BY <1>1 DEF Building
<1>3. query.r.rows \in Nat /\ Stride(query.r) \in Nat /\ Joined(0) = <<>>
  BY JoinQueryFacts, WideColumns, RowStepJoin, JoinedSteps
<1>4. Stride(query.r)' = Stride(query.r)
  BY DEF Stride, num_cols
<1>5. JoinMem(query.r, query.r_sel, query.r_join)' = JoinMem(query.r, query.r_sel, query.r_join)
  BY DEF JoinMem, Memory
<1>6. (Sound => Hashed(query.s.rows))'
  BY <1>1, <1>2 DEF Hashed, Found, Sound
<1>7. Joined(0)' = <<>>
  BY <1>3, SameJoin
<1>8. Joined(i)' = <<>>
  BY <1>1, <1>3, SameJoin
<1>9. Kept(i)'
  <2>1. Written(<<>>)'
    BY <1>1, <1>2 DEF Written
  <2>2. Written(Joined(i))'
    BY <1>8, <2>1 DEF Written
  <2>3. <<>> \in Seq(Nat \X Nat) /\ Len(<<>>) <= 0
    OBVIOUS
  <2>4. QED
    BY <1>1, <1>8, <2>2, <2>3, Zenon DEF Kept
<1>10. (row = i * Stride(query.r))' /\ (mem \in JoinMem(query.r, query.r_sel, query.r_join))'
      /\ (i \in 0..query.r.rows)'
  BY <1>1, <1>3, <1>4, <1>5
<1>11. QED
  BY <1>1, <1>6, <1>9, <1>10 DEF Probing

\* A turn of the loop over R, in the row and the column store.
LEMMA KeepStep ==
  ASSUME store \in Stores, query \in JoinQuery,
         query' = query, store' = store, Probing, ProbeRow, store # "RME"
  PROVE  Kept(i)'
<1> DEFINE key == FieldValue(query.r, i, query.r_join)
           val == FieldValue(query.r, i, query.r_sel)
           found == ht_search(ht, key)
<1>1. /\ mem \in JoinMem(query.r, query.r_sel, query.r_join)
      /\ i \in 0..query.r.rows /\ Hashed(query.s.rows)
      /\ row = i * Stride(query.r) /\ Kept(i)
  BY DEF Probing, Sound
<1>2. i < query.r.rows /\ i' = i+1
  BY Zenon DEF ProbeRow
<1>3. IsWide(query.r) /\ query.r.rows \in Nat /\ i \in 0..query.r.rows-1 /\ i \in Nat
  <2>1. IsWide(query.r) /\ query.r.rows \in Nat
    BY JoinQueryFacts, WideColumns
  <2>2. QED
    BY <1>1, <1>2, <2>1
<1>4. key \in Nat /\ val \in Nat
  BY <1>3, JoinQueryFacts, WideValues
<1>5. Element(query.r, query.r_join) = key /\ Element(query.r, query.r_sel) = val
  <2>1. store \in {"ROW", "COL"}
    BY JoinAssumption
  <2>2. query.r_join \in 0..num_cols(query.r)-1 /\ query.r_sel \in 0..num_cols(query.r)-1
    BY JoinQueryFacts
  <2>3. QED
    BY <1>1, <1>3, <2>1, <2>2, JoinReads
<1>6. ProbePairs = {<<key, val>>}
  BY <1>5 DEF ProbePairs
<1> HIDE DEF key, val
<1>7. \/ \E val1 \in found : Matched(val1, val)
      \/ found = {} /\ ptr' = Out /\ UNCHANGED <<result, res_count>>
  <2>1. \E p \in {<<key, val>>} :
          \/ \E val1 \in ht_search(ht, p[1]) : Matched(val1, p[2])
          \/ ht_search(ht, p[1]) = {} /\ ptr' = Out /\ UNCHANGED <<result, res_count>>
    BY <1>6 DEF ProbeRow
  <2>2. QED
    BY <2>1
<1>8. found = Found(query.s.rows, key)
  BY <1>1, <1>4 DEF Hashed
<1>9. Joined(i+1) = Joined(i) \o JoinOf(i+1) /\ Joined(i)' = Joined(i+1)
  BY <1>2, <1>3, JoinedSteps, SameJoin
<1>10. \/ found = {} /\ JoinOf(i+1) = <<>>
       \/ \E w \in Nat : found = {w} /\ JoinOf(i+1) = <<<<w, val>>>>
  BY <1>3, <1>8, JoinOfRow DEF key, val
<1>11. PICK J : J = Joined(i)
  OBVIOUS
<1>12. J \in Seq(Nat \X Nat) /\ Len(J) <= i /\ Written(J)
  BY <1>1, <1>11 DEF Kept
<1> HIDE DEF found
<1>13. CASE found = {}
  <2>1. JoinOf(i+1) = <<>> /\ ptr' = Out /\ UNCHANGED <<result, res_count>>
    BY <1>7, <1>10, <1>13
  <2>2. ptr' = ptr /\ result' = result /\ res_count' = res_count
    BY <2>1 DEF Out
  <2>3. Joined(i)' = J
    <3>1. Joined(i)' = J \o <<>>
      BY <1>9, <1>11, <2>1, Zenon
    <3>2. \A x \in Seq(Nat \X Nat) : x \o <<>> = x
      OBVIOUS
    <3>3. QED
      BY <1>12, <3>1, <3>2, Zenon
  <2>4. Written(J)'
    BY <1>12, <2>2 DEF Written
  <2>5. Written(Joined(i))'
    BY <2>3, <2>4 DEF Written
  <2>6. QED
    BY <1>2, <1>3, <1>12, <2>3, <2>5 DEF Kept
<1>14. CASE found # {}
  <2>1. PICK w \in Nat : found = {w} /\ JoinOf(i+1) = <<<<w, val>>>>
    BY <1>10, <1>14
  <2>2. Matched(w, val)
    BY <1>7, <2>1
  <2>3. PICK v \in Nat : v = val
    BY <1>4
  <2> DEFINE K == Append(J, <<w, v>>)
  <2>4. Written(K)'
    BY <1>12, <2>2, <2>3, Stored
  <2>5. Joined(i)' = K
    <3>1. Joined(i)' = J \o <<<<w, v>>>>
      BY <1>9, <1>11, <2>1, <2>3
    <3>2. <<w, v>> \in Nat \X Nat
      OBVIOUS
    <3>3. QED
      BY <1>12, <3>1, <3>2
  <2>6. K \in Seq(Nat \X Nat) /\ Len(K) <= i+1
    BY <1>3, <1>12
  <2> HIDE DEF K
  <2>7. Written(Joined(i))'
    BY <2>4, <2>5 DEF Written
  <2>8. QED
    BY <1>2, <2>5, <2>6, <2>7 DEF Kept
<1>15. QED
  BY <1>13, <1>14

LEMMA ProbeStep ==
  ASSUME store \in Stores, query \in JoinQuery,
         query' = query, store' = store, Probing, ProbeRow
  PROVE  Probing'
<1>1. /\ mem \in JoinMem(query.r, query.r_sel, query.r_join)
      /\ i \in 0..query.r.rows /\ (Sound => Hashed(query.s.rows))
      /\ (store # "RME" => row = i * Stride(query.r))
  BY DEF Probing
<1>2. /\ i < query.r.rows /\ i' = i+1 /\ pc' = "probe" /\ mem' = mem /\ ht' = ht
      /\ row' = IF store = "RME" THEN row ELSE row + Stride(query.r)
  BY Zenon DEF ProbeRow
<1>3. query.r.rows \in Nat /\ Stride(query.r) \in Nat /\ i \in Nat
  <2>1. IsWide(query.r) /\ query.r.rows \in Nat
    BY JoinQueryFacts, WideColumns
  <2>2. QED
    BY <1>1, <2>1, RowStepJoin
<1>4. Stride(query.r)' = Stride(query.r)
  BY DEF Stride, num_cols
<1>5. JoinMem(query.r, query.r_sel, query.r_join)' = JoinMem(query.r, query.r_sel, query.r_join)
  BY DEF JoinMem, Memory
<1>6. (Sound => Hashed(query.s.rows))'
  BY <1>1, <1>2 DEF Hashed, Found, Sound
<1>7. (store # "RME" => row = i * Stride(query.r))'
  <2> SUFFICES ASSUME store # "RME" PROVE row' = i' * Stride(query.r)
    BY <1>4
  <2>1. \A a, b \in Nat : a * b + b = (a+1) * b
    OBVIOUS
  <2>2. QED
    BY <1>1, <1>2, <1>3, <2>1
<1>8. (mem \in JoinMem(query.r, query.r_sel, query.r_join))' /\ (i \in 0..query.r.rows)'
  BY <1>1, <1>2, <1>3, <1>5
<1>9. (store # "RME" => Kept(i))'
  BY KeepStep
<1>10. QED
  BY <1>2, <1>6, <1>7, <1>8, <1>9 DEF Probing

LEMMA FirstRows ==
  ASSUME NEW V, NEW J \in Seq(V), NEW c \in 0..Len(J)
  PROVE  SubSeq(J, 1, c) = [n \in 1..c |-> J[n]]
<1> DEFINE q == SubSeq(J, 1, c)
<1>1. Len(J) \in Nat /\ c \in Nat /\ c <= Len(J)
  OBVIOUS
<1>2. q \in Seq(V) /\ Len(q) = c
  BY <1>1
<1>3. ASSUME NEW n \in 1..c PROVE q[n] = J[n]
  BY <1>1
<1> HIDE DEF q
<1>4. q = [n \in 1..c |-> q[n]]
  BY <1>2
<1>5. QED
  BY <1>3, <1>4 DEF q

\* What is printed are the first rows of the buffer.
LEMMA ReportStep ==
  ASSUME store \in Stores, query \in JoinQuery,
         query' = query, store' = store, Probing, JoinReport
  PROVE  Ended'
<1>1. i = query.r.rows /\ pc' = "done" /\ ptr' = ptr /\ result' = result
  BY Zenon DEF JoinReport
<1>2. Limit \in Nat /\ query.r.rows \in Nat
  BY JoinQueryFacts, WideColumns
<1>3. ASSUME store # "RME" PROVE ptr <= 2 * query.r.rows /\ Answered'
  <2> DEFINE J == Joined(query.r.rows)
             count == IF Limit < res_count THEN Limit ELSE res_count
  <2>1. J \in Seq(Nat \X Nat) /\ Len(J) <= query.r.rows /\ Written(J)
    BY <1>1, <1>3 DEF Probing, Kept
  <2>2. JoinedRows' = J
    BY JoinedSteps, SameJoin
  <2> HIDE DEF J
  <2>3. /\ Len(J) \in Nat /\ ptr = 2 * Len(J) /\ res_count = Len(J)
        /\ \A m \in 1..Len(J) : /\ 2*m-2 \in DOMAIN result /\ 2*m-1 \in DOMAIN result
                                /\ J[m] = <<result[2*m-2], result[2*m-1]>>
    BY <2>1 DEF Written
  <2>4. PICK g \in Garbage :
          shown' = [n \in 1..count |->
                      <<IF 2*n-2 \in DOMAIN result THEN result[2*n-2] ELSE g,
                        IF 2*n-1 \in DOMAIN result THEN result[2*n-1] ELSE g>>]
    BY Zenon DEF JoinReport
  <2>5. count \in 0..Len(J) /\ count = IF Limit < Len(J) THEN Limit ELSE Len(J)
    BY <1>2, <2>3
  <2> HIDE DEF count
  <2>6. \A n \in 1..count :
          J[n] = <<IF 2*n-2 \in DOMAIN result THEN result[2*n-2] ELSE g,
                   IF 2*n-1 \in DOMAIN result THEN result[2*n-1] ELSE g>>
    <3> TAKE n \in 1..count
    <3>1. n \in 1..Len(J)
      BY <2>3, <2>5
    <3>2. QED
      BY <2>3, <3>1
  <2>7. shown' = [n \in 1..count |-> J[n]]
    BY <2>4, <2>6
  <2>8. SubSeq(J, 1, count) = [n \in 1..count |-> J[n]]
    BY <2>1, <2>5, FirstRows
  <2>9. Answered'
    BY <2>2, <2>5, <2>7, <2>8 DEF Answered
  <2>10. QED
    BY <1>2, <2>1, <2>3, <2>9
<1>4. QED
  BY <1>1, <1>3 DEF Ended

LEMMA JoinNextInv ==
  ASSUME CAPACITY \in Nat \ {0}, JoinInv, [JoinNext]_joinVars
  PROVE  JoinInv'
<1>1. store \in Stores /\ query \in JoinQuery /\ (Building \/ Probing \/ Ended)
  BY DEF JoinInv
<1>2. query' = query /\ store' = store
  BY DEF JoinNext, BuildRow, SecondTable, ProbeRow, JoinReport, joinVars
<1>3. CASE BuildRow
  <2>1. Building
    BY <1>1, <1>3 DEF BuildRow, Probing, Ended
  <2>2. QED
    BY <1>1, <1>2, <1>3, <2>1, BuildStep DEF JoinInv
<1>4. CASE SecondTable
  <2>1. Building
    BY <1>1, <1>4 DEF SecondTable, Probing, Ended
  <2>2. QED
    BY <1>1, <1>2, <1>4, <2>1, SecondStep DEF JoinInv
<1>5. CASE ProbeRow
  <2>1. Probing
    BY <1>1, <1>5 DEF ProbeRow, Building, Ended
  <2>2. QED
    BY <1>1, <1>2, <1>5, <2>1, ProbeStep DEF JoinInv
<1>6. CASE JoinReport
  <2>1. Probing
    BY <1>1, <1>6 DEF JoinReport, Building, Ended
  <2>2. QED
    BY <1>1, <1>2, <1>6, <2>1, ReportStep DEF JoinInv
<1>7. CASE UNCHANGED joinVars
  <2>1. /\ mem' = mem /\ pc' = pc /\ i' = i /\ row' = row /\ ht' = ht /\ result' = result
        /\ ptr' = ptr /\ res_count' = res_count /\ shown' = shown
    BY <1>7 DEF joinVars
  <2>2. /\ \A n : Hashed(n)' <=> Hashed(n)
        /\ \A n : Kept(n)' <=> Kept(n)
        /\ (HT!TypeOK' <=> HT!TypeOK) /\ (Sound' <=> Sound)
    BY <1>2, <2>1 DEF Hashed, Found, Kept, Written, Joined, JoinOf, WithRow, HT!TypeOK, Sound
  <2>3. Building => Building'
    BY <1>2, <2>1, <2>2 DEF Building, JoinMem, Memory, Stride
  <2>4. Probing => Probing'
    BY <1>2, <2>1, <2>2 DEF Probing, JoinMem, Memory, Stride
  <2>5. Ended => Ended'
    BY <1>2, <2>1 DEF Ended, Answered, JoinedRows
  <2>6. QED
    BY <1>1, <1>2, <2>3, <2>4, <2>5 DEF JoinInv
<1>8. QED
  BY <1>3, <1>4, <1>5, <1>6, <1>7 DEF JoinNext

\* Once the loop of q3 over S is done a search finds, for the key of every row
\* of S, the selected column of that row and nothing else, whatever the tables
\* and the number of buckets: in the row and the column store always, and over
\* the window, as the offset registers of a JOIN lead the engine, if the
\* selected column is column 0 (join_row, join_col, join_rme, db_config).
THEOREM SearchFindsTheRow == JoinSpec => []HashesS
<1>0. CAPACITY \in Nat \ {0}
  BY CapacityAssumption
<1>1. JoinInit => JoinInv
  BY <1>0, JoinInitInv
<1>2. JoinInv /\ [JoinNext]_joinVars => JoinInv'
  BY <1>0, JoinNextInv
<1>3. JoinInv => HashesS
  <2> SUFFICES ASSUME JoinInv, pc = "probe", Sound, NEW n \in 0..query.s.rows-1
               PROVE  ht_search(ht, FieldValue(query.s, n, query.s_join))
                        = {FieldValue(query.s, n, query.s_sel)}
    BY DEF HashesS, HashedRight, Sound
  <2>1. query \in JoinQuery /\ Hashed(query.s.rows)
    BY DEF JoinInv, Building, Probing, Ended
  <2>2. FieldValue(query.s, n, query.s_join) \in Nat
    BY <2>1, JoinQueryFacts, WideValues
  <2>3. QED
    BY <2>1, <2>2, FoundOne DEF Hashed
<1>4. QED
  BY <1>1, <1>2, <1>3, PTL DEF JoinSpec

\* Over the row and the column store q3 prints the first rows of the SQL
\* statement it stands for (join_row, join_col), for all tables of columns of
\* four bytes, all columns, limits and numbers of buckets.
THEOREM JoinIsRight == JoinSpec => []ShowsTheJoin
<1>0. CAPACITY \in Nat \ {0}
  BY CapacityAssumption
<1>1. JoinInit => JoinInv
  BY <1>0, JoinInitInv
<1>2. JoinInv /\ [JoinNext]_joinVars => JoinInv'
  BY <1>0, JoinNextInv
<1>3. JoinInv => ShowsTheJoin
  BY DEF JoinInv, Building, Probing, Ended, ShowsTheJoin
<1>4. QED
  BY <1>1, <1>2, <1>3, PTL DEF JoinSpec

\* No row of R matches twice, so the two words per row of R that the result
\* buffer has are enough (join_row, join_col).
THEOREM MatchesFit == JoinSpec => []PairsFit
<1>0. CAPACITY \in Nat \ {0}
  BY CapacityAssumption
<1>1. JoinInit => JoinInv
  BY <1>0, JoinInitInv
<1>2. JoinInv /\ [JoinNext]_joinVars => JoinInv'
  BY <1>0, JoinNextInv
<1>3. JoinInv => PairsFit
  <2> SUFFICES ASSUME JoinInv, store # "RME" PROVE ptr <= 2 * query.r.rows
    BY DEF PairsFit
  <2>1. query.r.rows \in Nat
    BY JoinQueryFacts, WideColumns DEF JoinInv
  <2>2. CASE Building
    BY <2>1, <2>2 DEF Building
  <2>3. CASE Probing
    <3>1. Joined(i) \in Seq(Nat \X Nat) /\ Len(Joined(i)) <= i /\ ptr = 2 * Len(Joined(i))
          /\ i \in 0..query.r.rows
      BY <2>3 DEF Probing, Kept, Written
    <3>2. Len(Joined(i)) \in Nat
      BY <3>1
    <3>3. QED
      BY <2>1, <3>1, <3>2
  <2>4. CASE Ended
    BY <2>4 DEF Ended
  <2>5. QED
    BY <2>2, <2>3, <2>4 DEF JoinInv
<1>4. QED
  BY <1>1, <1>2, <1>3, PTL DEF JoinSpec

=============================================================================
