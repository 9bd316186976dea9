----------------------------- MODULE SumsProofs -----------------------------
(***************************************************************************)
(* What the sum of an indexed family does under the updates the contracts  *)
(* make: one index changes, or a block of fresh indices is filled.         *)
(***************************************************************************)
EXTENDS Sums, NaturalsInduction, WellFoundedInduction, TLAPS

\* Induction with a set in the place of a predicate: a set that contains 0
\* and is closed under successor contains every natural number.
LEMMA SetInduction ==
    ASSUME NEW S, 0 \in S, \A n \in Nat : n \in S => n + 1 \in S
    PROVE  \A n \in Nat : n \in S
<1> DEFINE T == Nat \ S
<1>1. SUFFICES ASSUME T # {} PROVE FALSE
  OBVIOUS
<1>2. IsWellFoundedOn(OpToRel(<, Nat), Nat)
  BY NatLessThanWellFounded
<1>3. PICK x \in T : \A y \in T : ~(<<y, x>> \in OpToRel(<, Nat))
  BY <1>1, <1>2, WFMin
<1>4. x \in Nat /\ x \notin S /\ x # 0
  OBVIOUS
<1>5. x - 1 \in Nat /\ x - 1 < x /\ (x - 1) + 1 = x
  BY <1>4
<1>6. x - 1 \notin T
  BY <1>3, <1>4, <1>5 DEF OpToRel
<1>7. QED
  BY <1>4, <1>5, <1>6

\* g tabulates the partial sums of f up to n: the equation that defines the
\* recursive function inside Total.
IsSum(g, f, n) == g = [k \in 0..n |-> IF k = 0 THEN 0 ELSE g[k - 1] + f[k]]

\* Two tables of partial sums agree wherever both are defined.
LEMMA SumUnique ==
    ASSUME NEW f, NEW m \in Nat, NEW n \in Nat, m <= n,
           NEW g, NEW h, IsSum(g, f, m), IsSum(h, f, n)
    PROVE  \A k \in 0..m : g[k] = h[k]
<1> DEFINE S == {k \in Nat : k <= m => g[k] = h[k]}
<1>1. 0 \in S
  BY DEF IsSum
<1>2. ASSUME NEW k \in Nat, k \in S PROVE k + 1 \in S
  <2>1. SUFFICES ASSUME k + 1 <= m PROVE g[k + 1] = h[k + 1]
    OBVIOUS
  <2>2. k + 1 \in 0..m /\ k + 1 \in 0..n /\ k + 1 # 0 /\ (k + 1) - 1 = k /\ k <= m
    BY <2>1
  <2>3. g[k + 1] = g[k] + f[k + 1] /\ h[k + 1] = h[k] + f[k + 1]
    BY <2>2 DEF IsSum
  <2>4. QED
    BY <1>2, <2>2, <2>3
<1>3. \A k \in Nat : k \in S
  <2> HIDE DEF S
  <2> QED BY <1>1, <1>2, SetInduction
<1>4. QED
  BY <1>3

\* A table of partial sums exists for every length.
LEMMA SumExists ==
    ASSUME NEW f, NEW n \in Nat
    PROVE  \E g : IsSum(g, f, n)
<1> DEFINE S == {k \in Nat : \E g : IsSum(g, f, k)}
<1>1. 0 \in S
  <2>1. IsSum([k \in 0..0 |-> 0], f, 0)
    BY DEF IsSum
  <2>2. QED
    BY <2>1
<1>2. ASSUME NEW k \in Nat, k \in S PROVE k + 1 \in S
  <2>1. PICK g : IsSum(g, f, k)
    BY <1>2
  <2> DEFINE h == [i \in 0..(k + 1) |-> IF i = k + 1 THEN g[k] + f[k + 1] ELSE g[i]]
  <2>2. ASSUME NEW i \in 0..(k + 1)
        PROVE  h[i] = IF i = 0 THEN 0 ELSE h[i - 1] + f[i]
    <3>1. CASE i = 0
      BY <2>1, <3>1 DEF IsSum
    <3>2. CASE i = k + 1
      <4>1. i # 0 /\ i - 1 = k /\ k \in 0..(k + 1) /\ k # k + 1
        BY <3>2
      <4>2. h[i - 1] = g[k]
        BY <4>1
      <4>3. QED
        BY <3>2, <4>1, <4>2
    <3>3. CASE i # 0 /\ i # k + 1
      <4>1. i \in 0..k /\ i - 1 \in 0..(k + 1) /\ i - 1 # k + 1
        BY <3>3
      <4>2. h[i] = g[i] /\ h[i - 1] = g[i - 1]
        BY <3>3, <4>1
      <4>3. g[i] = g[i - 1] + f[i]
        BY <2>1, <3>3, <4>1 DEF IsSum
      <4>4. QED
        BY <3>3, <4>2, <4>3
    <3>4. QED
      BY <3>1, <3>2, <3>3
  <2>3. IsSum(h, f, k + 1)
    BY <2>2 DEF IsSum
  <2>4. QED
    <3> HIDE DEF h
    <3> QED BY <2>3
<1>3. \A k \in Nat : k \in S
  <2> HIDE DEF S
  <2> QED BY <1>1, <1>2, SetInduction
<1>4. QED
  BY <1>3

\* Total is the last entry of such a table.
LEMMA TotalIsSum ==
    ASSUME NEW f, NEW n \in Nat
    PROVE  \E g : IsSum(g, f, n) /\ Total(f, n) = g[n]
<1> DEFINE g == CHOOSE x : IsSum(x, f, n)
<1>1. IsSum(g, f, n)
  <2> HIDE DEF g
  <2> QED BY SumExists DEF g
<1>2. Total(f, n) = g[n]
  BY DEF Total, IsSum
<1>3. QED
  BY <1>1, <1>2

\* The equations Total is used by.
LEMMA TotalZero ==
    ASSUME NEW f
    PROVE  Total(f, 0) = 0
<1>1. PICK g : IsSum(g, f, 0) /\ Total(f, 0) = g[0]
  BY TotalIsSum
<1>2. QED
  BY <1>1 DEF IsSum

LEMMA TotalStep ==
    ASSUME NEW f, NEW n \in Nat
    PROVE  Total(f, n + 1) = Total(f, n) + f[n + 1]
<1>1. PICK g : IsSum(g, f, n) /\ Total(f, n) = g[n]
  BY TotalIsSum
<1>2. PICK h : IsSum(h, f, n + 1) /\ Total(f, n + 1) = h[n + 1]
  <2>1. n + 1 \in Nat
    OBVIOUS
  <2>2. QED
    BY <2>1, TotalIsSum
<1>3. g[n] = h[n]
  <2>1. n + 1 \in Nat /\ n <= n + 1 /\ n \in 0..n
    OBVIOUS
  <2>2. QED
    BY <1>1, <1>2, <2>1, SumUnique
<1>4. h[n + 1] = h[n] + f[n + 1]
  <2>1. n + 1 \in 0..(n + 1) /\ n + 1 # 0 /\ (n + 1) - 1 = n
    OBVIOUS
  <2>2. QED
    BY <1>2, <2>1 DEF IsSum
<1>5. QED
  BY <1>1, <1>2, <1>3, <1>4

\* Families with equal entries up to n have equal sums.
LEMMA TotalEqual ==
    ASSUME NEW f, NEW g, NEW n \in Nat, \A i \in 1..n : g[i] = f[i]
    PROVE  Total(g, n) = Total(f, n)
<1> DEFINE S == {k \in Nat : k <= n => Total(g, k) = Total(f, k)}
<1>1. 0 \in S
  BY TotalZero
<1>2. ASSUME NEW k \in Nat, k \in S PROVE k + 1 \in S
  <2>1. SUFFICES ASSUME k + 1 <= n PROVE Total(g, k + 1) = Total(f, k + 1)
    OBVIOUS
  <2>2. k + 1 \in 1..n /\ k <= n
    BY <2>1
  <2>3. QED
    BY <1>2, <2>2, TotalStep
<1>3. \A k \in Nat : k \in S
  <2> HIDE DEF S
  <2> QED BY <1>1, <1>2, SetInduction
<1>4. QED
  BY <1>3

\* A sum of natural numbers is one.
LEMMA TotalNat ==
    ASSUME NEW f, NEW n \in Nat, \A i \in 1..n : f[i] \in Nat
    PROVE  Total(f, n) \in Nat
<1> DEFINE S == {k \in Nat : k <= n => Total(f, k) \in Nat}
<1>1. 0 \in S
  BY TotalZero
<1>2. ASSUME NEW k \in Nat, k \in S PROVE k + 1 \in S
  <2>1. SUFFICES ASSUME k + 1 <= n PROVE Total(f, k + 1) \in Nat
    OBVIOUS
  <2>2. k + 1 \in 1..n /\ k <= n
    BY <2>1
  <2>3. Total(f, k) \in Nat /\ f[k + 1] \in Nat
    BY <1>2, <2>2
  <2>4. QED
    BY <2>3, TotalStep
<1>3. \A k \in Nat : k \in S
  <2> HIDE DEF S
  <2> QED BY <1>1, <1>2, SetInduction
<1>4. QED
  BY <1>3

\* The sum of a family of zeros.
LEMMA TotalOfZeros ==
    ASSUME NEW f, NEW n \in Nat, \A i \in 1..n : f[i] = 0
    PROVE  Total(f, n) = 0
<1> DEFINE S == {k \in Nat : k <= n => Total(f, k) = 0}
<1>1. 0 \in S
  BY TotalZero
<1>2. ASSUME NEW k \in Nat, k \in S PROVE k + 1 \in S
  <2>1. SUFFICES ASSUME k + 1 <= n PROVE Total(f, k + 1) = 0
    OBVIOUS
  <2>2. k + 1 \in 1..n /\ k <= n
    BY <2>1
  <2>3. Total(f, k) = 0 /\ f[k + 1] = 0
    BY <1>2, <2>2
  <2>4. QED
    BY <2>3, TotalStep
<1>3. \A k \in Nat : k \in S
  <2> HIDE DEF S
  <2> QED BY <1>1, <1>2, SetInduction
<1>4. QED
  BY <1>3

\* g is f with the n zero entries that follow index m filled with h[1] .. h[n];
\* both are families of z natural numbers.
FillsBlock(f, g, h, m, n, z) ==
    /\ m + n <= z
    /\ \A i \in 1..z : f[i] \in Nat /\ g[i] \in Nat
    /\ \A i \in 1..z : i \notin (m + 1)..(m + n) => g[i] = f[i]
    /\ \A i \in (m + 1)..(m + n) : f[i] = 0
    /\ \A j \in 1..n : h[j] = g[m + j]

\* Filling a block of zero entries adds the block's own sum.
LEMMA TotalBlock ==
    ASSUME NEW f, NEW g, NEW h, NEW m \in Nat, NEW n \in Nat, NEW z \in Nat,
           FillsBlock(f, g, h, m, n, z)
    PROVE  Total(g, z) = Total(f, z) + Total(h, n)
<1> USE DEF FillsBlock
<1>1. ASSUME NEW k \in Nat, k <= z PROVE Total(f, k) \in Nat /\ Total(g, k) \in Nat
  <2>1. \A i \in 1..k : f[i] \in Nat /\ g[i] \in Nat
    BY <1>1
  <2>2. QED
    BY <2>1, TotalNat
<1>2. ASSUME NEW k \in Nat, k <= n PROVE Total(h, k) \in Nat
  <2>1. \A j \in 1..k : h[j] \in Nat
    <3>1. TAKE j \in 1..k
    <3>2. m + j \in 1..z /\ j \in 1..n
      BY <1>2
    <3>3. QED
      BY <3>2
  <2>2. QED
    BY <2>1, TotalNat
<1>3. Total(g, m) = Total(f, m)
  <2>1. \A i \in 1..m : g[i] = f[i]
    OBVIOUS
  <2>2. QED
    BY <2>1, TotalEqual
<1> DEFINE B == {k \in Nat : k <= n => Total(g, m + k) = Total(f, m + k) + Total(h, k)}
<1>4. 0 \in B
  <2>1. m + 0 = m /\ Total(h, 0) = 0 /\ Total(f, m) \in Nat
    BY <1>1, TotalZero
  <2>2. QED
    BY <1>3, <2>1
<1>5. ASSUME NEW k \in Nat, k \in B PROVE k + 1 \in B
  <2>1. SUFFICES ASSUME k + 1 <= n
                 PROVE  Total(g, m + (k + 1)) = Total(f, m + (k + 1)) + Total(h, k + 1)
    OBVIOUS
  <2>2. /\ k <= n /\ m + k \in Nat /\ m + (k + 1) = (m + k) + 1 /\ k + 1 \in 1..n
        /\ (m + k) + 1 \in (m + 1)..(m + n) /\ (m + k) + 1 \in 1..z /\ m + k <= z
    BY <2>1
  <2>3. /\ Total(g, (m + k) + 1) = Total(g, m + k) + g[(m + k) + 1]
        /\ Total(f, (m + k) + 1) = Total(f, m + k) + f[(m + k) + 1]
    BY <2>2, TotalStep
  <2>4. Total(h, k + 1) = Total(h, k) + h[k + 1]
    BY TotalStep
  <2>5. h[k + 1] = g[(m + k) + 1] /\ f[(m + k) + 1] = 0 /\ g[(m + k) + 1] \in Nat
    BY <2>2
  <2>6. Total(g, m + k) = Total(f, m + k) + Total(h, k)
    BY <1>5, <2>2
  <2>7. Total(f, m + k) \in Nat /\ Total(h, k) \in Nat
    BY <1>1, <1>2, <2>2
  <2>8. QED
    BY <2>2, <2>3, <2>4, <2>5, <2>6, <2>7
<1>6. Total(g, m + n) = Total(f, m + n) + Total(h, n)
  <2>1. \A k \in Nat : k \in B
    <3> HIDE DEF B
    <3> QED BY <1>4, <1>5, SetInduction
  <2>2. QED
    BY <2>1
<1> DEFINE A == {k \in Nat : (m + n) + k <= z =>
                     Total(g, (m + n) + k) = Total(f, (m + n) + k) + Total(h, n)}
<1>7. 0 \in A
  BY <1>6
<1>8. ASSUME NEW k \in Nat, k \in A PROVE k + 1 \in A
  <2>1. SUFFICES ASSUME (m + n) + (k + 1) <= z
                 PROVE  Total(g, (m + n) + (k + 1)) = Total(f, (m + n) + (k + 1)) + Total(h, n)
    OBVIOUS
  <2> DEFINE p == (m + n) + k
  <2>2. /\ p \in Nat /\ p <= z /\ (m + n) + (k + 1) = p + 1
        /\ p + 1 \in 1..z /\ p + 1 \notin (m + 1)..(m + n)
    BY <2>1
  <2>3. Total(g, p) = Total(f, p) + Total(h, n)
    BY <1>8, <2>2
  <2>4. Total(f, p) \in Nat /\ Total(h, n) \in Nat
    BY <1>1, <1>2, <2>2
  <2>5. g[p + 1] = f[p + 1] /\ f[p + 1] \in Nat
    BY <2>2
  <2> HIDE DEF p
  <2>6. Total(g, p + 1) = Total(g, p) + g[p + 1] /\ Total(f, p + 1) = Total(f, p) + f[p + 1]
    BY <2>2, TotalStep
  <2>7. QED
    BY <2>2, <2>3, <2>4, <2>5, <2>6
<1>9. Total(g, z) = Total(f, z) + Total(h, n)
  <2>1. \A k \in Nat : k \in A
    <3> HIDE DEF A
    <3> QED BY <1>7, <1>8, SetInduction
  <2>2. z - (m + n) \in Nat /\ (m + n) + (z - (m + n)) = z
    OBVIOUS
  <2>3. z - (m + n) \in A
    <3> HIDE DEF A
    <3> QED BY <2>1, <2>2
  <2>4. QED
    BY <2>2, <2>3
<1>10. QED
  BY <1>9

\* Changing one entry changes the sum by the difference.
LEMMA TotalUpdate ==
    ASSUME NEW f, NEW g, NEW n \in Nat, NEW e \in 1..n,
           \A i \in 1..n : f[i] \in Nat /\ g[i] \in Nat,
           \A i \in 1..n : i # e => g[i] = f[i]
    PROVE  Total(g, n) = (Total(f, n) - f[e]) + g[e]
<1> DEFINE S == {k \in Nat : k <= n =>
                     /\ Total(f, k) \in Nat /\ Total(g, k) \in Nat
                     /\ k < e => Total(g, k) = Total(f, k)
                     /\ k >= e => Total(g, k) = (Total(f, k) - f[e]) + g[e]}
<1>1. 0 \in S
  BY TotalZero
<1>2. ASSUME NEW k \in Nat, k \in S PROVE k + 1 \in S
  <2>1. SUFFICES ASSUME k + 1 <= n PROVE
                     /\ Total(f, k + 1) \in Nat /\ Total(g, k + 1) \in Nat
                     /\ k + 1 < e => Total(g, k + 1) = Total(f, k + 1)
                     /\ k + 1 >= e => Total(g, k + 1) = (Total(f, k + 1) - f[e]) + g[e]
    OBVIOUS
  <2>2. k <= n /\ k + 1 \in 1..n
    BY <2>1
  <2>3. /\ Total(f, k) \in Nat /\ Total(g, k) \in Nat
        /\ k < e => Total(g, k) = Total(f, k)
        /\ k >= e => Total(g, k) = (Total(f, k) - f[e]) + g[e]
    BY <1>2, <2>2
  <2>4. Total(g, k + 1) = Total(g, k) + g[k + 1] /\ Total(f, k + 1) = Total(f, k) + f[k + 1]
    BY TotalStep
  <2>5. f[k + 1] \in Nat /\ g[k + 1] \in Nat /\ (k + 1 # e => g[k + 1] = f[k + 1])
        /\ f[e] \in Nat /\ g[e] \in Nat
    BY <2>2
  <2>6. CASE k + 1 = e
    BY <2>3, <2>4, <2>5, <2>6
  <2>7. CASE k + 1 # e
    BY <2>3, <2>4, <2>5, <2>7
  <2>8. QED
    BY <2>6, <2>7
<1>3. \A k \in Nat : k \in S
  <2> HIDE DEF S
  <2> QED BY <1>1, <1>2, SetInduction
<1>4. QED
  BY <1>3

\* One summand is at most the sum.
LEMMA TotalMember ==
    ASSUME NEW f, NEW n \in Nat, NEW e \in 1..n, \A i \in 1..n : f[i] \in Nat
    PROVE  f[e] <= Total(f, n)
<1> DEFINE g == [i \in 1..n |-> IF i = e THEN 0 ELSE f[i]]
<1>1. /\ \A i \in 1..n : g[i] \in Nat
      /\ \A i \in 1..n : i # e => g[i] = f[i]
      /\ g[e] = 0
  OBVIOUS
<1> HIDE DEF g
<1>2. Total(g, n) = (Total(f, n) - f[e]) + g[e]
  BY <1>1, TotalUpdate
<1>3. Total(g, n) \in Nat /\ Total(f, n) \in Nat
  BY <1>1, TotalNat
<1>4. QED
  BY <1>1, <1>2, <1>3

=============================================================================
