----------------------------- MODULE SumsProofs -----------------------------
(***************************************************************************)
(* Facts about the sums of Sums, for every function and every length.      *)
(*                                                                         *)
(* Induction is the library's least element of a nonempty set of naturals, *)
(* stated for a set in place of a predicate. From it a function defined by *)
(* recursion on 0..n exists and is unique, and so a sum of n + 1 numbers   *)
(* is that of the first n and one more. A tally may start again from 0 at  *)
(* some of its places, as a streak does; a sum is a tally that never does. *)
(***************************************************************************)
EXTENDS Sums, FiniteSets, FiniteSetTheorems, TLAPS

\* A set of naturals that has 0, and with each number the next, has them all.
LEMMA Induction ==
  ASSUME NEW T, 0 \in T, \A n \in Nat : n \in T => n + 1 \in T
  PROVE  \A n \in Nat : n \in T
<1> DEFINE U == Nat \ T
<1> SUFFICES ASSUME U # {} PROVE FALSE
  OBVIOUS
<1>1. PICK x \in U : \A y \in U : ~(<<y, x>> \in OpToRel(<, Nat))
  <2>1. U \subseteq Nat
    OBVIOUS
  <2> HIDE DEF U
  <2> QED
    BY <2>1, NatLessThanWellFounded, WFMin
<1>2. x # 0 /\ x - 1 \in Nat
  OBVIOUS
<1>3. x - 1 \in U
  BY <1>2
<1>4. <<x - 1, x>> \in OpToRel(<, Nat)
  BY <1>2 DEF OpToRel
<1> QED
  BY <1>1, <1>3, <1>4

-----------------------------------------------------------------------------
(* Tallies *)

\* g counts up d from 0 and starts again at the places of Z.
IsTally(g, n, Z, d) ==
  g = [k \in 0..n |-> IF k = 0 \/ k \in Z THEN 0 ELSE g[k - 1] + d[k]]

\* Every length has a tally.
LEMMA TallyExists ==
  ASSUME NEW Z, NEW d
  PROVE  \A n \in Nat : \E g : IsTally(g, n, Z, d)
<1> DEFINE T == {n \in Nat : \E g : IsTally(g, n, Z, d)}
<1>1. 0 \in T
  <2>1. IsTally([k \in 0..0 |-> 0], 0, Z, d)
    BY DEF IsTally
  <2> QED
    BY <2>1
<1>2. ASSUME NEW n \in Nat, n \in T
      PROVE  n + 1 \in T
  <2>1. PICK g : IsTally(g, n, Z, d)
    BY <1>2
  <2> DEFINE h == [k \in 0..(n + 1) |->
                     IF k = n + 1 THEN IF k \in Z THEN 0 ELSE g[n] + d[k]
                     ELSE g[k]]
  <2>2. ASSUME NEW k \in 0..(n + 1)
        PROVE  h[k] = IF k = 0 \/ k \in Z THEN 0 ELSE h[k - 1] + d[k]
    <3>1. CASE k = n + 1
      <4>1. n \in 0..(n + 1) /\ n # n + 1 /\ k # 0 /\ k - 1 = n
        BY <3>1
      <4>2. h[k - 1] = g[n]
        BY <4>1
      <4>3. h[k] = IF k \in Z THEN 0 ELSE g[n] + d[k]
        BY <3>1
      <4> QED
        BY <4>1, <4>2, <4>3
    <3>2. CASE k # n + 1
      <4>1. k \in 0..n
        BY <3>2
      <4>2. h[k] = g[k]
        BY <3>2
      <4>3. g[k] = IF k = 0 \/ k \in Z THEN 0 ELSE g[k - 1] + d[k]
        BY <2>1, <4>1 DEF IsTally
      <4>4. k # 0 => h[k - 1] = g[k - 1]
        BY <4>1
      <4> QED
        BY <4>2, <4>3, <4>4
    <3> QED
      BY <3>1, <3>2
  <2>3. IsTally(h, n + 1, Z, d)
    <3>1. h = [k \in 0..(n + 1) |-> h[k]]
      OBVIOUS
    <3> HIDE DEF h
    <3> QED
      BY <2>2, <3>1 DEF IsTally
  <2> HIDE DEF h
  <2> QED
    BY <2>3
<1> HIDE DEF T
<1>3. \A n \in Nat : n \in T
  BY <1>1, <1>2, Induction
<1> QED
  BY <1>3 DEF T

\* Two tallies with the same places and numbers agree as far as both go.
LEMMA TalliesAgree ==
  ASSUME NEW Z, NEW Y, NEW d, NEW e, NEW m \in Nat, NEW n \in Nat,
         NEW g, NEW h, NEW l \in Nat, l <= m, l <= n,
         IsTally(g, m, Z, d), IsTally(h, n, Y, e),
         \A k \in 1..l : d[k] = e[k] /\ (k \in Z <=> k \in Y)
  PROVE  g[l] = h[l]
<1> DEFINE T == {k \in Nat : k <= l => g[k] = h[k]}
<1>1. 0 \in T
  BY DEF IsTally
<1>2. ASSUME NEW k \in Nat, k \in T
      PROVE  k + 1 \in T
  <2> SUFFICES ASSUME k + 1 <= l PROVE g[k + 1] = h[k + 1]
    OBVIOUS
  <2>1. g[k] = h[k]
    BY <1>2
  <2>2. k + 1 \in 1..l /\ k + 1 \in 0..m /\ k + 1 \in 0..n /\ k + 1 # 0 /\ (k + 1) - 1 = k
    OBVIOUS
  <2>3. g[k + 1] = IF k + 1 \in Z THEN 0 ELSE g[k] + d[k + 1]
    BY <2>2 DEF IsTally
  <2>4. h[k + 1] = IF k + 1 \in Y THEN 0 ELSE h[k] + e[k + 1]
    BY <2>2 DEF IsTally
  <2> QED
    BY <2>1, <2>2, <2>3, <2>4
<1> HIDE DEF T
<1>3. \A k \in Nat : k \in T
  BY <1>1, <1>2, Induction
<1> QED
  BY <1>3 DEF T

-----------------------------------------------------------------------------
(* Sums *)

\* A sum is the last place of a tally that never starts again.
LEMMA SumIsTally ==
  ASSUME NEW f, NEW n \in Nat
  PROVE  \E g : IsTally(g, n, {}, f) /\ SumOf(f, n) = g[n]
<1> DEFINE E(g) == g = [k \in 0..n |-> IF k = 0 THEN 0 ELSE g[k - 1] + f[k]]
<1>1. PICK g : IsTally(g, n, {}, f)
  BY TallyExists
<1>2. \A h : E(h) <=> IsTally(h, n, {}, f)
  BY Zenon DEF IsTally
<1>3. SumOf(f, n) = (CHOOSE h : E(h))[n]
  BY Zenon DEF SumOf
<1>4. E(CHOOSE h : E(h))
  <2> HIDE DEF E
  <2> QED
    BY <1>1, <1>2, Zenon
<1> HIDE DEF E
<1> QED
  BY <1>2, <1>3, <1>4, Zenon

\* The sum of no numbers.
LEMMA SumOfNone ==
  ASSUME NEW f
  PROVE  SumOf(f, 0) = 0
<1>1. PICK g : IsTally(g, 0, {}, f) /\ SumOf(f, 0) = g[0]
  BY SumIsTally
<1> QED
  BY <1>1 DEF IsTally

\* One number more.
LEMMA SumOfNext ==
  ASSUME NEW f, NEW n \in Nat
  PROVE  SumOf(f, n + 1) = SumOf(f, n) + f[n + 1]
<1>1. PICK g : IsTally(g, n, {}, f) /\ SumOf(f, n) = g[n]
  BY SumIsTally
<1>2. PICK h : IsTally(h, n + 1, {}, f) /\ SumOf(f, n + 1) = h[n + 1]
  BY SumIsTally
<1>3. g[n] = h[n]
  <2>1. n <= n /\ n <= n + 1
    OBVIOUS
  <2> QED
    BY <1>1, <1>2, <2>1, TalliesAgree
<1>4. h[n + 1] = h[n] + f[n + 1]
  <2>1. n + 1 \in 0..(n + 1) /\ n + 1 # 0 /\ (n + 1) - 1 = n
    OBVIOUS
  <2> QED
    BY <1>2, <2>1 DEF IsTally
<1> QED
  BY <1>1, <1>2, <1>3, <1>4

\* A sum does not depend on what comes after its last number.
LEMMA SumsAgree ==
  ASSUME NEW f, NEW e, NEW n \in Nat, \A k \in 1..n : f[k] = e[k]
  PROVE  SumOf(f, n) = SumOf(e, n)
<1>1. PICK g : IsTally(g, n, {}, f) /\ SumOf(f, n) = g[n]
  BY SumIsTally
<1>2. PICK h : IsTally(h, n, {}, e) /\ SumOf(e, n) = h[n]
  BY SumIsTally
<1>3. g[n] = h[n]
  BY <1>1, <1>2, TalliesAgree
<1> QED
  BY <1>1, <1>2, <1>3

\* A sum of naturals is one.
LEMMA SumIsNatural ==
  ASSUME NEW f, NEW n \in Nat, \A k \in 1..n : f[k] \in Nat
  PROVE  SumOf(f, n) \in Nat
<1> DEFINE T == {m \in Nat : m <= n => SumOf(f, m) \in Nat}
<1>1. 0 \in T
  BY SumOfNone
<1>2. ASSUME NEW m \in Nat, m \in T
      PROVE  m + 1 \in T
  <2> SUFFICES ASSUME m + 1 <= n PROVE SumOf(f, m + 1) \in Nat
    OBVIOUS
  <2>1. SumOf(f, m) \in Nat /\ f[m + 1] \in Nat
    BY <1>2
  <2> QED
    BY <2>1, SumOfNext
<1> HIDE DEF T
<1>3. \A m \in Nat : m \in T
  BY <1>1, <1>2, Induction
<1> QED
  BY <1>3 DEF T

\* A sum of naturals is no less than that of the first of them.
LEMMA SumGrows ==
  ASSUME NEW f, NEW n \in Nat, NEW i \in Nat, i <= n, \A k \in 1..n : f[k] \in Nat
  PROVE  SumOf(f, i) <= SumOf(f, n)
<1> DEFINE T == {m \in Nat : i + m <= n => SumOf(f, i) <= SumOf(f, i + m)}
<1>0. \A m \in Nat : m <= n => SumOf(f, m) \in Nat
  BY SumIsNatural
<1>1. 0 \in T
  BY <1>0
<1>2. ASSUME NEW m \in Nat, m \in T
      PROVE  m + 1 \in T
  <2> SUFFICES ASSUME i + (m + 1) <= n PROVE SumOf(f, i) <= SumOf(f, i + (m + 1))
    OBVIOUS
  <2>1. SumOf(f, i) <= SumOf(f, i + m)
    BY <1>2
  <2>2. SumOf(f, (i + m) + 1) = SumOf(f, i + m) + f[(i + m) + 1]
    BY SumOfNext
  <2>3. (i + m) + 1 = i + (m + 1) /\ f[(i + m) + 1] \in Nat
    OBVIOUS
  <2>4. SumOf(f, i) \in Nat /\ SumOf(f, i + m) \in Nat
    BY <1>0
  <2> QED
    BY <2>1, <2>2, <2>3, <2>4
<1> HIDE DEF T
<1>3. \A m \in Nat : m \in T
  BY <1>1, <1>2, Induction
<1>4. n - i \in Nat /\ i + (n - i) = n
  OBVIOUS
<1> QED
  BY <1>3, <1>4 DEF T

\* One more in the first place is one more in every sum that has it.
LEMMA SumOfOneMore ==
  ASSUME NEW f, NEW e, NEW n \in Nat, \A k \in 1..n : f[k] \in Nat,
         n > 0 => e[1] = f[1] + 1, \A k \in 2..n : e[k] = f[k]
  PROVE  \A m \in 1..n : SumOf(e, m) = SumOf(f, m) + 1
<1> DEFINE T == {m \in Nat : m + 1 <= n => SumOf(e, m + 1) = SumOf(f, m + 1) + 1}
<1>0. \A m \in Nat : m <= n => SumOf(f, m) \in Nat
  BY SumIsNatural
<1>1. 0 \in T
  <2>1. SumOf(f, 0 + 1) = 0 + f[0 + 1] /\ SumOf(e, 0 + 1) = 0 + e[0 + 1]
    BY SumOfNone, SumOfNext
  <2>2. 0 + 1 = 1
    OBVIOUS
  <2> QED
    BY <2>1, <2>2
<1>2. ASSUME NEW m \in Nat, m \in T
      PROVE  m + 1 \in T
  <2> SUFFICES ASSUME (m + 1) + 1 <= n
               PROVE  SumOf(e, (m + 1) + 1) = SumOf(f, (m + 1) + 1) + 1
    OBVIOUS
  <2>1. SumOf(e, m + 1) = SumOf(f, m + 1) + 1
    BY <1>2
  <2>2. SumOf(e, (m + 1) + 1) = SumOf(e, m + 1) + e[(m + 1) + 1]
    BY SumOfNext
  <2>3. SumOf(f, (m + 1) + 1) = SumOf(f, m + 1) + f[(m + 1) + 1]
    BY SumOfNext
  <2>4. e[(m + 1) + 1] = f[(m + 1) + 1] /\ f[(m + 1) + 1] \in Nat
    OBVIOUS
  <2>5. SumOf(f, m + 1) \in Nat
    BY <1>0
  <2> QED
    BY <2>1, <2>2, <2>3, <2>4, <2>5
<1> HIDE DEF T
<1>3. \A m \in Nat : m \in T
  BY <1>1, <1>2, Induction
<1> SUFFICES ASSUME NEW m \in 1..n PROVE SumOf(e, m) = SumOf(f, m) + 1
  OBVIOUS
<1>4. m - 1 \in Nat /\ (m - 1) + 1 = m
  OBVIOUS
<1> QED
  BY <1>3, <1>4 DEF T

\* Numbers moved up one place, with 0 in the first, have the same sums.
LEMMA SumOfShifted ==
  ASSUME NEW f, NEW e, NEW n \in Nat, \A k \in 1..n : f[k] \in Nat,
         e[1] = 0, \A k \in 1..n : e[k + 1] = f[k]
  PROVE  \A m \in 0..n : SumOf(e, m + 1) = SumOf(f, m)
<1> DEFINE T == {m \in Nat : m <= n => SumOf(e, m + 1) = SumOf(f, m)}
<1>0. \A m \in Nat : m <= n => SumOf(f, m) \in Nat
  BY SumIsNatural
<1>1. 0 \in T
  <2>1. SumOf(e, 0 + 1) = 0 + e[0 + 1]
    BY SumOfNone, SumOfNext
  <2>2. 0 + 1 = 1
    OBVIOUS
  <2> QED
    BY <2>1, <2>2, SumOfNone
<1>2. ASSUME NEW m \in Nat, m \in T
      PROVE  m + 1 \in T
  <2> SUFFICES ASSUME m + 1 <= n PROVE SumOf(e, (m + 1) + 1) = SumOf(f, m + 1)
    OBVIOUS
  <2>1. SumOf(e, m + 1) = SumOf(f, m)
    BY <1>2
  <2>2. SumOf(e, (m + 1) + 1) = SumOf(e, m + 1) + e[(m + 1) + 1]
    BY SumOfNext
  <2>3. SumOf(f, m + 1) = SumOf(f, m) + f[m + 1]
    BY SumOfNext
  <2>4. e[(m + 1) + 1] = f[m + 1]
    OBVIOUS
  <2> QED
    BY <2>1, <2>2, <2>3, <2>4
<1> HIDE DEF T
<1>3. \A m \in Nat : m \in T
  BY <1>1, <1>2, Induction
<1> QED
  BY <1>3 DEF T

\* A sum of n naturals none of which exceeds c is at most n times c.
LEMMA SumIsBounded ==
  ASSUME NEW f, NEW n \in Nat, NEW c \in Nat,
         \A k \in 1..n : f[k] \in Nat /\ f[k] <= c
  PROVE  SumOf(f, n) <= c * n
<1> DEFINE T == {m \in Nat : m <= n => SumOf(f, m) <= c * m}
<1>0. \A m \in Nat : m <= n => SumOf(f, m) \in Nat
  BY SumIsNatural
<1>1. 0 \in T
  BY SumOfNone
<1>2. ASSUME NEW m \in Nat, m \in T
      PROVE  m + 1 \in T
  <2> SUFFICES ASSUME m + 1 <= n PROVE SumOf(f, m + 1) <= c * (m + 1)
    OBVIOUS
  <2>1. SumOf(f, m) \in Nat /\ SumOf(f, m) <= c * m
    BY <1>0, <1>2
  <2>2. SumOf(f, m + 1) = SumOf(f, m) + f[m + 1]
    BY SumOfNext
  <2>3. f[m + 1] \in Nat /\ f[m + 1] <= c
    OBVIOUS
  <2>4. c * (m + 1) = c * m + c /\ c * m \in Nat
    OBVIOUS
  <2> QED
    BY <2>1, <2>2, <2>3, <2>4
<1> HIDE DEF T
<1>3. \A m \in Nat : m \in T
  BY <1>1, <1>2, Induction
<1> QED
  BY <1>3 DEF T

\* If no number exceeds its counterpart by more than c, the sum of n of them
\* does not exceed the other by more than n times c.
LEMMA SumsCompare ==
  ASSUME NEW f, NEW e, NEW n \in Nat, NEW c \in Nat,
         \A k \in 1..n : f[k] \in Nat /\ e[k] \in Nat /\ f[k] <= e[k] + c
  PROVE  SumOf(f, n) <= SumOf(e, n) + c * n
<1> DEFINE T == {m \in Nat : m <= n => SumOf(f, m) <= SumOf(e, m) + c * m}
<1>0. \A m \in Nat : m <= n => SumOf(f, m) \in Nat /\ SumOf(e, m) \in Nat
  BY SumIsNatural
<1>1. 0 \in T
  BY SumOfNone
<1>2. ASSUME NEW m \in Nat, m \in T
      PROVE  m + 1 \in T
  <2> SUFFICES ASSUME m + 1 <= n
               PROVE  SumOf(f, m + 1) <= SumOf(e, m + 1) + c * (m + 1)
    OBVIOUS
  <2>1. SumOf(f, m) \in Nat /\ SumOf(e, m) \in Nat /\ SumOf(f, m) <= SumOf(e, m) + c * m
    BY <1>0, <1>2
  <2>2. /\ SumOf(f, m + 1) = SumOf(f, m) + f[m + 1]
        /\ SumOf(e, m + 1) = SumOf(e, m) + e[m + 1]
    BY SumOfNext
  <2>3. f[m + 1] \in Nat /\ e[m + 1] \in Nat /\ f[m + 1] <= e[m + 1] + c
    OBVIOUS
  <2>4. c * (m + 1) = c * m + c /\ c * m \in Nat
    OBVIOUS
  <2> QED
    BY <2>1, <2>2, <2>3, <2>4
<1> HIDE DEF T
<1>3. \A m \in Nat : m \in T
  BY <1>1, <1>2, Induction
<1> QED
  BY <1>3 DEF T

=============================================================================
