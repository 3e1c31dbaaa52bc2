-------------------------- MODULE LeaderboardProofs --------------------------
(***************************************************************************)
(* What is proved of Rank and Leaderboard, for every value of the          *)
(* constants: the key of the sorted set stands for the ranking order and   *)
(* fits a float64; the throttle holds; what the clients are shown is       *)
(* current, and ranked as the final results are while no Save fails.       *)
(***************************************************************************)
EXTENDS Leaderboard, FiniteSetTheorems, SequenceTheorems, TLAPS

-----------------------------------------------------------------------------
(* The key *)

LEMMA Multiples ==
  ASSUME NEW a \in Nat, NEW b \in Nat, NEW w \in Nat, a > b
  PROVE  a * w >= b * w + w
<1>1. PICK d \in Nat : a = b + 1 + d
  <2>1. a - b - 1 \in Nat  OBVIOUS
  <2>2. a = b + 1 + (a - b - 1)  OBVIOUS
  <2> QED  BY <2>1, <2>2
<1>2. a * w = b * w + w + d * w  BY <1>1
<1>3. d * w >= 0  OBVIOUS
<1>4. b * w \in Nat /\ d * w \in Nat  OBVIOUS
<1> QED  BY <1>2, <1>3, <1>4

\* A digit system with three places: the places are compared first to last.
LEMMA Places ==
  ASSUME NEW U \in Nat, NEW M \in Nat, NEW W \in Nat, W = (M + 1) * U,
         NEW a \in Nat, NEW b \in 0..M, NEW c \in 0..(U - 1),
         NEW x \in Nat, NEW y \in 0..M, NEW z \in 0..(U - 1),
         \/ a > x
         \/ a = x /\ b > y
         \/ a = x /\ b = y /\ c > z
  PROVE  a * W + b * U + c > x * W + y * U + z
<1> DEFINE n == a * W  m == x * W  p == b * U  q == y * U
<1>1. n \in Nat /\ m \in Nat /\ p \in Nat /\ q \in Nat  OBVIOUS
<1>2. q + U <= W
  <2>1. M + 1 \in Nat /\ M + 1 > y  OBVIOUS
  <2> QED  BY <2>1, Multiples
<1>3. CASE a > x
  <2>1. n >= m + W  BY <1>3, Multiples
  <2> QED  BY <1>1, <1>2, <2>1
<1>4. CASE a = x /\ b > y
  <2>1. p >= q + U  BY <1>4, Multiples
  <2>2. n = m  BY <1>4
  <2> QED  BY <1>1, <2>1, <2>2
<1>5. CASE a = x /\ b = y /\ c > z
  <2>1. n = m /\ p = q  BY <1>5
  <2> QED  BY <1>1, <1>5, <2>1
<1> QED  BY <1>3, <1>4, <1>5

\* The standings of a session as long as the real one.
Ranked == {s \in Standing : s.correct <= MaxCorrect /\ s.totalMs <= maxTotalMs}

\* The comment of Standing.Key: the one number orders players as the three
\* criteria do, as long as the correct answers and the milliseconds stay
\* within their places.
THEOREM KeyIsOrder ==
  ASSUME NEW s \in Ranked, NEW t \in Ranked
  PROVE  Key(s) > Key(t) <=> Better(s, t)
<1> DEFINE rest(u) == maxTotalMs - u.totalMs
<1>1. /\ s.score \in Nat /\ s.correct \in 0..MaxCorrect /\ s.totalMs \in 0..maxTotalMs
      /\ t.score \in Nat /\ t.correct \in 0..MaxCorrect /\ t.totalMs \in 0..maxTotalMs
  BY DEF Ranked, Standing
<1>2. rest(s) \in 0..(CorrectUnit - 1) /\ rest(t) \in 0..(CorrectUnit - 1)
  BY <1>1, RankAssumption DEF maxTotalMs
<1>3. /\ Key(s) = s.score * ScoreUnit + s.correct * CorrectUnit + rest(s)
      /\ Key(t) = t.score * ScoreUnit + t.correct * CorrectUnit + rest(t)
  BY <1>1, RankAssumption DEF Key, maxTotalMs
<1>4. /\ CorrectUnit \in Nat /\ MaxCorrect \in Nat /\ ScoreUnit \in Nat
      /\ ScoreUnit = (MaxCorrect + 1) * CorrectUnit
  BY RankAssumption
<1>5. rest(s) > rest(t) <=> s.totalMs < t.totalMs
  BY <1>1, RankAssumption DEF maxTotalMs
<1>6. Key(s) \in Int /\ Key(t) \in Int  BY <1>1, <1>2, <1>3, <1>4
<1>7. ASSUME Better(s, t) PROVE Key(s) > Key(t)
  <2>1. \/ s.score > t.score
        \/ s.score = t.score /\ s.correct > t.correct
        \/ s.score = t.score /\ s.correct = t.correct /\ rest(s) > rest(t)
    BY <1>5, <1>7 DEF Better
  <2> HIDE DEF rest
  <2>2. s.score * ScoreUnit + s.correct * CorrectUnit + rest(s)
          > t.score * ScoreUnit + t.correct * CorrectUnit + rest(t)
    BY Zenon, <1>1, <1>2, <1>4, <2>1, Places
  <2> QED  BY <1>3, <2>2
<1>8. ASSUME ~Better(s, t), Key(s) > Key(t) PROVE FALSE
  <2>1. CASE Better(t, s)
    <3>1. \/ t.score > s.score
          \/ t.score = s.score /\ t.correct > s.correct
          \/ t.score = s.score /\ t.correct = s.correct /\ rest(t) > rest(s)
      BY <1>1, <2>1, RankAssumption DEF Better, maxTotalMs
    <3>2. Key(t) > Key(s)
      <4> HIDE DEF rest
      <4>1. t.score * ScoreUnit + t.correct * CorrectUnit + rest(t)
              > s.score * ScoreUnit + s.correct * CorrectUnit + rest(s)
        BY Zenon, <1>1, <1>2, <1>4, <3>1, Places
      <4> QED  BY <1>3, <4>1
    <3> QED  BY <1>6, <1>8, <3>2
  <2>2. CASE ~Better(t, s)
    <3>1. s.score = t.score /\ s.correct = t.correct /\ s.totalMs = t.totalMs
      BY <1>1, <1>8, <2>2 DEF Better
    <3> QED  BY <1>3, <1>6, <1>8, <3>1
  <2> QED  BY <2>1, <2>2
<1> QED  BY <1>7, <1>8

LEMMA PlacesFit ==
  ASSUME NEW a \in Nat, NEW b \in Nat, NEW c \in Int,
         a <= 90000000, b <= 99, 0 <= c, c <= 999999
  PROVE  /\ a * 100000000 + b * 1000000 + c \in Nat
         /\ a * 100000000 + b * 1000000 + c < 90071992 * 100000000
BY SMT

\* Up to 90 million points the key is below 2^53, so the sum of Standing.Key
\* is exact in a float64; a session gives at most 15 * 1250.
THEOREM KeyIsExact ==
  ASSUME ScoreUnit = 100000000, CorrectUnit = 1000000,
         NEW s \in Ranked, s.score <= 90000000
  PROVE  Key(s) \in Nat /\ Key(s) < 90071992 * 100000000
<1>1. MaxCorrect = 99  BY SMT, RankAssumption
<1>2. maxTotalMs = 999999  BY SMT DEF maxTotalMs
<1>3. s.score \in Nat /\ s.correct \in Nat /\ s.totalMs \in Nat
  BY SMT DEF Ranked, Standing
<1>4. s.correct <= 99  BY SMT, <1>1 DEF Ranked
<1>5. s.totalMs <= 999999  BY SMT, <1>2 DEF Ranked
<1>6. Key(s) = s.score * 100000000 + s.correct * 1000000 + (999999 - s.totalMs)
  <2>1. ~(s.totalMs > maxTotalMs)  BY SMT, <1>2, <1>3, <1>5
  <2> QED  BY SMT, <1>2, <2>1 DEF Key
<1>7. 0 <= 999999 - s.totalMs /\ 999999 - s.totalMs <= 999999 /\ 999999 - s.totalMs \in Int
  BY SMT, <1>3, <1>5
<1> QED  BY SMT, <1>3, <1>4, <1>6, <1>7, PlacesFit

-----------------------------------------------------------------------------
(* The throttle *)

\* lbWaiting is set while lbTimer runs or its closure is queued, and
\* neither comes before the interval since lbLast is over.
Throttled ==
  /\ Interval \in Nat
  /\ since \in 0..Interval
  /\ timer \in 0..Interval \cup {NoTimer}
  /\ timer # NoTimer => waiting /\ since + timer >= Interval
  /\ queued => waiting /\ timer = NoTimer /\ since >= Interval

LEMMA SendThrottled ==
  ASSUME NEW ord, NEW st, NEW b, SendLeaderboard(ord, st, b)
  PROVE  since' = 0
BY DEF SendLeaderboard

LEMMA MarkThrottled ==
  ASSUME Throttled, NEW ord, NEW st, NEW b, MarkLeaderboardDirty(ord, st, b)
  PROVE  Throttled' /\ (screen' # screen => since >= Interval)
<1>1. CASE ~waiting /\ since >= Interval /\ SendLeaderboard(ord, st, b)
           /\ UNCHANGED <<waiting, timer, queued>>
  <2>1. since' = 0  BY <1>1, SendThrottled
  <2> QED  BY <1>1, <2>1 DEF Throttled, NoTimer
<1>2. CASE /\ ~waiting /\ since < Interval /\ waiting' = TRUE
           /\ timer' = Interval - since /\ UNCHANGED <<queued, since, screen>>
  BY <1>2 DEF Throttled, NoTimer
<1>3. CASE UNCHANGED <<waiting, timer, queued, since, screen>>
  BY <1>3 DEF Throttled
<1> QED  BY <1>1, <1>2, <1>3 DEF MarkLeaderboardDirty

LEMMA InitThrottled == Init => Throttled
BY LeaderboardAssumption DEF Init, Throttled, NoTimer

LEMMA StepThrottled ==
  ASSUME Throttled, [Next]_vars
  PROVE  Throttled' /\ (screen' \notin {screen, <<>>} => since >= Interval)
<1> USE DEF NoTimer
<1>1. ASSUME NEW p \in Players, AddPlayer(p)
      PROVE  UNCHANGED <<throttle, screen>>
  BY <1>1 DEF AddPlayer
<1>2. ASSUME NEW p \in Players, NEW points \in Points, NEW spent \in Times,
             Resolve(p, points, spent)
      PROVE  \E ord, st, b : MarkLeaderboardDirty(ord, st, b)
  BY <1>2 DEF Resolve
<1>3. ASSUME NEW p \in Players, Kick(p)
      PROVE  \E ord, st, b : MarkLeaderboardDirty(ord, st, b)
  BY <1>3 DEF Kick
<1>4. ASSUME EndSession PROVE UNCHANGED <<throttle, screen>>
  BY <1>4 DEF EndSession
<1>5. CASE TimerFires
  BY <1>5 DEF TimerFires, Throttled
<1>6. CASE Flush
  <2>1. since' = 0 \/ UNCHANGED <<since, screen>>  BY <1>6, SendThrottled DEF Flush
  <2> QED  BY <1>6, <2>1 DEF Flush, Throttled
<1>7. CASE Reload
  BY <1>7 DEF Reload, Throttled
<1>8. CASE Tick
  BY <1>8 DEF Tick, Throttled
<1>9. ASSUME RedisForgets PROVE UNCHANGED <<throttle, screen>>
  BY <1>9 DEF RedisForgets
<1>10. ASSUME UNCHANGED <<throttle, screen>>
       PROVE  Throttled' /\ (screen' \notin {screen, <<>>} => since >= Interval)
  BY <1>10 DEF throttle, Throttled
<1>11. ASSUME UNCHANGED vars PROVE UNCHANGED <<throttle, screen>>
  BY <1>11 DEF vars
<1> QED
  BY <1>1, <1>2, <1>3, <1>4, <1>5, <1>6, <1>7, <1>8, <1>9, <1>10, <1>11, MarkThrottled
     DEF Next

\* The clients of a room are sent at most one lb.update per interval
\* (contracts/ws.md), for any number of players and any length of the interval.
THEOREM AtMostOncePerInterval == Spec => OncePerInterval
<1>1. Spec => []Throttled
  BY InitThrottled, StepThrottled, PTL DEF Spec
<1>2. Throttled /\ [Next]_vars => [screen' \notin {screen, <<>>} => since >= Interval]_vars
  BY StepThrottled
<1> QED  BY <1>1, <1>2, PTL DEF Spec, OncePerInterval

-----------------------------------------------------------------------------
(* The order of the players *)

\* removeID: the players of the room without one of them.
LEMMA RemoveFirstIsWithout ==
  ASSUME NEW S, NEW s \in Seq(S), NEW e \in ToSet(s), IsInjective(s)
  PROVE  /\ RemoveFirst(s, e) \in Seq(S)
         /\ IsInjective(RemoveFirst(s, e))
         /\ ToSet(RemoveFirst(s, e)) = ToSet(s) \ {e}
<1> DEFINE I == {i \in 1..Len(s) : s[i] = e}
<1>1. PICK k \in 1..Len(s) : s[k] = e  BY DEF ToSet
<1>2. I = {k}  BY <1>1 DEF IsInjective
<1>3. SelectInSeq(s, LAMBDA v : v = e) = k
  BY <1>1, <1>2 DEF SelectInSeq, Min
<1>4. RemoveFirst(s, e) = RemoveAt(s, k)
  BY <1>1, <1>3 DEF RemoveFirst
<1> DEFINE t == RemoveAt(s, k)
<1>5. /\ t \in Seq(S)
      /\ Len(t) = Len(s) - 1
      /\ \A i \in 1..Len(t) : t[i] = s[IF i < k THEN i ELSE i + 1]
  <2> DEFINE a == SubSeq(s, 1, k - 1)
             b == SubSeq(s, k + 1, Len(s))
  <2>1. Len(s) \in Nat /\ k \in Int /\ 1 <= k /\ k <= Len(s)  BY <1>1
  <2>2. /\ a \in Seq(S) /\ Len(a) = k - 1
        /\ \A i \in 1..(k - 1) : a[i] = s[i]
    BY <2>1
  <2>3. /\ b \in Seq(S) /\ Len(b) = Len(s) - k
        /\ \A i \in 1..(Len(s) - k) : b[i] = s[i + k]
    BY <2>1
  <2>4. t = a \o b  BY DEF RemoveAt
  <2> HIDE DEF t, a, b
  <2>5. /\ t \in Seq(S) /\ Len(t) = Len(a) + Len(b)
        /\ \A i \in 1..Len(a) + Len(b) : t[i] = IF i <= Len(a) THEN a[i] ELSE b[i - Len(a)]
    <3>1. a \in Seq(S) /\ b \in Seq(S)  BY <2>2, <2>3
    <3> QED  BY Zenon, <3>1, <2>4, ConcatProperties
  <2>6. Len(t) = Len(s) - 1  BY <2>1, <2>2, <2>3, <2>5
  <2>7. ASSUME NEW i \in 1..Len(t), i < k PROVE t[i] = s[i]
    <3>1. i \in 1..(k - 1)  BY <2>1, <2>6, <2>7
    <3>2. t[i] = a[i]  BY <2>1, <2>2, <2>3, <2>5, <3>1
    <3> QED  BY <2>2, <3>1, <3>2
  <2>8. ASSUME NEW i \in 1..Len(t), ~(i < k) PROVE t[i] = s[i + 1]
    <3>1. i - (k - 1) \in 1..(Len(s) - k)  BY <2>1, <2>6, <2>8
    <3>2. t[i] = b[i - (k - 1)]  BY <2>1, <2>2, <2>3, <2>5, <2>6, <2>8
    <3>3. i - (k - 1) + k = i + 1  BY <2>1, <2>8
    <3> QED  BY <2>3, <3>1, <3>2, <3>3
  <2> QED  BY <2>5, <2>6, <2>7, <2>8
<1> HIDE DEF t
<1> DEFINE at(i) == IF i < k THEN i ELSE i + 1
<1>9. /\ DOMAIN s = 1..Len(s) /\ Len(s) \in Nat
      /\ DOMAIN t = 1..Len(t) /\ Len(t) \in Nat
  BY <1>5
<1>10. ASSUME NEW i \in 1..Len(t)
       PROVE  at(i) \in 1..Len(s) /\ at(i) # k /\ t[i] = s[at(i)]
  BY <1>1, <1>5, <1>9
<1>11. \A i, j \in 1..Len(t) : at(i) = at(j) => i = j
  BY <1>1, <1>9
<1>12. \A i, j \in 1..Len(s) : s[i] = s[j] => i = j
  BY <1>9 DEF IsInjective
<1> HIDE DEF at
<1>6. IsInjective(t)
  <2>1. \A i, j \in 1..Len(t) : t[i] = t[j] => i = j
    BY <1>10, <1>11, <1>12
  <2> QED  BY <2>1, <1>9 DEF IsInjective
<1>7. ToSet(t) = ToSet(s) \ {e}
  <2>1. ASSUME NEW i \in 1..Len(t) PROVE t[i] \in ToSet(s) \ {e}
    <3>1. s[at(i)] # s[k]  BY <1>1, <1>10, <1>12
    <3>2. s[at(i)] \in ToSet(s)  BY <1>9, <1>10 DEF ToSet
    <3> QED  BY <1>1, <1>10, <3>1, <3>2
  <2>2. ASSUME NEW i \in 1..Len(s), s[i] # e PROVE s[i] \in ToSet(t)
    <3>1. CASE i < k
      BY <1>1, <1>5, <3>1 DEF ToSet
    <3>2. CASE i > k
      <4>1. i - 1 \in 1..Len(t) /\ t[i - 1] = s[i]  BY <1>1, <1>5, <3>2
      <4> QED  BY <4>1, <1>5 DEF ToSet
    <3> QED  BY <1>1, <2>2, <3>1, <3>2
  <2> QED  BY <1>5, <2>1, <2>2 DEF ToSet
<1> QED  BY <1>4, <1>5, <1>6, <1>7 DEF t

\* A place is one more than the number of positions ahead of it.
LEMMA PlaceInRange ==
  ASSUME NEW S, NEW ord \in Seq(S), NEW key, NEW i \in DOMAIN ord,
         \A q \in ToSet(ord) : key[q] \in Nat
  PROVE  PlaceOf(ord, key, i) \in 1..Len(ord)
<1> DEFINE Ahead == {j \in DOMAIN ord : \/ key[ord[j]] > key[ord[i]]
                                        \/ key[ord[j]] = key[ord[i]] /\ j < i}
<1>0. DOMAIN ord = 1..Len(ord) /\ Len(ord) \in Nat  OBVIOUS
<1>1. IsFiniteSet(1..Len(ord)) /\ Cardinality(1..Len(ord)) = Len(ord)
  <2>1. /\ IsFiniteSet(1..Len(ord))
        /\ Cardinality(1..Len(ord)) = IF 1 > Len(ord) THEN 0 ELSE Len(ord) - 1 + 1
    BY <1>0, FS_Interval
  <2> QED  BY <1>0, <2>1
<1>2. i \notin Ahead
  BY <1>0 DEF ToSet
<1>3. IsFiniteSet(Ahead) /\ Cardinality(Ahead) \in Nat
  BY <1>0, <1>1, FS_Subset, FS_CardinalityType
<1>4. Cardinality(Ahead \cup {i}) = Cardinality(Ahead) + 1
  BY <1>2, <1>3, FS_AddElement
<1>5. Cardinality(Ahead \cup {i}) <= Len(ord)
  <2>1. Ahead \cup {i} \in SUBSET (1..Len(ord))  BY <1>0
  <2> QED  BY <1>1, <2>1, FS_Subset
<1> QED  BY <1>0, <1>3, <1>4, <1>5 DEF PlaceOf

LEMMA PlacesRise ==
  ASSUME NEW S, NEW ord \in Seq(S), NEW key, NEW i \in DOMAIN ord, NEW j \in DOMAIN ord,
         \A q \in ToSet(ord) : key[q] \in Nat,
         \/ key[ord[i]] > key[ord[j]]
         \/ key[ord[i]] = key[ord[j]] /\ i < j
  PROVE  PlaceOf(ord, key, i) < PlaceOf(ord, key, j)
<1> DEFINE Ahead(n) == {m \in DOMAIN ord : \/ key[ord[m]] > key[ord[n]]
                                           \/ key[ord[m]] = key[ord[n]] /\ m < n}
<1>0. DOMAIN ord = 1..Len(ord) /\ Len(ord) \in Nat  OBVIOUS
<1>1. IsFiniteSet(1..Len(ord))  BY <1>0, FS_Interval
<1>2. \A m \in DOMAIN ord : key[ord[m]] \in Nat  BY DEF ToSet
<1>3. Ahead(i) \cup {i} \subseteq Ahead(j)  BY <1>0, <1>2
<1>4. i \notin Ahead(i)  BY <1>0, <1>2
<1>5. /\ IsFiniteSet(Ahead(i)) /\ Cardinality(Ahead(i)) \in Nat
      /\ IsFiniteSet(Ahead(j)) /\ Cardinality(Ahead(j)) \in Nat
  <2>1. Ahead(i) \in SUBSET (1..Len(ord)) /\ Ahead(j) \in SUBSET (1..Len(ord))  BY <1>0
  <2> QED  BY <1>1, <2>1, FS_Subset, FS_CardinalityType
<1>6. Cardinality(Ahead(i) \cup {i}) = Cardinality(Ahead(i)) + 1
  BY <1>4, <1>5, FS_AddElement
<1>7. Cardinality(Ahead(i) \cup {i}) <= Cardinality(Ahead(j))
  <2>1. Ahead(i) \cup {i} \in SUBSET Ahead(j)  BY <1>3
  <2> HIDE DEF Ahead
  <2> QED  BY <1>5, <2>1, FS_Subset
<1>8. PlaceOf(ord, key, i) = 1 + Cardinality(Ahead(i)) /\ PlaceOf(ord, key, j) = 1 + Cardinality(Ahead(j))
  BY DEF PlaceOf
<1> HIDE DEF Ahead
<1> QED  BY <1>5, <1>6, <1>7, <1>8

\* Every place is taken by one position.
LEMMA PlacesAreTaken ==
  ASSUME NEW S, NEW ord \in Seq(S), NEW key, NEW n \in DOMAIN ord,
         \A q \in ToSet(ord) : key[q] \in Nat
  PROVE  \E i \in DOMAIN ord : PlaceOf(ord, key, i) = n
<1> DEFINE D == DOMAIN ord
           f == [i \in D |-> PlaceOf(ord, key, i)]
<1>0. D = 1..Len(ord) /\ Len(ord) \in Nat  OBVIOUS
<1>1. IsFiniteSet(D)  BY <1>0, FS_Interval
<1>2. f \in [D -> D]  BY <1>0, PlaceInRange
<1>3. ASSUME NEW i \in D, NEW j \in D, f[i] = f[j] PROVE i = j
  <2>1. f[i] = PlaceOf(ord, key, i) /\ f[j] = PlaceOf(ord, key, j)  OBVIOUS
  <2>2. f[i] \in Int  BY <1>2, <1>0
  <2>3. key[ord[i]] \in Nat /\ key[ord[j]] \in Nat  BY DEF ToSet
  <2>4. ASSUME key[ord[i]] > key[ord[j]] \/ (key[ord[i]] = key[ord[j]] /\ i < j) PROVE FALSE
    <3>1. PlaceOf(ord, key, i) < PlaceOf(ord, key, j)  BY <2>4, PlacesRise
    <3> HIDE DEF f
    <3> QED  BY <3>1, <2>1, <2>2, <1>3
  <2>5. ASSUME key[ord[j]] > key[ord[i]] \/ (key[ord[j]] = key[ord[i]] /\ j < i) PROVE FALSE
    <3>1. PlaceOf(ord, key, j) < PlaceOf(ord, key, i)  BY <2>5, PlacesRise
    <3> HIDE DEF f
    <3> QED  BY <3>1, <2>1, <2>2, <1>3
  <2> HIDE DEF f
  <2> QED  BY <1>0, <2>3, <2>4, <2>5
<1> HIDE DEF f
<1>4. f \in Injection(D, D)  BY <1>2, <1>3 DEF Injection, IsInjective
<1>5. f \in Surjection(D, D)  BY <1>1, <1>4, FS_Injection
<1>6. PICK i \in D : f[i] = n  BY <1>5 DEF Surjection
<1> QED  BY <1>6 DEF f

\* Order lists the players of ord, best key first.
LEMMA OrderSorts ==
  ASSUME NEW S, NEW ord \in Seq(S), NEW key,
         \A q \in ToSet(ord) : key[q] \in Nat
  PROVE  /\ DOMAIN Order(ord, key) = DOMAIN ord
         /\ \A n \in DOMAIN ord : Order(ord, key)[n] \in ToSet(ord)
         /\ \A m, n \in DOMAIN ord :
              m < n => key[Order(ord, key)[m]] >= key[Order(ord, key)[n]]
<1> DEFINE at(n) == CHOOSE i \in DOMAIN ord : PlaceOf(ord, key, i) = n
<1>0. DOMAIN ord = 1..Len(ord) /\ Len(ord) \in Nat  OBVIOUS
<1>1. \A n \in DOMAIN ord : at(n) \in DOMAIN ord /\ PlaceOf(ord, key, at(n)) = n
  BY PlacesAreTaken
<1>2. \A n \in DOMAIN ord : Order(ord, key)[n] = ord[at(n)]  BY DEF Order
<1>3. DOMAIN Order(ord, key) = DOMAIN ord  BY DEF Order
<1> HIDE DEF at
<1>4. ASSUME NEW m \in DOMAIN ord, NEW n \in DOMAIN ord, m < n,
             key[ord[at(n)]] > key[ord[at(m)]]
      PROVE  FALSE
  <2>1. PlaceOf(ord, key, at(n)) < PlaceOf(ord, key, at(m))  BY <1>1, <1>4, PlacesRise
  <2> QED  BY <1>0, <1>1, <1>4, <2>1
<1>5. \A n \in DOMAIN ord : key[ord[at(n)]] \in Nat  BY <1>1 DEF ToSet
<1>6. \A m, n \in DOMAIN ord : m < n => key[ord[at(m)]] >= key[ord[at(n)]]
  BY <1>4, <1>5
<1>7. \A n \in DOMAIN ord : ord[at(n)] \in ToSet(ord)  BY <1>1 DEF ToSet
<1> QED  BY <1>2, <1>3, <1>6, <1>7

-----------------------------------------------------------------------------
(* The rankings *)

\* What one lb.update says, against the players and standings it was made of.
Shows(ord, st, sc) ==
  /\ sc \in Seq([id : Players, standing : Standings])
  /\ \A i \in 1..Len(sc) :
       /\ sc[i].id \in ToSet(ord)
       /\ sc[i].standing = st[sc[i].id]

KeysOf(b, ps) == DOMAIN b \subseteq ps /\ \A p \in DOMAIN b : b[p] \in Nat

\* The set holds the key of the standing of each of its members.
Holds(b, st) == \A p \in DOMAIN b : b[p] = Key(st[p])

\* A right answer scores at least Least points.
Earned(st, Least) == \A p \in Players : st[p].correct * Least <= st[p].score

LEMMA KeyIsNat ==
  ASSUME NEW s \in Standings
  PROVE  Key(s) \in Nat
<1>1. /\ CorrectUnit \in Nat \ {0} /\ MaxCorrect \in Nat /\ ScoreUnit \in Nat
      /\ MaxMs \in Nat /\ MaxMs <= CorrectUnit - 1 /\ MaxScore \in Nat
  <2>1. (MaxCorrect + 1) * CorrectUnit \in Nat  BY RankAssumption
  <2> QED  BY <2>1, RankAssumption, LeaderboardAssumption DEF maxTotalMs
<1>2. /\ s.score \in Nat /\ s.correct \in Nat
      /\ s.totalMs \in Nat /\ s.totalMs <= CorrectUnit - 1
  BY <1>1 DEF Standings
<1>3. s.score * ScoreUnit \in Nat /\ s.correct * CorrectUnit \in Nat  BY <1>1, <1>2
<1> QED  BY <1>1, <1>2, <1>3 DEF Key, maxTotalMs

\* Both sources of the order list positions of the same length with members
\* of ord, and sort them by a key: that of the set, or that of the standings.
LEMMA RedisSorts ==
  ASSUME NEW ord \in Seq(Players), NEW b, Covers(b, ord), NEW ids \in RedisOrders(b)
  PROVE  /\ ids \in Seq(Players)
         /\ \A i \in 1..Len(ids) : ids[i] \in ToSet(ord)
         /\ \A i, j \in 1..Len(ids) : i < j => b[ids[i]] >= b[ids[j]]
<1> DEFINE D == 1..Len(ord)
<1>1. IsFiniteSet(D)  BY FS_Interval
<1>2. [i \in D |-> ord[i]] \in Surjection(D, ToSet(ord))
  BY DEF Surjection, ToSet
<1>3. IsFiniteSet(DOMAIN b)  BY <1>1, <1>2, FS_Surjection DEF Covers
<1>4. Cardinality(DOMAIN b) \in Nat  BY <1>3, FS_CardinalityType
<1>5. ids \in [1..Cardinality(DOMAIN b) -> ToSet(ord)]  BY DEF RedisOrders, Covers
<1>6. ToSet(ord) \subseteq Players  BY DEF ToSet
<1>7. ids \in Seq(Players) /\ 1..Len(ids) = DOMAIN ids  BY <1>4, <1>5, <1>6
<1>8. \A i, j \in DOMAIN ids : i < j => b[ids[i]] >= b[ids[j]]  BY DEF RedisOrders
<1> QED  BY <1>5, <1>7, <1>8

LEMMA MemorySorts ==
  ASSUME NEW ord \in Seq(Players), NEW st \in [Players -> Standings]
  PROVE  LET ids == MemoryOrder(ord, st)
         IN  /\ ids \in Seq(Players)
             /\ \A i \in 1..Len(ids) : ids[i] \in ToSet(ord)
             /\ \A i, j \in 1..Len(ids) :
                  i < j => Key(st[ids[i]]) >= Key(st[ids[j]])
<1> DEFINE key == [p \in ToSet(ord) |-> Key(st[p])]
           ids == Order(ord, key)
<1>1. ToSet(ord) \subseteq Players /\ DOMAIN ord = 1..Len(ord) /\ Len(ord) \in Nat
  BY DEF ToSet
<1>2. \A q \in ToSet(ord) : key[q] = Key(st[q]) /\ key[q] \in Nat
  BY <1>1, KeyIsNat
<1> HIDE DEF key
<1>3. /\ DOMAIN ids = DOMAIN ord
      /\ \A n \in DOMAIN ord : ids[n] \in ToSet(ord)
      /\ \A m, n \in DOMAIN ord : m < n => key[ids[m]] >= key[ids[n]]
  BY <1>2, OrderSorts
<1>4. ids = [n \in DOMAIN ord |-> ids[n]]  BY DEF Order
<1> HIDE DEF ids
<1>5. ids \in Seq(Players) /\ 1..Len(ids) = DOMAIN ord  BY <1>1, <1>3, <1>4
<1>6. \A m, n \in DOMAIN ord : m < n => Key(st[ids[m]]) >= Key(st[ids[n]])
  BY <1>2, <1>3
<1>7. MemoryOrder(ord, st) = ids  BY DEF MemoryOrder, key, ids
<1> QED  BY <1>3, <1>5, <1>6, <1>7

\* What follows of one rankedIDs, broadcast: names and standings are those of
\* the room, whatever the set holds.
LEMMA SendShows ==
  ASSUME NEW ord \in Seq(Players), NEW st \in [Players -> Standings], NEW b,
         KeysOf(b, Players), SendLeaderboard(ord, st, b)
  PROVE  /\ Shows(ord, st, screen')
         /\ DOMAIN board' \subseteq DOMAIN b \cup ToSet(ord)
         /\ \A p \in DOMAIN board' : board'[p] \in Nat
         /\ dirty' = FALSE
         /\ since' = 0
<1>1. ASSUME NEW ids \in Seq(Players), \A i \in 1..Len(ids) : ids[i] \in ToSet(ord),
             Show(ids, st)
      PROVE  Shows(ord, st, screen')
  <2>1. DOMAIN ids = 1..Len(ids) /\ Len(ids) \in Nat  OBVIOUS
  <2>2. screen' = [i \in 1..Len(ids) |-> [id |-> ids[i], standing |-> st[ids[i]]]]
    BY <1>1, <2>1 DEF Show
  <2>3. \A i \in 1..Len(ids) : [id |-> ids[i], standing |-> st[ids[i]]]
                                 \in [id : Players, standing : Standings]
    BY <2>1
  <2>4. screen' \in Seq([id : Players, standing : Standings]) /\ Len(screen') = Len(ids)
    BY <2>1, <2>2, <2>3
  <2> QED  BY <1>1, <2>2, <2>4 DEF Shows
<1>2. dirty' = FALSE /\ since' = 0  BY DEF SendLeaderboard
<1>3. CASE Covers(b, ord) /\ (\E ids \in RedisOrders(b) : Show(ids, st)) /\ board' = b
  BY <1>1, <1>2, <1>3, RedisSorts DEF KeysOf
<1>4. ASSUME Show(MemoryOrder(ord, st), st),
             NEW o \in SaveOutcomes, board' = Saved(b, ToSet(ord), st, o)
      PROVE  /\ Shows(ord, st, screen')
             /\ DOMAIN board' \subseteq DOMAIN b \cup ToSet(ord)
             /\ \A p \in DOMAIN board' : board'[p] \in Nat
  <2>1. Shows(ord, st, screen')  BY <1>1, <1>4, MemorySorts
  <2>2. ToSet(ord) \subseteq Players  BY DEF ToSet
  <2>3. \A p \in ToSet(ord) : Key(st[p]) \in Nat  BY <2>2, KeyIsNat
  <2> QED  BY <1>4, <2>1, <2>3 DEF Saved, KeysOf
<1> QED  BY <1>2, <1>3, <1>4 DEF SendLeaderboard

\* lbDirty waits for a flush, and a flush for lbTimer.
OnItsWay ==
  /\ dirty => waiting
  /\ waiting => timer # NoTimer \/ queued

ThrottleOK ==
  /\ dirty \in BOOLEAN
  /\ waiting \in BOOLEAN
  /\ timer \in 0..Interval \cup {NoTimer}
  /\ queued \in BOOLEAN
  /\ since \in 0..Interval
  /\ OnItsWay

Inv == TypeOK /\ Earned(standing, 1) /\ OnItsWay /\ ScreenIsCurrent

LEMMA MarkShows ==
  ASSUME ThrottleOK, screen \in Seq([id : Players, standing : Standings]),
         NEW ord \in Seq(Players \ unused), NEW st \in [Players -> Standings], NEW b,
         KeysOf(b, Players \ unused), MarkLeaderboardDirty(ord, st, b)
  PROVE  /\ ThrottleOK'
         /\ screen' \in Seq([id : Players, standing : Standings])
         /\ KeysOf(board', Players \ unused)
         /\ (dirty' /\ waiting') \/ Shows(ord, st, screen')
<1> USE LeaderboardAssumption DEF NoTimer
<1>1. CASE /\ ~waiting /\ SendLeaderboard(ord, st, b)
           /\ UNCHANGED <<waiting, timer, queued>>
  <2>1. ord \in Seq(Players) /\ ToSet(ord) \subseteq Players \ unused  BY DEF ToSet
  <2>2. KeysOf(b, Players)  BY DEF KeysOf
  <2>3. /\ Shows(ord, st, screen')
        /\ DOMAIN board' \subseteq DOMAIN b \cup ToSet(ord)
        /\ \A p \in DOMAIN board' : board'[p] \in Nat
        /\ dirty' = FALSE
        /\ since' = 0
    BY <1>1, <2>1, <2>2, SendShows
  <2>4. KeysOf(board', Players \ unused)  BY <2>1, <2>3 DEF KeysOf
  <2>5. ThrottleOK'
    <3>1. 0 \in 0..Interval  OBVIOUS
    <3> QED  BY <1>1, <2>3, <3>1 DEF ThrottleOK, OnItsWay
  <2> QED  BY <2>3, <2>4, <2>5 DEF Shows
<1>2. CASE /\ since < Interval /\ dirty' = TRUE /\ waiting' = TRUE
           /\ timer' = Interval - since /\ board' = b /\ UNCHANGED <<queued, since, screen>>
  BY <1>2 DEF ThrottleOK, OnItsWay
<1>3. CASE /\ waiting /\ dirty' = TRUE /\ board' = b
           /\ UNCHANGED <<waiting, timer, queued, since, screen>>
  BY <1>3 DEF ThrottleOK, OnItsWay
<1> QED  BY <1>1, <1>2, <1>3 DEF MarkLeaderboardDirty

LEMMA SavedKeys ==
  ASSUME NEW b, NEW S \in SUBSET Players, KeysOf(b, S), NEW ps \in SUBSET S,
         NEW st \in [Players -> Standings], NEW o
  PROVE  KeysOf(Saved(b, ps, st, o), S)
<1>1. \A p \in ps : Key(st[p]) \in Nat  BY KeyIsNat
<1> QED  BY <1>1 DEF Saved, KeysOf

LEMMA ResolveEarns ==
  ASSUME TypeOK, NEW p \in Players, NEW points \in Points, NEW spent \in Times,
         NEW Least \in Nat \ {0}, points # 0 => points >= Least,
         Earned(standing, 1), Earned(standing, Least), Resolve(p, points, spent)
  PROVE  standing' \in [Players -> Standings] /\ Earned(standing', 1) /\ Earned(standing', Least)
<1> DEFINE s == standing[p]
           t == [score   |-> s.score + points,
                 correct |-> IF points > 0 THEN s.correct + 1 ELSE s.correct,
                 totalMs |-> s.totalMs + spent]
<1>1. /\ points \in Nat /\ spent \in Nat /\ MaxScore \in Nat /\ MaxMs \in Nat
      /\ s.score \in Nat /\ s.correct \in Nat /\ s.totalMs \in Nat
      /\ s.correct <= s.score
      /\ s.correct * Least <= s.score
  BY LeaderboardAssumption DEF TypeOK, Standings, Earned
<1>2. standing' = [standing EXCEPT ![p] = t]  BY DEF Resolve
<1>3. s.score + points <= MaxScore /\ s.totalMs + spent <= MaxMs  BY DEF Resolve
<1> HIDE DEF s
<1>4. t.correct <= t.score  BY <1>1
<1>5. t.correct * Least <= t.score
  <2>1. CASE points > 0
    <3>1. (s.correct + 1) * Least = s.correct * Least + Least  BY <1>1
    <3>2. s.correct * Least \in Nat  BY <1>1
    <3> QED  BY <1>1, <2>1, <3>1, <3>2
  <2>2. CASE points = 0
    BY <1>1, <2>2
  <2> QED  BY <1>1, <2>1, <2>2
<1>6. t \in Standings  BY <1>1, <1>3, <1>4 DEF Standings
<1>7. standing \in [Players -> Standings]  BY DEF TypeOK
<1>8. t.correct * 1 <= t.score  BY <1>1, <1>4
<1> HIDE DEF t
<1> QED  BY <1>2, <1>5, <1>6, <1>7, <1>8 DEF Earned

LEMMA InitInv == Init => Inv
<1> SUFFICES ASSUME Init PROVE Inv
  OBVIOUS
<1> USE LeaderboardAssumption DEF Init
<1>1. 0 \in 0..MaxScore /\ 0 \in 0..MaxMs  BY DEF maxTotalMs
<1>2. standing \in [Players -> Standings]  BY <1>1 DEF Standings, NoAnswers
<1>3. IsInjective(order) /\ order \in Seq(Players \ unused)  BY DEF IsInjective
<1>4. /\ DOMAIN board \subseteq Players \ unused
      /\ \A p \in DOMAIN board : board[p] \in Nat
  BY DEF NoBoard
<1>5. screen \in Seq([id : Players, standing : Standings])  OBVIOUS
<1>6. /\ since \in 0..Interval /\ timer \in 0..Interval \cup {NoTimer}
      /\ serving \in BOOLEAN /\ dirty \in BOOLEAN /\ waiting \in BOOLEAN /\ queued \in BOOLEAN
      /\ unused \subseteq Players
  <2>1. Interval \in 0..Interval  OBVIOUS
  <2> QED  BY <2>1 DEF NoTimer
<1>7. TypeOK  BY ONLY <1>2, <1>3, <1>4, <1>5, <1>6 DEF TypeOK
<1>8. Earned(standing, 1)  BY DEF Earned, NoAnswers
<1> QED  BY <1>7, <1>8 DEF Inv, OnItsWay, ScreenIsCurrent

LEMMA StepInv ==
  ASSUME Inv, [Next]_vars
  PROVE  Inv'
<1> USE LeaderboardAssumption DEF Inv
<1> DEFINE Lists == Seq([id : Players, standing : Standings])
<1>0. /\ ThrottleOK /\ screen \in Lists
      /\ order \in Seq(Players \ unused) /\ ToSet(order) \subseteq Players \ unused
      /\ KeysOf(board, Players \ unused) /\ standing \in [Players -> Standings]
  BY DEF TypeOK, ThrottleOK, KeysOf, ToSet
<1>1. ASSUME NEW p \in Players, AddPlayer(p) PROVE Inv'
  <2>1. p \in unused /\ unused' = unused \ {p} /\ order' = Append(order, p)
    BY <1>1 DEF AddPlayer
  <2>2. order' \in Seq(Players \ unused')
    <3>1. order \in Seq(Players \ unused') /\ p \in Players \ unused'  BY <1>0, <2>1
    <3> QED  BY <2>1, <3>1
  <2>3. /\ Len(order') = Len(order) + 1 /\ Len(order) \in Nat
        /\ DOMAIN order = 1..Len(order) /\ DOMAIN order' = 1..(Len(order) + 1)
        /\ \A i \in 1..Len(order) : order'[i] = order[i] /\ order[i] # p
        /\ order'[Len(order) + 1] = p
    BY <1>0, <2>1 DEF ToSet
  <2>4. IsInjective(order')
    BY <2>3 DEF TypeOK, IsInjective
  <2>5. ToSet(order) \subseteq ToSet(order')  BY <2>3 DEF ToSet
  <2>6. UNCHANGED <<serving, standing, board, throttle, screen>>  BY <1>1 DEF AddPlayer
  <2>7. TypeOK'  BY <2>1, <2>2, <2>4, <2>6 DEF TypeOK, throttle
  <2>8. ScreenIsCurrent'  BY <2>5, <2>6 DEF ScreenIsCurrent, throttle
  <2> QED  BY <2>6, <2>7, <2>8 DEF Earned, OnItsWay, throttle
<1>2. ASSUME NEW p \in Players, NEW points \in Points, NEW spent \in Times,
             Resolve(p, points, spent)
      PROVE  Inv'
  <2>1. UNCHANGED <<unused, order>> /\ p \in ToSet(order) /\ serving' \in BOOLEAN
    BY <1>2 DEF Resolve
  <2>2. PICK o \in SaveOutcomes :
          MarkLeaderboardDirty(order, standing', Saved(board, {p}, standing', o))
    BY <1>2 DEF Resolve
  <2>3. standing' \in [Players -> Standings] /\ Earned(standing', 1)
    <3>1. 1 \in Nat \ {0} /\ (points # 0 => points >= 1)  OBVIOUS
    <3> QED  BY <1>2, <3>1, ResolveEarns
  <2>4. KeysOf(Saved(board, {p}, standing', o), Players \ unused)
    BY <1>0, <2>1, <2>3, SavedKeys
  <2>5. /\ ThrottleOK' /\ screen' \in Lists
        /\ KeysOf(board', Players \ unused)
        /\ (dirty' /\ waiting') \/ Shows(order, standing', screen')
    BY <1>0, <2>2, <2>3, <2>4, MarkShows
  <2>6. TypeOK'  BY <2>1, <2>3, <2>5 DEF TypeOK, ThrottleOK, KeysOf
  <2> QED  BY <2>1, <2>3, <2>5, <2>6 DEF ScreenIsCurrent, Shows, ThrottleOK, OnItsWay
<1>3. ASSUME NEW p \in Players, Kick(p) PROVE Inv'
  <2>1. /\ UNCHANGED <<unused, standing>> /\ p \in ToSet(order) /\ serving' \in BOOLEAN
        /\ order' = RemoveFirst(order, p)
    BY <1>3 DEF Kick
  <2>2. order' \in Seq(Players \ unused) /\ IsInjective(order')
    BY <1>0, <2>1, RemoveFirstIsWithout DEF TypeOK
  <2>3. PICK o \in ForgetOutcomes :
          MarkLeaderboardDirty(order', standing, Forgotten(board, p, o))
    BY <1>3 DEF Kick
  <2>4. KeysOf(Forgotten(board, p, o), Players \ unused)
    BY <1>0 DEF Forgotten, KeysOf
  <2>5. /\ ThrottleOK' /\ screen' \in Lists
        /\ KeysOf(board', Players \ unused)
        /\ (dirty' /\ waiting') \/ Shows(order', standing, screen')
    BY <1>0, <2>2, <2>3, <2>4, MarkShows
  <2>6. TypeOK'  BY <1>0, <2>1, <2>2, <2>5 DEF TypeOK, ThrottleOK, KeysOf
  <2> QED  BY <2>1, <2>5, <2>6 DEF ScreenIsCurrent, Shows, Earned, ThrottleOK, OnItsWay
<1>4. CASE EndSession
  BY <1>4 DEF EndSession, players, throttle, TypeOK, Earned, OnItsWay, ScreenIsCurrent
<1>5. CASE TimerFires
  BY <1>5 DEF TimerFires, players, TypeOK, Earned, OnItsWay, ScreenIsCurrent, NoTimer
<1>6. CASE Flush
  <2>1. UNCHANGED <<serving, players, timer>> /\ queued' = FALSE /\ waiting' = FALSE
    BY <1>6 DEF Flush
  <2>2. CASE dirty /\ SendLeaderboard(order, standing, board)
    <3>1. order \in Seq(Players) /\ KeysOf(board, Players)  BY <1>0 DEF KeysOf
    <3>2. /\ Shows(order, standing, screen')
          /\ DOMAIN board' \subseteq DOMAIN board \cup ToSet(order)
          /\ \A p \in DOMAIN board' : board'[p] \in Nat
          /\ dirty' = FALSE
          /\ since' = 0
      BY <1>0, <2>2, <3>1, SendShows
    <3>3. KeysOf(board', Players \ unused)  BY <1>0, <3>2 DEF KeysOf
    <3>4. since' \in 0..Interval /\ dirty' \in BOOLEAN
      <4>1. 0 \in 0..Interval  OBVIOUS
      <4> QED  BY <3>2, <4>1
    <3>5. screen' \in Lists  BY <3>2 DEF Shows
    <3> HIDE DEF Lists
    <3>6. TypeOK'  BY <2>1, <3>3, <3>4, <3>5 DEF TypeOK, players, KeysOf, Lists
    <3> QED  BY <2>1, <3>2, <3>6 DEF ScreenIsCurrent, Shows, Earned, OnItsWay, players
  <2>3. CASE ~dirty /\ UNCHANGED <<board, dirty, since, screen>>
    BY <2>1, <2>3 DEF TypeOK, players, Earned, OnItsWay, ScreenIsCurrent
  <2> QED  BY <1>6, <2>2, <2>3 DEF Flush
<1>7. CASE Reload
  <2>1. UNCHANGED <<serving, players>> /\ screen' = <<>> /\ dirty' = FALSE
        /\ waiting' = FALSE /\ timer' = NoTimer /\ queued' = FALSE /\ since' = Interval
    BY <1>7 DEF Reload
  <2>2. PICK o \in SaveOutcomes : board' = Saved(board, ToSet(order), standing, o)
    BY <1>7 DEF Reload
  <2>3. KeysOf(board', Players \ unused)  BY <1>0, <2>2, SavedKeys
  <2>4. since' \in 0..Interval /\ screen' \in Lists  BY <2>1
  <2>5. TypeOK'  BY <2>1, <2>3, <2>4 DEF TypeOK, players, KeysOf
  <2> QED  BY <2>1, <2>5 DEF ScreenIsCurrent, Earned, OnItsWay, players
<1>8. CASE Tick
  BY <1>8 DEF Tick, players, TypeOK, Earned, OnItsWay, ScreenIsCurrent, NoTimer
<1>9. CASE RedisForgets
  BY <1>9 DEF RedisForgets, players, throttle, NoBoard, TypeOK, Earned, OnItsWay, ScreenIsCurrent
<1>10. CASE UNCHANGED vars
  BY <1>10 DEF vars, players, throttle, TypeOK, Earned, OnItsWay, ScreenIsCurrent
<1> QED
  BY <1>1, <1>2, <1>3, <1>4, <1>5, <1>6, <1>7, <1>8, <1>9, <1>10 DEF Next

\* Every variable of the rankings keeps its type, and the set in Redis holds
\* keys of ids that are or were players of the room.
THEOREM TypeCorrect == Spec => []TypeOK
<1>1. Inv => TypeOK  BY DEF Inv
<1> QED  BY <1>1, InitInv, StepInv, PTL DEF Spec

\* Whatever Redis loses or refuses: while the room serves, either a flush is on
\* its way or the clients have the players and standings of the room's memory.
THEOREM ScreenCurrent == Spec => []ScreenIsCurrent
<1>1. Inv => ScreenIsCurrent  BY DEF Inv
<1> QED  BY <1>1, InitInv, StepInv, PTL DEF Spec

\* No change is forgotten: markLeaderboardDirty never leaves lbDirty set without
\* a flush to come, and a flush to come always has its timer or its closure in
\* the queue, whatever steps the throttle and its timer take in between.
THEOREM ChangesHaveAFlush == Spec => []OnItsWay
<1>1. Inv => OnItsWay  BY DEF Inv
<1> QED  BY <1>1, InitInv, StepInv, PTL DEF Spec

-----------------------------------------------------------------------------
(* Their order *)

\* No Save fails, and a right answer scores so much that no score needs more
\* right answers than the key has room for. The real numbers are in: an answer
\* gives 300 points or more and a session at most 15 * 1250, and
\* 18750 < (99 + 1) * 300.
KeysKeepUp(Least) ==
  /\ "fail" \notin SaveOutcomes
  /\ Least \in Nat \ {0}
  /\ \A points \in Points : points # 0 => points >= Least
  /\ MaxScore < (MaxCorrect + 1) * Least

RankInv(Least) ==
  /\ Earned(standing, Least)
  /\ Holds(board, standing)
  /\ ScreenIsRanked

LEMMA EarnedIsRanked ==
  ASSUME NEW Least, KeysKeepUp(Least), NEW st \in [Players -> Standings],
         Earned(st, Least), NEW p \in Players
  PROVE  st[p] \in Ranked
<1> DEFINE s == st[p]
<1>1. /\ MaxScore \in Nat /\ MaxMs \in Nat /\ MaxMs <= maxTotalMs /\ MaxCorrect \in Nat
      /\ Least \in Nat /\ MaxScore < (MaxCorrect + 1) * Least
  BY RankAssumption, LeaderboardAssumption DEF KeysKeepUp, maxTotalMs
<1>2. s \in Standings /\ s.correct * Least <= s.score  BY DEF Earned
<1>3. /\ s.score \in Nat /\ s.score <= MaxScore /\ s.correct \in Nat
      /\ s.totalMs \in Nat /\ s.totalMs <= MaxMs
  BY <1>1, <1>2 DEF Standings
<1>4. s \in Standing
  BY <1>2, <1>3 DEF Standings, Standing
<1> HIDE DEF s
<1>5. s.correct <= MaxCorrect
  <2>1. SUFFICES ASSUME s.correct > MaxCorrect PROVE FALSE
    BY <1>1, <1>3
  <2>2. s.correct * Least >= MaxCorrect * Least + Least  BY <1>1, <1>3, <2>1, Multiples
  <2>3. (MaxCorrect + 1) * Least = MaxCorrect * Least + Least  BY <1>1
  <2>4. s.correct * Least \in Nat /\ MaxCorrect * Least \in Nat  BY <1>1, <1>3
  <2> QED  BY <1>1, <1>2, <1>3, <2>2, <2>3, <2>4
<1>6. s.totalMs <= maxTotalMs
  <2>1. maxTotalMs \in Int  BY RankAssumption DEF maxTotalMs
  <2> QED  BY <1>1, <1>3, <2>1
<1>7. s \in Ranked  BY <1>4, <1>5, <1>6 DEF Ranked
<1> QED  BY <1>7 DEF s

LEMMA SendRanks ==
  ASSUME NEW Least, KeysKeepUp(Least),
         NEW ord \in Seq(Players), NEW st \in [Players -> Standings],
         Earned(st, Least), NEW b, Holds(b, st), SendLeaderboard(ord, st, b)
  PROVE  Holds(board', st) /\ ScreenIsRanked'
<1>1. ASSUME NEW ids \in Seq(Players), Show(ids, st),
             \A i, j \in 1..Len(ids) : i < j => Key(st[ids[i]]) >= Key(st[ids[j]])
      PROVE  ScreenIsRanked'
  <2>1. DOMAIN ids = 1..Len(ids) /\ Len(ids) \in Nat  OBVIOUS
  <2>2. screen' = [i \in 1..Len(ids) |-> [id |-> ids[i], standing |-> st[ids[i]]]]
    BY <1>1, <2>1 DEF Show
  <2>3. /\ Len(screen') = Len(ids)
        /\ \A i \in 1..Len(ids) : screen'[i].standing = st[ids[i]]
    BY <2>1, <2>2
  <2>4. ASSUME NEW i \in 1..Len(ids), NEW j \in 1..Len(ids), i < j,
               Better(st[ids[j]], st[ids[i]])
        PROVE  FALSE
    <3>1. ids[i] \in Players /\ ids[j] \in Players  OBVIOUS
    <3>2. st[ids[i]] \in Ranked /\ st[ids[j]] \in Ranked  BY <3>1, EarnedIsRanked
    <3>3. Key(st[ids[j]]) > Key(st[ids[i]])  BY <2>4, <3>2, KeyIsOrder
    <3>4. Key(st[ids[i]]) >= Key(st[ids[j]])  BY <1>1, <2>4
    <3>5. Key(st[ids[i]]) \in Nat /\ Key(st[ids[j]]) \in Nat  BY <3>1, KeyIsNat
    <3> QED  BY <3>3, <3>4, <3>5
  <2> QED  BY <2>3, <2>4 DEF ScreenIsRanked
<1>2. ASSUME Covers(b, ord), NEW ids \in RedisOrders(b), Show(ids, st), board' = b
      PROVE  Holds(board', st) /\ ScreenIsRanked'
  <2>1. /\ ids \in Seq(Players)
        /\ \A i \in 1..Len(ids) : ids[i] \in DOMAIN b
        /\ \A i, j \in 1..Len(ids) : i < j => b[ids[i]] >= b[ids[j]]
    BY <1>2, RedisSorts DEF Covers
  <2>2. \A i, j \in 1..Len(ids) : i < j => Key(st[ids[i]]) >= Key(st[ids[j]])
    BY <2>1 DEF Holds
  <2> QED  BY <1>1, <1>2, <2>1, <2>2
<1>3. ASSUME Show(MemoryOrder(ord, st), st),
             NEW o \in SaveOutcomes, board' = Saved(b, ToSet(ord), st, o)
      PROVE  Holds(board', st) /\ ScreenIsRanked'
  <2>1. ScreenIsRanked'  BY <1>1, <1>3, MemorySorts
  <2>2. Holds(board', st)  BY <1>3 DEF Saved, Holds
  <2> QED  BY <2>1, <2>2
<1> QED  BY <1>2, <1>3 DEF SendLeaderboard

LEMMA MarkRanks ==
  ASSUME NEW Least, KeysKeepUp(Least), ScreenIsRanked,
         NEW ord \in Seq(Players), NEW st \in [Players -> Standings],
         Earned(st, Least), NEW b, Holds(b, st), MarkLeaderboardDirty(ord, st, b)
  PROVE  Holds(board', st) /\ ScreenIsRanked'
<1>1. CASE SendLeaderboard(ord, st, b)
  BY <1>1, SendRanks
<1>2. CASE board' = b /\ UNCHANGED screen
  BY <1>2 DEF ScreenIsRanked
<1> QED  BY <1>1, <1>2 DEF MarkLeaderboardDirty

LEMMA InitRanks ==
  ASSUME NEW Least, KeysKeepUp(Least), Init
  PROVE  RankInv(Least)
<1>1. Earned(standing, Least)  BY DEF Init, Earned, NoAnswers, KeysKeepUp
<1>2. Holds(board, standing)  BY DEF Init, NoBoard, Holds
<1>3. ScreenIsRanked  BY DEF Init, ScreenIsRanked
<1> QED  BY <1>1, <1>2, <1>3 DEF RankInv

LEMMA StepRanks ==
  ASSUME NEW Least, KeysKeepUp(Least), Inv, Inv', RankInv(Least), [Next]_vars
  PROVE  RankInv(Least)'
<1> USE DEF RankInv
<1>1. /\ order \in Seq(Players) /\ order' \in Seq(Players)
      /\ standing \in [Players -> Standings] /\ standing' \in [Players -> Standings]
  BY DEF Inv, TypeOK
<1>2. ASSUME UNCHANGED <<standing, board, screen>> PROVE RankInv(Least)'
  BY <1>2 DEF Earned, Holds, ScreenIsRanked
<1>3. ASSUME NEW p \in Players, AddPlayer(p) PROVE UNCHANGED <<standing, board, screen>>
  BY <1>3 DEF AddPlayer
<1>4. ASSUME NEW p \in Players, NEW points \in Points, NEW spent \in Times,
             Resolve(p, points, spent)
      PROVE  RankInv(Least)'
  <2>1. Earned(standing', Least)
    <3>1. Least \in Nat \ {0} /\ (points # 0 => points >= Least)  BY DEF KeysKeepUp
    <3> QED  BY <1>4, <3>1, ResolveEarns DEF Inv
  <2>2. PICK o \in SaveOutcomes :
          MarkLeaderboardDirty(order, standing', Saved(board, {p}, standing', o))
    BY <1>4 DEF Resolve
  <2>3. \A q \in Players \ {p} : standing'[q] = standing[q]
    BY <1>1, <1>4 DEF Resolve
  <2>4. o # "fail" /\ DOMAIN board \subseteq Players  BY DEF KeysKeepUp, Inv, TypeOK
  <2>5. Holds(Saved(board, {p}, standing', o), standing')
    BY <2>3, <2>4 DEF Saved, Holds
  <2>6. Holds(board', standing') /\ ScreenIsRanked'
    BY <1>1, <2>1, <2>2, <2>5, MarkRanks
  <2> QED  BY <2>1, <2>6
<1>5. ASSUME NEW p \in Players, Kick(p) PROVE RankInv(Least)'
  <2>1. PICK o \in ForgetOutcomes :
          MarkLeaderboardDirty(order', standing, Forgotten(board, p, o))
    BY <1>5 DEF Kick
  <2>2. Holds(Forgotten(board, p, o), standing)  BY DEF Forgotten, Holds
  <2>3. Holds(board', standing) /\ ScreenIsRanked'
    BY <1>1, <2>1, <2>2, MarkRanks
  <2>4. standing' = standing  BY <1>5 DEF Kick
  <2> QED  BY <2>3, <2>4
<1>6. ASSUME EndSession \/ TimerFires \/ Tick PROVE UNCHANGED <<standing, board, screen>>
  BY <1>6 DEF EndSession, TimerFires, Tick, players
<1>7. CASE Flush
  <2>1. standing' = standing  BY <1>7 DEF Flush, players
  <2>2. CASE SendLeaderboard(order, standing, board)
    BY <1>1, <2>1, <2>2, SendRanks
  <2>3. CASE UNCHANGED <<board, dirty, since, screen>>
    BY <1>2, <2>1, <2>3
  <2> QED  BY <1>7, <2>2, <2>3 DEF Flush
<1>8. CASE Reload
  <2>1. screen' = <<>> /\ standing' = standing  BY <1>8 DEF Reload, players
  <2>2. PICK o \in SaveOutcomes : board' = Saved(board, ToSet(order), standing, o)
    BY <1>8 DEF Reload
  <2>3. Holds(board', standing)  BY <2>2 DEF Saved, Holds
  <2>4. ScreenIsRanked'  BY <2>1 DEF ScreenIsRanked
  <2> QED  BY <2>1, <2>3, <2>4
<1>9. CASE RedisForgets
  <2>1. screen' = screen /\ standing' = standing /\ board' = NoBoard
    BY <1>9 DEF RedisForgets, players
  <2> QED  BY <2>1 DEF NoBoard, Holds, ScreenIsRanked
<1>10. ASSUME UNCHANGED vars PROVE UNCHANGED <<standing, board, screen>>
  BY <1>10 DEF vars, players
<1> QED  BY <1>2, <1>3, <1>4, <1>5, <1>6, <1>7, <1>8, <1>9, <1>10 DEF Next

\* However often Redis loses the set, keeps a kicked player or answers late,
\* what the clients are shown is in the order of the final results.
THEOREM ScreenRanked ==
  ASSUME NEW Least, KeysKeepUp(Least)
  PROVE  Spec => []ScreenIsRanked
<1>1. Init => Inv /\ RankInv(Least)  BY InitInv, InitRanks
<1>2. Inv /\ RankInv(Least) /\ [Next]_vars => (Inv /\ RankInv(Least))'
  BY StepInv, StepRanks
<1>3. RankInv(Least) => ScreenIsRanked  BY DEF RankInv
<1> QED  BY <1>1, <1>2, <1>3, PTL DEF Spec

=============================================================================
