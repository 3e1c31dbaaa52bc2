---------------------------- MODULE ScoringProofs ----------------------------
(***************************************************************************)
(* What Selector and Scoring promise for every bank, whatever its buckets  *)
(* lack, and for every moment an answer may come at, to the millisecond.   *)
(*                                                                         *)
(* The run looks at the clock every Step milliseconds and at a bank with   *)
(* MaxShort poor buckets; the theorems hold for every value of both.       *)
(***************************************************************************)
EXTENDS Scoring, SumsProofs, TLAPS

-----------------------------------------------------------------------------
(* The cells of a session *)

\* Every site of the table has three levels.
LEMMA Table ==
  ASSUME NEW j \in Jenjangs, NEW s \in Sites
  PROVE  /\ Len(composition[j][s]) = 3
         /\ \A c \in 1..3 : composition[j][s][c] \in Levels
<1>1. s \in {1, 2, 3, 4, 5} /\ j \in {"SD", "SMP", "SMA"}
  BY DEF Sites, Jenjangs
<1>2. CASE j = "SD"
  BY <1>1, <1>2 DEF composition, Levels
<1>3. CASE j = "SMP"
  BY <1>1, <1>3 DEF composition, Levels
<1>4. CASE j = "SMA"
  BY <1>1, <1>4 DEF composition, Levels
<1> QED
  BY <1>1, <1>2, <1>3, <1>4

\* levelsToAsk takes the cells at Places.
LEMMA AskedCells ==
  ASSUME jenjang \in Jenjangs, short \in BOOLEAN, NEW s \in Sites
  PROVE  /\ PerSite \in {2, 3}
         /\ Len(Asked(s)) = PerSite
         /\ \A c \in 1..PerSite : /\ Asked(s)[c] = composition[jenjang][s][Places[c]]
                                  /\ Asked(s)[c] \in Levels
<1>1. /\ Len(composition[jenjang][s]) = 3
      /\ \A c \in 1..3 : composition[jenjang][s][c] \in Levels
  BY Table
<1> DEFINE l == composition[jenjang][s]
<1>2. CASE short
  <2>1. Asked(s) = <<l[1], l[3]>> /\ Places = <<1, 3>>
    BY <1>1, <1>2 DEF Asked, levelsToAsk, Places
  <2> HIDE DEF l
  <2>2. /\ Len(Asked(s)) = 2 /\ PerSite = 2
        /\ Asked(s)[1] = l[1] /\ Asked(s)[2] = l[3] /\ Places[1] = 1 /\ Places[2] = 3
    BY <2>1 DEF PerSite
  <2>3. 1..2 = {1, 2} /\ 1 \in 1..3 /\ 3 \in 1..3
    OBVIOUS
  <2> QED
    BY <1>1, <2>2, <2>3 DEF l
<1>3. CASE ~short
  <2>1. Asked(s) = l /\ Places = <<1, 2, 3>>
    BY <1>3 DEF Asked, levelsToAsk, Places
  <2>2. /\ PerSite = 3 /\ \A c \in 1..3 : Places[c] = c
    BY <2>1 DEF PerSite
  <2> QED
    BY <1>1, <2>1, <2>2
<1> QED
  BY <1>2, <1>3

\* The c-th question of site s is the ((s - 1) * PerSite + c)-th of the session.
LEMMA CellAt ==
  ASSUME jenjang \in Jenjangs, short \in BOOLEAN, NEW s \in Sites, NEW c \in 1..PerSite
  PROVE  /\ (s - 1) * PerSite + c \in 1..(5 * PerSite)
         /\ CellOf((s - 1) * PerSite + c) = <<s, Asked(s)[c]>>
         /\ <<s, Asked(s)[c]>> \in Buckets
<1>1. /\ PerSite \in {2, 3} /\ Asked(s)[c] = composition[jenjang][s][Places[c]]
      /\ Asked(s)[c] \in Levels
  BY AskedCells
<1> DEFINE i == (s - 1) * PerSite + c
<1>2. s \in 1..5
  BY DEF Sites
<1>3. /\ i \in 1..(5 * PerSite)
      /\ ((i - 1) \div PerSite) + 1 = s
      /\ ((i - 1) % PerSite) + 1 = c
  <2>1. CASE PerSite = 2
    BY <1>2, <2>1
  <2>2. CASE PerSite = 3
    BY <1>2, <2>2
  <2> QED
    BY <1>1, <2>1, <2>2
<1> HIDE DEF i
<1>4. CellOf(i) = <<s, composition[jenjang][s][Places[c]]>>
  BY <1>3 DEF CellOf
<1> QED
  BY <1>1, <1>3, <1>4 DEF i, Buckets

-----------------------------------------------------------------------------
(* The selection *)

\* The questions before the n-th that ask for bucket b.
Asking(b, n) == {i \in 1..n : CellOf(i) = b}

\* While it runs, the selection has the questions of the cells passed, from
\* each bucket its first ones.
SelectedSoFar ==
  /\ \A i \in 1..Len(ids) :
       ids[i].bucket = CellOf(i) /\ ids[i].place < next[CellOf(i)]
  /\ \A i, j \in 1..Len(ids) : i # j => ids[i] # ids[j]
  /\ \A b \in Buckets : next[b] = Cardinality(Asking(b, Len(ids)))

SelInv ==
  /\ SelectorTypes
  /\ answer = "none" =>
       Len(ids) = (stage - 1) * PerSite + (cell - 1) /\ SelectedSoFar
  /\ SelectionIsExact
  /\ answer = "playing" => Len(ids) = 5 * PerSite

\* The counts of questions grow with the questions.
LEMMA AskingGrows ==
  ASSUME NEW b, NEW n \in Nat
  PROVE  /\ IsFiniteSet(Asking(b, n))
         /\ Cardinality(Asking(b, n)) \in Nat
         /\ Cardinality(Asking(b, n + 1))
              = Cardinality(Asking(b, n)) + (IF CellOf(n + 1) = b THEN 1 ELSE 0)
<1>1. IsFiniteSet(Asking(b, n)) /\ Cardinality(Asking(b, n)) \in Nat
  <2>1. IsFiniteSet(1..n)
    BY FS_Interval
  <2>2. Asking(b, n) \subseteq 1..n
    BY DEF Asking
  <2> QED
    BY <2>1, <2>2, FS_Subset, FS_CardinalityType
<1>2. CASE CellOf(n + 1) = b
  <2>1. Asking(b, n + 1) = Asking(b, n) \cup {n + 1} /\ n + 1 \notin Asking(b, n)
    BY <1>2 DEF Asking
  <2> QED
    BY <1>1, <1>2, <2>1, FS_AddElement
<1>3. CASE CellOf(n + 1) # b
  <2>1. Asking(b, n + 1) = Asking(b, n)
    BY <1>3 DEF Asking
  <2> QED
    BY <1>1, <1>3, <2>1
<1> QED
  BY <1>1, <1>2, <1>3

\* The cells are the same as long as the host's choices are.
LEMMA CellsStay ==
  ASSUME UNCHANGED <<jenjang, short>>
  PROVE  /\ PerSite' = PerSite
         /\ \A s : Asked(s)' = Asked(s)
         /\ \A i : CellOf(i)' = CellOf(i)
         /\ \A b, n : Asking(b, n)' = Asking(b, n)
         /\ \A b : Demand(b)' = Demand(b)
BY DEF PerSite, Places, Asked, CellOf, Asking, Demand

\* The cell the loops are at is that of the next question.
LEMMA AtNextCell ==
  ASSUME SelInv, answer = "none"
  PROVE  /\ <<stage, Asked(stage)[cell]>> = CellOf(Len(ids) + 1)
         /\ <<stage, Asked(stage)[cell]>> \in Buckets
         /\ Len(ids) + 1 \in 1..(5 * PerSite)
         /\ Len(ids) \in Nat
         /\ PerSite \in {2, 3}
         /\ stage \in 1..5 /\ cell \in 1..PerSite /\ Len(Asked(stage)) = PerSite
<1>1. /\ jenjang \in Jenjangs /\ short \in BOOLEAN /\ stage \in Sites
      /\ cell \in 1..Len(Asked(stage)) /\ Len(ids) \in Nat
  BY DEF SelInv, SelectorTypes
<1>2. PerSite \in {2, 3} /\ Len(Asked(stage)) = PerSite
  BY <1>1, AskedCells
<1>3. Len(ids) + 1 = (stage - 1) * PerSite + cell
  <2>1. Len(ids) = (stage - 1) * PerSite + (cell - 1)
    BY DEF SelInv
  <2>2. (stage - 1) * PerSite \in Int /\ cell \in Int
    BY <1>1, <1>2 DEF Sites
  <2> QED
    BY <2>1, <2>2
<1> QED
  BY <1>1, <1>2, <1>3, CellAt DEF Sites

\* A question more, and still the first ones of each bucket.
LEMMA TakeKeepsSelected ==
  ASSUME SelInv, answer = "none", Take, UNCHANGED <<jenjang, short>>
  PROVE  /\ ids' \in Seq([bucket : Buckets, place : Nat])
         /\ Len(ids') = Len(ids) + 1
         /\ next' \in [Buckets -> Nat]
         /\ \A b \in Buckets : next'[b] <= bank[b]
         /\ SelectedSoFar'
<1> DEFINE b == <<stage, Asked(stage)[cell]>>
           n == Len(ids)
           q == [bucket |-> b, place |-> next[b]]
<1>1. /\ b = CellOf(n + 1) /\ b \in Buckets /\ n \in Nat
  BY AtNextCell
<1>2. /\ next \in [Buckets -> Nat] /\ bank \in [Buckets -> 0..Plenty]
      /\ ids \in Seq([bucket : Buckets, place : Nat])
      /\ \A d \in Buckets : next[d] <= bank[d]
      /\ SelectedSoFar
  BY DEF SelInv, SelectorTypes
<1>3. next[b] < bank[b] /\ ids' = Append(ids, q) /\ next' = [next EXCEPT ![b] = @ + 1]
  BY DEF Take, HasQuestion
<1> HIDE DEF b
<1>4. q \in [bucket : Buckets, place : Nat]
  BY <1>1, <1>2
<1>5. /\ ids' \in Seq([bucket : Buckets, place : Nat]) /\ Len(ids') = n + 1
      /\ \A i \in 1..n : ids'[i] = ids[i]
      /\ ids'[n + 1] = q
  BY <1>2, <1>3, <1>4
<1>6. /\ next' \in [Buckets -> Nat]
      /\ next'[b] = next[b] + 1
      /\ \A d \in Buckets : d # b => next'[d] = next[d]
  BY <1>1, <1>2, <1>3
<1>7. \A d \in Buckets : next'[d] <= bank[d]
  BY <1>1, <1>2, <1>3, <1>6, SelectorAssumption
<1> HIDE DEF q
<1>8. q.bucket = b /\ q.place = next[b]
  BY DEF q
<1>9. ASSUME NEW i \in 1..(n + 1)
      PROVE  ids'[i].bucket = CellOf(i) /\ ids'[i].place < next'[CellOf(i)]
  <2>1. CASE i = n + 1
    <3>1. ids'[i] = q /\ CellOf(i) = b
      BY <1>1, <1>5, <2>1
    <3>2. next[b] \in Nat /\ next'[b] = next[b] + 1
      BY <1>1, <1>2, <1>6
    <3> QED
      BY <1>8, <3>1, <3>2
  <2>2. CASE i # n + 1
    <3>1. i \in 1..n /\ ids'[i] = ids[i]
      BY <1>1, <1>5, <2>2
    <3>2. ids[i].bucket = CellOf(i) /\ ids[i].place < next[CellOf(i)]
      BY <1>2, <3>1 DEF SelectedSoFar
    <3>3. ids[i] \in [bucket : Buckets, place : Nat]
      <4> DEFINE Q == [bucket : Buckets, place : Nat]
      <4>1. ids \in Seq(Q) /\ i \in 1..Len(ids)
        BY <1>2, <3>1
      <4> HIDE DEF Q
      <4>2. ids[i] \in Q
        BY <4>1
      <4> QED
        BY <4>2 DEF Q
    <3>4. CellOf(i) \in Buckets
      BY <3>2, <3>3
    <3>5. /\ next[CellOf(i)] <= next'[CellOf(i)]
          /\ next[CellOf(i)] \in Nat /\ next'[CellOf(i)] \in Nat
      <4> DEFINE d == CellOf(i)
      <4>1. d \in Buckets
        BY <3>4
      <4> HIDE DEF d
      <4>2. next[d] \in Nat /\ next'[d] \in Nat
        BY <1>2, <1>6, <4>1
      <4>3. next'[d] = next[d] \/ next'[d] = next[d] + 1
        BY <1>6, <4>1
      <4> QED
        BY <4>2, <4>3 DEF d
    <3> QED
      BY <3>1, <3>2, <3>3, <3>5
  <2> QED
    BY <2>1, <2>2
<1>10. ASSUME NEW i \in 1..n
       PROVE  ids[i] # q
  <2>1. ids[i].bucket = CellOf(i) /\ ids[i].place < next[CellOf(i)]
    BY <1>2 DEF SelectedSoFar
  <2>2. next[b] \in Nat
    BY <1>1, <1>2
  <2> QED
    BY <1>8, <2>1, <2>2
<1>11. \A i, j \in 1..(n + 1) : i # j => ids'[i] # ids'[j]
  <2>1. \A i, j \in 1..n : i # j => ids[i] # ids[j]
    BY <1>2 DEF SelectedSoFar
  <2>2. \A i \in 1..(n + 1) : i \in 1..n \/ i = n + 1
    BY <1>1
  <2> QED
    BY <1>5, <1>10, <2>1, <2>2
<1>12. ASSUME NEW d \in Buckets
       PROVE  next'[d] = Cardinality(Asking(d, n + 1))
  <2>1. next[d] = Cardinality(Asking(d, n))
    BY <1>2 DEF SelectedSoFar
  <2>2. Cardinality(Asking(d, n + 1))
          = Cardinality(Asking(d, n)) + (IF CellOf(n + 1) = d THEN 1 ELSE 0)
    BY <1>1, AskingGrows
  <2>3. next'[d] = next[d] + (IF b = d THEN 1 ELSE 0)
    BY <1>2, <1>6
  <2> QED
    BY <1>1, <2>1, <2>2, <2>3
<1>13. SelectedSoFar'
  BY <1>5, <1>9, <1>11, <1>12, CellsStay DEF SelectedSoFar
<1> QED
  BY <1>5, <1>6, <1>7, <1>13

\* Ask fills the cell of the next question and moves on to the one after it, or
\* is done once the last site has all of its own.
LEMMA AskKeepsSelInv ==
  ASSUME SelInv, Ask
  PROVE  SelInv'
<1>1. answer = "none" /\ Take /\ Advance /\ UNCHANGED <<jenjang, short, bank>>
  BY DEF Ask
<1>2. /\ ids' \in Seq([bucket : Buckets, place : Nat])
      /\ Len(ids') = Len(ids) + 1
      /\ next' \in [Buckets -> Nat]
      /\ \A b \in Buckets : next'[b] <= bank[b]
      /\ SelectedSoFar'
  BY <1>1, TakeKeepsSelected
<1>3. /\ Len(ids) \in Nat /\ PerSite \in {2, 3}
      /\ stage \in 1..5 /\ cell \in 1..PerSite /\ Len(Asked(stage)) = PerSite
  BY <1>1, AtNextCell
<1>4. Len(ids) = (stage - 1) * PerSite + (cell - 1)
  BY <1>1 DEF SelInv
<1>5. /\ PerSite' = PerSite
      /\ \A s : Asked(s)' = Asked(s)
      /\ \A i : CellOf(i)' = CellOf(i)
  BY <1>1, CellsStay
<1>6. /\ stage' \in 1..5 /\ cell' \in 1..PerSite /\ answer' \in {"none", "ok"}
      /\ answer' = "none" => Len(ids') = (stage' - 1) * PerSite + (cell' - 1)
      /\ answer' = "ok" => Len(ids') = 5 * PerSite
  <2>1. CASE cell < PerSite
    <3>1. cell' = cell + 1 /\ UNCHANGED <<stage, answer>>
      BY <1>1, <1>3, <2>1 DEF Advance
    <3>2. (stage - 1) * PerSite \in Int
      BY <1>3
    <3> QED
      BY <1>1, <1>2, <1>3, <1>4, <2>1, <3>1, <3>2
  <2>2. CASE cell = PerSite /\ stage < 5
    <3>1. cell' = 1 /\ stage' = stage + 1 /\ UNCHANGED answer
      BY <1>1, <1>3, <2>2 DEF Advance
    <3>2. Len(ids) + 1 = stage * PerSite
      BY <1>3, <1>4, <2>2
    <3> QED
      BY <1>1, <1>2, <1>3, <2>2, <3>1, <3>2
  <2>3. CASE cell = PerSite /\ stage = 5
    <3>1. cell' = 1 /\ answer' = "ok" /\ UNCHANGED stage
      BY <1>1, <1>3, <2>3 DEF Advance
    <3> QED
      BY <1>2, <1>3, <1>4, <2>3, <3>1
  <2> QED
    BY <1>3, <2>1, <2>2, <2>3
<1>7. cell' \in 1..Len(Asked(stage)')
  <2>1. Len(Asked(stage')) = PerSite
    BY <1>6, AskedCells DEF SelInv, SelectorTypes, Sites
  <2>2. Asked(stage)' = Asked(stage')
    BY <1>1 DEF Asked
  <2> QED
    BY <1>6, <2>1, <2>2
<1>8. SelectorTypes'
  BY <1>1, <1>2, <1>6, <1>7 DEF SelInv, SelectorTypes, Sites
<1>9. SelectionIsExact'
  <2>1. CASE answer' = "none"
    BY <2>1 DEF SelectionIsExact
  <2>2. CASE answer' = "ok"
    <3>1. Len(ids') = (5 * PerSite)' /\ DOMAIN ids' = 1..Len(ids')
      BY <1>2, <1>5, <1>6, <2>2
    <3>2. ASSUME NEW i \in DOMAIN ids'
          PROVE  ids'[i].bucket = CellOf(i)' /\ ids'[i].place < bank'[CellOf(i)']
      <4>1. ids'[i].bucket = CellOf(i) /\ ids'[i].place < next'[CellOf(i)]
        BY <1>2, <1>5, <3>1, <3>2 DEF SelectedSoFar
      <4>2. ids'[i] \in [bucket : Buckets, place : Nat]
        <5> DEFINE Q == [bucket : Buckets, place : Nat]
        <5>1. ids' \in Seq(Q) /\ i \in 1..Len(ids')
          BY <1>2, <3>1
        <5> HIDE DEF Q
        <5>2. ids'[i] \in Q
          BY <5>1
        <5> QED
          BY <5>2 DEF Q
      <4>3. CellOf(i) \in Buckets /\ ids'[i].place \in Nat
        BY <4>1, <4>2
      <4>4. next'[CellOf(i)] <= bank[CellOf(i)] /\ next'[CellOf(i)] \in Nat
            /\ bank[CellOf(i)] \in Int
        BY <1>2, <4>3, SelectorAssumption DEF SelInv, SelectorTypes
      <4> QED
        BY <1>1, <1>5, <4>1, <4>3, <4>4
    <3>3. \A i, j \in DOMAIN ids' : i # j => ids'[i] # ids'[j]
      BY <1>2, <3>1 DEF SelectedSoFar
    <3> QED
      BY <2>2, <3>1, <3>2, <3>3 DEF SelectionIsExact
  <2> QED
    BY <1>6, <2>1, <2>2
<1> QED
  BY <1>2, <1>5, <1>6, <1>8, <1>9 DEF SelInv

\* A bucket that is empty when its turn comes has fewer questions than the
\* session asks it for.
LEMMA RefuseKeepsSelInv ==
  ASSUME SelInv, Refuse
  PROVE  SelInv'
<1> DEFINE b == <<stage, Asked(stage)[cell]>>
           n == Len(ids)
<1>1. /\ answer = "none" /\ answer' = "refused" /\ ~(next[b] < bank[b])
      /\ UNCHANGED <<jenjang, short, bank, stage, cell, next, ids>>
  BY DEF Refuse, HasQuestion
<1>2. /\ b = CellOf(n + 1) /\ b \in Buckets /\ n \in Nat
      /\ n + 1 \in 1..(5 * PerSite) /\ PerSite \in {2, 3}
  BY <1>1, AtNextCell
<1> HIDE DEF b
<1>3. /\ next[b] = Cardinality(Asking(b, n)) /\ next[b] \in Nat /\ bank[b] \in Int
  BY <1>1, <1>2, SelectorAssumption DEF SelInv, SelectedSoFar, SelectorTypes
<1>4. Cardinality(Asking(b, n)) < Demand(b)
  <2>1. Cardinality(Asking(b, n + 1)) = Cardinality(Asking(b, n)) + 1
    BY <1>2, AskingGrows
  <2>2. /\ Demand(b) = Cardinality(Asking(b, 5 * PerSite))
        /\ Asking(b, n + 1) \subseteq Asking(b, 5 * PerSite)
    BY <1>2 DEF Demand, Asking
  <2>3. /\ IsFiniteSet(Asking(b, 5 * PerSite))
        /\ Cardinality(Asking(b, 5 * PerSite)) \in Nat
        /\ Cardinality(Asking(b, n)) \in Nat
    <3>1. 5 * PerSite \in Nat
      BY <1>2
    <3> QED
      BY <1>2, <3>1, AskingGrows
  <2>4. Cardinality(Asking(b, n + 1)) <= Cardinality(Asking(b, 5 * PerSite))
    BY <2>2, <2>3, FS_Subset
  <2> QED
    BY <2>1, <2>2, <2>3, <2>4
<1>5. Demand(b) \in Nat
  <2>1. Demand(b) = Cardinality(Asking(b, 5 * PerSite)) /\ 5 * PerSite \in Nat
    BY <1>2 DEF Demand, Asking
  <2> QED
    BY <2>1, AskingGrows
<1>6. bank[b] < Demand(b)
  BY <1>1, <1>3, <1>4, <1>5
<1>7. /\ PerSite' = PerSite
      /\ \A s : Asked(s)' = Asked(s)
      /\ \A d : Demand(d)' = Demand(d)
  BY <1>1, CellsStay
<1>8. SelectorTypes'
  BY <1>1, <1>7 DEF SelInv, SelectorTypes
<1>9. SelectionIsExact'
  BY <1>1, <1>2, <1>6, <1>7 DEF SelectionIsExact
<1> QED
  BY <1>1, <1>8, <1>9 DEF SelInv

\* What is kept of a selection has as many questions as it had.
LEMMA KeepKeepsSelInv ==
  ASSUME SelInv, Keep
  PROVE  SelInv'
<1>1. /\ answer = "ok" /\ answer' = "playing"
      /\ bank' = [b \in Buckets |-> 0] /\ next' = [b \in Buckets |-> 0]
      /\ stage' = 1 /\ cell' = 1
      /\ UNCHANGED <<jenjang, short, ids>>
  BY DEF Keep
<1>2. PerSite' = PerSite /\ \A s : Asked(s)' = Asked(s)
  BY <1>1, CellsStay
<1>3. Len(ids) = 5 * PerSite
  BY <1>1 DEF SelInv, SelectionIsExact
<1>4. cell' \in 1..Len(Asked(stage)') /\ stage' \in Sites
  <2>1. 1 \in Sites
    BY DEF Sites
  <2>2. Len(Asked(1)) = PerSite /\ PerSite \in {2, 3}
    BY <2>1, AskedCells DEF SelInv, SelectorTypes
  <2>3. Asked(stage)' = Asked(1)
    BY <1>1 DEF Asked
  <2> QED
    BY <1>1, <2>1, <2>2, <2>3
<1>5. SelectorTypes'
  BY <1>1, <1>4, SelectorAssumption DEF SelInv, SelectorTypes
<1> QED
  BY <1>1, <1>2, <1>3, <1>5 DEF SelInv, SelectionIsExact

\* The loops begin with nothing taken.
LEMMA SelectInitSelInv ==
  ASSUME SelectInit
  PROVE  SelInv
<1>1. /\ jenjang \in Jenjangs /\ short \in BOOLEAN /\ stage = 1 /\ cell = 1
      /\ next = [b \in Buckets |-> 0] /\ ids = <<>> /\ answer = "none"
  BY DEF SelectInit
<1>2. bank \in [Buckets -> 0..Plenty]
  <2>1. PICK poor \in SUBSET Buckets :
          \E have \in [poor -> 0..(Plenty - 1)] :
            bank = [b \in Buckets |-> IF b \in poor THEN have[b] ELSE Plenty]
    BY DEF SelectInit
  <2>2. PICK have \in [poor -> 0..(Plenty - 1)] :
          bank = [b \in Buckets |-> IF b \in poor THEN have[b] ELSE Plenty]
    BY <2>1
  <2>3. \A b \in poor : have[b] \in 0..(Plenty - 1)
    BY <2>2
  <2> QED
    BY <2>2, <2>3, SelectorAssumption
<1>3. cell \in 1..Len(Asked(stage)) /\ PerSite \in {2, 3}
  <2>1. 1 \in Sites
    BY DEF Sites
  <2>2. Len(Asked(1)) = PerSite /\ PerSite \in {2, 3}
    BY <1>1, <2>1, AskedCells
  <2> QED
    BY <1>1, <2>2
<1>4. SelectorTypes
  BY <1>1, <1>2, <1>3, SelectorAssumption DEF SelectorTypes, Sites
<1>5. SelectedSoFar /\ Len(ids) = (stage - 1) * PerSite + (cell - 1)
  <2>1. Len(ids) = 0
    BY <1>1
  <2>2. \A b : Asking(b, 0) = {}
    BY DEF Asking
  <2>3. SelectedSoFar
    BY <1>1, <2>1, <2>2, FS_EmptySet DEF SelectedSoFar
  <2> QED
    BY <1>1, <1>3, <2>1, <2>3
<1> QED
  BY <1>1, <1>4, <1>5 DEF SelInv, SelectionIsExact

-----------------------------------------------------------------------------
(* Points *)

\* The numbers of a question: its base points, the milliseconds it allows, and
\* those for reading it.
LEMMA QuestionNumbers ==
  ASSUME NEW l \in Levels, NEW j \in Jenjangs
  PROVE  /\ basePoints[l] \in {500, 750, 1000}
         /\ questionLimit(l, j) \in Nat
         /\ questionLimit(l, j) >= 15000 /\ questionLimit(l, j) <= 31250
         /\ readingGrace(j) \in Nat
         /\ readingGrace(j) >= 2000 /\ readingGrace(j) <= 3000
<1>1. l \in {1, 2, 3}
  BY DEF Levels
<1>2. CASE l = 1
  BY <1>2 DEF basePoints, questionLimit, timerByLevel, readingGrace
<1>3. CASE l = 2
  BY <1>3 DEF basePoints, questionLimit, timerByLevel, readingGrace
<1>4. CASE l = 3
  BY <1>4 DEF basePoints, questionLimit, timerByLevel, readingGrace
<1> QED
  BY <1>1, <1>2, <1>3, <1>4

\* A rounded quotient is an integer within a half of it.
LEMMA RoundedIsNear ==
  ASSUME NEW n \in Int, NEW d \in Nat \ {0}, NEW p \in Rounded(n, d)
  PROVE  /\ p \in Int
         /\ 2 * (d * p) <= 2 * n + d
         /\ 2 * n <= 2 * (d * p) + d
<1> DEFINE m == 2 * n + d
           q == 2 * d
           up == m \div q
<1>1. m \in Int /\ q \in Nat \ {0} /\ up \in Int
  OBVIOUS
<1> HIDE DEF m, q
<1>2. m = q * up + (m % q) /\ m % q \in 0..(q - 1)
  BY <1>1
<1>3. \/ p = up
      \/ p = up - 1 /\ m % q = 0
  BY DEF Rounded, m, q
<1> HIDE DEF up
<1>4. q * p = 2 * (d * p) /\ q * (up - 1) = q * up - q
  <2>1. p \in Int
    BY <1>1, <1>3
  <2> QED
    BY <1>1, <2>1 DEF q
<1>5. CASE p = up
  BY <1>1, <1>2, <1>4, <1>5 DEF m, q
<1>6. CASE p = up - 1 /\ m % q = 0
  BY <1>1, <1>2, <1>4, <1>6 DEF m, q
<1> QED
  BY <1>3, <1>5, <1>6

\* It lies between any two integers the quotient lies between.
LEMMA RoundedBetween ==
  ASSUME NEW n \in Int, NEW d \in Nat \ {0}, NEW p \in Rounded(n, d),
         NEW a \in Int, NEW b \in Int, d * a <= n, n <= d * b
  PROVE  p \in Int /\ a <= p /\ p <= b
<1>1. p \in Int /\ 2 * (d * p) <= 2 * n + d /\ 2 * n <= 2 * (d * p) + d
  BY RoundedIsNear
<1>2. \A x, y \in Int : x + 1 <= y => d * x + d <= d * y
  <2> SUFFICES ASSUME NEW x \in Int, NEW y \in Int, x + 1 <= y
               PROVE  d * x + d <= d * y
    OBVIOUS
  <2>1. PICK z \in Nat : y = x + 1 + z
    <3>1. y - (x + 1) \in Nat /\ y = x + 1 + (y - (x + 1))
      OBVIOUS
    <3> QED
      BY <3>1
  <2>2. d * y = d * x + d + d * z /\ d * z \in Nat
    BY <2>1
  <2> QED
    BY <2>2
<1>3. d * a \in Int /\ d * b \in Int /\ d * p \in Int
  BY <1>1
<1>4. a <= p
  <2> SUFFICES ASSUME p + 1 <= a PROVE FALSE
    BY <1>1
  <2> QED
    BY <1>1, <1>2, <1>3
<1>5. p <= b
  <2> SUFFICES ASSUME b + 1 <= p PROVE FALSE
    BY <1>1
  <2> QED
    BY <1>1, <1>2, <1>3
<1> QED
  BY <1>1, <1>4, <1>5

\* A smaller quotient never has a larger rounding.
LEMMA RoundedGrows ==
  ASSUME NEW n \in Int, NEW m \in Int, m < n, NEW d \in Nat \ {0},
         NEW p \in Rounded(n, d), NEW r \in Rounded(m, d)
  PROVE  r <= p
<1>1. p \in Int /\ 2 * n <= 2 * (d * p) + d
  BY RoundedIsNear
<1>2. r \in Int /\ 2 * (d * r) <= 2 * m + d
  BY RoundedIsNear
<1> SUFFICES ASSUME p + 1 <= r PROVE FALSE
  BY <1>1, <1>2
<1>3. PICK z \in Nat : r = p + 1 + z
  <2>1. r - (p + 1) \in Nat /\ r = p + 1 + (r - (p + 1))
    BY <1>1, <1>2
  <2> QED
    BY <2>1
<1>4. d * r = d * p + d + d * z /\ d * z \in Nat /\ d * p \in Int /\ d * r \in Int
  BY <1>1, <1>2, <1>3
<1> QED
  BY <1>1, <1>2, <1>4

\* What SpeedPoints rounds, and in which bounds it lies: the whole base while
\* the question is read, 60% of it once the limit is reached.
Late(l, j, ms) == AtLeast(0, AtMost(ms, questionLimit(l, j)) - readingGrace(j))
Span(l, j) == questionLimit(l, j) - readingGrace(j)

LEMMA SpeedPointsRound ==
  ASSUME NEW l \in Levels, NEW j \in Jenjangs, NEW ms \in Nat
  PROVE  /\ SpeedPoints(l, j, ms)
              = Rounded(basePoints[l] * (5 * Span(l, j) - 2 * Late(l, j, ms)), 5 * Span(l, j))
         /\ Span(l, j) \in Nat \ {0}
         /\ Late(l, j, ms) \in 0..Span(l, j)
         /\ basePoints[l] \in {500, 750, 1000}
<1>1. /\ basePoints[l] \in {500, 750, 1000}
      /\ questionLimit(l, j) \in Nat /\ questionLimit(l, j) >= 15000
      /\ readingGrace(j) \in Nat /\ readingGrace(j) <= 3000
  BY QuestionNumbers
<1>2. SpeedPoints(l, j, ms)
        = Rounded(basePoints[l] * (5 * Span(l, j) - 2 * Late(l, j, ms)), 5 * Span(l, j))
  BY Zenon DEF SpeedPoints, Span, Late
<1>3. Span(l, j) \in Nat \ {0} /\ Late(l, j, ms) \in 0..Span(l, j)
  BY <1>1 DEF Span, Late, AtLeast, AtMost
<1> QED
  BY <1>1, <1>2, <1>3

\* The points for speed lie between 60% of the base and the base.
LEMMA SpeedPointsBetween ==
  ASSUME NEW l \in Levels, NEW j \in Jenjangs, NEW ms \in Nat,
         NEW p \in SpeedPoints(l, j, ms)
  PROVE  /\ p \in Nat /\ 3 * basePoints[l] <= 5 * p /\ p <= basePoints[l]
         /\ Late(l, j, ms) = 0 => p = basePoints[l]
         /\ Late(l, j, ms) = Span(l, j) => 5 * p = 3 * basePoints[l]
<1> DEFINE s == Span(l, j)
           t == Late(l, j, ms)
           base == basePoints[l]
           low == IF base = 500 THEN 300 ELSE IF base = 750 THEN 450 ELSE 600
           n == base * (5 * s - 2 * t)
<1>1. /\ p \in Rounded(n, 5 * s)
      /\ s \in Nat \ {0} /\ t \in 0..s
      /\ base \in {500, 750, 1000}
  BY SpeedPointsRound
<1> HIDE DEF s, t, base
<1>2. /\ low \in Nat /\ 5 * low = 3 * base
      /\ n \in Int /\ 5 * s \in Nat \ {0}
      /\ (5 * s) * low <= n /\ n <= (5 * s) * base
      /\ t = 0 => n = (5 * s) * base
      /\ t = s => n = (5 * s) * low
  <2>1. CASE base = 500
    BY <1>1, <2>1
  <2>2. CASE base = 750
    BY <1>1, <2>2
  <2>3. CASE base = 1000
    BY <1>1, <2>3
  <2> QED
    BY <1>1, <2>1, <2>2, <2>3
<1> HIDE DEF n, low
<1>3. p \in Int /\ low <= p /\ p <= base
  BY <1>1, <1>2, RoundedBetween
<1>4. t = 0 => base <= p
  <2>1. t = 0 => (5 * s) * base <= n
    BY <1>1, <1>2
  <2> QED
    BY <1>1, <1>2, <2>1, RoundedBetween
<1>5. t = s => p <= low
  <2>1. t = s => n <= (5 * s) * low
    BY <1>1, <1>2
  <2> QED
    BY <1>1, <1>2, <2>1, RoundedBetween
<1>6. /\ p \in Nat /\ 3 * base <= 5 * p /\ p <= base
      /\ t = 0 => p = base
      /\ t = s => 5 * p = 3 * base
  BY <1>1, <1>2, <1>3, <1>4, <1>5
<1> QED
  BY <1>6 DEF s, t, base

\* Later is never more.
LEMMA SpeedPointsFall ==
  ASSUME NEW l \in Levels, NEW j \in Jenjangs, NEW ms \in Nat, NEW ns \in Nat, ms < ns,
         NEW p \in SpeedPoints(l, j, ms), NEW r \in SpeedPoints(l, j, ns)
  PROVE  r <= p
<1> DEFINE s == Span(l, j)
           t == Late(l, j, ms)
           u == Late(l, j, ns)
           base == basePoints[l]
<1>1. /\ p \in Rounded(base * (5 * s - 2 * t), 5 * s)
      /\ r \in Rounded(base * (5 * s - 2 * u), 5 * s)
      /\ s \in Nat \ {0} /\ t \in 0..s /\ u \in 0..s
      /\ base \in {500, 750, 1000}
  BY SpeedPointsRound
<1>2. \/ t = 0
      \/ u = s
      \/ t < u
  <2>1. /\ questionLimit(l, j) \in Nat /\ questionLimit(l, j) >= 15000
        /\ readingGrace(j) \in Nat /\ readingGrace(j) <= 3000
    BY QuestionNumbers
  <2> DEFINE lim == questionLimit(l, j)
             g == readingGrace(j)
  <2>2. /\ t = (IF 0 > (IF ms < lim THEN ms ELSE lim) - g THEN 0
                ELSE (IF ms < lim THEN ms ELSE lim) - g)
        /\ u = (IF 0 > (IF ns < lim THEN ns ELSE lim) - g THEN 0
                ELSE (IF ns < lim THEN ns ELSE lim) - g)
        /\ s = lim - g
    BY DEF Span, Late, AtLeast, AtMost
  <2> HIDE DEF lim, g, s, t, u
  <2> QED
    BY <2>1, <2>2 DEF lim, g
<1>3. /\ p \in Nat /\ 3 * base <= 5 * p /\ r \in Nat /\ r <= base
      /\ t = 0 => p = base
      /\ u = s => 5 * r = 3 * base
  BY SpeedPointsBetween
<1> HIDE DEF s, t, u, base
<1>4. CASE t < u
  <2>1. /\ base * (5 * s - 2 * t) \in Int /\ base * (5 * s - 2 * u) \in Int
        /\ base * (5 * s - 2 * u) < base * (5 * s - 2 * t)
        /\ 5 * s \in Nat \ {0}
    <3>1. CASE base = 500
      BY <1>1, <1>4, <3>1
    <3>2. CASE base = 750
      BY <1>1, <1>4, <3>2
    <3>3. CASE base = 1000
      BY <1>1, <1>4, <3>3
    <3> QED
      BY <1>1, <3>1, <3>2, <3>3
  <2> QED
    BY <1>1, <2>1, RoundedGrows
<1>5. CASE t = 0 \/ u = s
  BY <1>1, <1>3, <1>5
<1> QED
  BY <1>2, <1>4, <1>5

\* The bonus of a streak.
LEMMA BonusIsSmall ==
  ASSUME NEW s \in Nat
  PROVE  Bonus(s) \in 0..250
BY DEF Bonus, AtMost, streakBonus, maxStreakBonus

\* An answer in time earns at least 60% of the base and at most the base and
\* 250; one after the deadline earns nothing.
LEMMA ScoreBounds ==
  ASSUME NEW l \in Levels, NEW j \in Jenjangs, NEW exact \in BOOLEAN,
         NEW ms \in Nat, NEW s \in Nat, NEW p \in Score(l, j, exact, ms, s)
  PROVE  /\ p \in Nat
         /\ ms <= questionLimit(l, j) + networkGraceMs =>
              3 * basePoints[l] <= 5 * p /\ p <= basePoints[l] + 250
         /\ ms > questionLimit(l, j) + networkGraceMs => p = 0
<1> DEFINE last == questionLimit(l, j) + networkGraceMs
<1>1. /\ basePoints[l] \in {500, 750, 1000} /\ last \in Nat
      /\ Bonus(s) \in 0..250
  BY QuestionNumbers, BonusIsSmall DEF networkGraceMs
<1>2. CASE ms > last
  BY <1>1, <1>2 DEF Score
<1>3. CASE ~(ms > last)
  <2>1. PICK points \in IF exact THEN {basePoints[l]} ELSE SpeedPoints(l, j, ms) :
          p = points + Bonus(s)
    BY <1>3 DEF Score
  <2>2. points \in Nat /\ 3 * basePoints[l] <= 5 * points /\ points <= basePoints[l]
    <3>1. CASE exact
      BY <1>1, <2>1, <3>1
    <3>2. CASE ~exact
      BY <2>1, <3>2, SpeedPointsBetween
    <3> QED
      BY <3>1, <3>2
  <2> QED
    BY <1>1, <1>3, <2>1, <2>2
<1> QED
  BY <1>2, <1>3

\* With the same streak, a later answer to the same question never earns more.
LEMMA ScoreFalls ==
  ASSUME NEW l \in Levels, NEW j \in Jenjangs, NEW exact \in BOOLEAN,
         NEW ms \in Nat, NEW ns \in Nat, ms < ns, NEW s \in Nat,
         NEW now \in Score(l, j, exact, ms, s), NEW later \in Score(l, j, exact, ns, s)
  PROVE  later <= now
<1> DEFINE last == questionLimit(l, j) + networkGraceMs
<1>1. /\ basePoints[l] \in {500, 750, 1000} /\ last \in Nat
      /\ Bonus(s) \in 0..250
      /\ now \in Nat /\ later \in Nat
  BY QuestionNumbers, BonusIsSmall, ScoreBounds DEF networkGraceMs
<1>2. CASE ns > last
  <2>1. later = 0
    BY <1>2, ScoreBounds
  <2> QED
    BY <1>1, <2>1
<1>3. CASE ~(ns > last)
  <2>1. ~(ms > last)
    BY <1>1, <1>3
  <2>2. PICK p \in IF exact THEN {basePoints[l]} ELSE SpeedPoints(l, j, ms) :
          now = p + Bonus(s)
    BY <2>1 DEF Score
  <2>3. PICK r \in IF exact THEN {basePoints[l]} ELSE SpeedPoints(l, j, ns) :
          later = r + Bonus(s)
    BY <1>3 DEF Score
  <2>4. p \in Nat /\ r \in Nat /\ r <= p
    <3>1. CASE exact
      BY <1>1, <2>2, <2>3, <3>1
    <3>2. CASE ~exact
      BY <2>2, <2>3, <3>2, SpeedPointsBetween, SpeedPointsFall
    <3> QED
      BY <3>1, <3>2
  <2> QED
    BY <1>1, <2>2, <2>3, <2>4
<1> QED
  BY <1>2, <1>3

-----------------------------------------------------------------------------
(* The inductive invariant *)

\* Nothing is earned before the room is served; a question on air is the next
\* one; and the totals stay within what the questions settled are worth.
IInv ==
  /\ TypeOK
  /\ SelInv
  /\ answer # "playing" =>
       level = 0 /\ resolved = 0 /\ score = 0 /\ correct = 0 /\ streak = 0 /\ totalMs = 0
  /\ level # 0 =>
       answer = "playing" /\ resolved < NumQuestions /\ level = LevelOf(resolved + 1)
  /\ score <= SumOf(Worth, resolved) + 250 * correct
  /\ totalMs <= SumOf(Allotted, resolved)

\* The worth of a question and its time, and what several of them add up to.
LEMMA Sheet ==
  ASSUME SelInv
  PROVE  /\ NumQuestions \in Nat
         /\ \A k \in 1..NumQuestions :
              /\ LevelOf(k) \in Levels
              /\ Worth[k] = basePoints[LevelOf(k)]
              /\ Worth[k] \in Nat /\ Worth[k] <= 1000
              /\ Allotted[k] = questionLimit(LevelOf(k), jenjang)
              /\ Allotted[k] \in Nat /\ Allotted[k] <= 31250
         /\ \A n \in 0..NumQuestions :
              SumOf(Worth, n) \in Nat /\ SumOf(Allotted, n) \in Nat
<1> DEFINE Q == [bucket : Buckets, place : Nat]
<1>1. ids \in Seq(Q) /\ jenjang \in Jenjangs
  BY DEF SelInv, SelectorTypes
<1>2. ASSUME NEW k \in 1..NumQuestions
      PROVE  /\ LevelOf(k) \in Levels
             /\ Worth[k] = basePoints[LevelOf(k)]
             /\ Worth[k] \in Nat /\ Worth[k] <= 1000
             /\ Allotted[k] = questionLimit(LevelOf(k), jenjang)
             /\ Allotted[k] \in Nat /\ Allotted[k] <= 31250
  <2>1. ids[k] \in Q
    <3> HIDE DEF Q
    <3> QED
      BY <1>1 DEF NumQuestions
  <2>2. LevelOf(k) \in Levels
    BY <2>1 DEF LevelOf, Buckets
  <2>3. Worth[k] = basePoints[LevelOf(k)] /\ Allotted[k] = questionLimit(LevelOf(k), jenjang)
    BY DEF Worth, Allotted
  <2>4. basePoints[LevelOf(k)] \in {500, 750, 1000}
    BY <1>1, <2>2, QuestionNumbers
  <2>5. Worth[k] \in Nat /\ Worth[k] <= 1000
    BY <2>3, <2>4
  <2>6. Allotted[k] \in Nat /\ Allotted[k] <= 31250
    BY <1>1, <2>2, <2>3, QuestionNumbers
  <2> QED
    BY <2>2, <2>3, <2>5, <2>6
<1>3. NumQuestions \in Nat
  BY <1>1 DEF NumQuestions
<1>4. ASSUME NEW n \in 0..NumQuestions
      PROVE  SumOf(Worth, n) \in Nat /\ SumOf(Allotted, n) \in Nat
  <2>1. n \in Nat /\ \A k \in 1..n : Worth[k] \in Nat /\ Allotted[k] \in Nat
    BY <1>2, <1>3
  <2> QED
    BY <2>1, SumIsNatural
<1> QED
  BY <1>2, <1>3, <1>4

\* The selection is not touched once the room is served.
LEMMA SelectionStays ==
  ASSUME SelInv, UNCHANGED selection
  PROVE  /\ SelInv'
         /\ NumQuestions' = NumQuestions
         /\ \A k : LevelOf(k)' = LevelOf(k)
         /\ Worth' = Worth /\ Allotted' = Allotted
<1>1. UNCHANGED <<jenjang, short, bank, stage, cell, next, ids, answer>>
  BY DEF selection
<1>2. /\ PerSite' = PerSite
      /\ \A i : CellOf(i)' = CellOf(i)
      /\ \A b, n : Asking(b, n)' = Asking(b, n)
      /\ \A b : Demand(b)' = Demand(b)
  BY <1>1, CellsStay
<1>3. Asked(stage)' = Asked(stage)
  BY <1>1 DEF Asked
<1>4. SelectorTypes'
  BY <1>1, <1>3 DEF SelInv, SelectorTypes
<1>5. SelectedSoFar => SelectedSoFar'
  BY <1>1, <1>2 DEF SelectedSoFar
<1>6. SelectionIsExact'
  BY <1>1, <1>2 DEF SelInv, SelectionIsExact
<1>7. SelInv'
  BY <1>1, <1>2, <1>4, <1>5, <1>6 DEF SelInv
<1> QED
  BY <1>1, <1>7 DEF NumQuestions, LevelOf, Worth, Allotted

\* While the questions are selected there is nothing to add up.
LEMMA SelectKeepsIInv ==
  ASSUME IInv, Select
  PROVE  IInv'
<1>1. /\ Ask \/ Refuse
      /\ UNCHANGED <<accuracy, restored, score, correct, streak, totalMs, resolved,
                     level, elapsed>>
      /\ answer = "none"
  BY DEF Select, SelectNext, Ask, Refuse, totals
<1>2. SelInv'
  BY <1>1, AskKeepsSelInv, RefuseKeepsSelInv DEF IInv
<1>3. /\ level = 0 /\ resolved = 0 /\ score = 0 /\ correct = 0 /\ streak = 0 /\ totalMs = 0
      /\ accuracy \in BOOLEAN /\ elapsed \in Nat
  BY <1>1 DEF IInv, TypeOK
<1>4. NumQuestions' \in Nat
  BY <1>2 DEF NumQuestions, SelInv, SelectorTypes
<1>5. TypeOK'
  BY <1>1, <1>2, <1>3, <1>4 DEF TypeOK, SelInv
<1>6. SumOf(Worth, resolved)' = 0 /\ SumOf(Allotted, resolved)' = 0
  BY <1>1, <1>3, SumOfNone
<1> QED
  BY <1>1, <1>2, <1>3, <1>5, <1>6 DEF IInv

\* A row that is brought back is worth what its answers earned.
LEMMA AddPlayerKeepsIInv ==
  ASSUME IInv, AddPlayer
  PROVE  IInv'
<1> DEFINE n == restored'
           earned == [k \in 1..NumQuestions |-> Worth[k] + Bonus(k - 1)]
<1>1. /\ Keep /\ answer' = "playing" /\ UNCHANGED <<accuracy, level, elapsed>>
      /\ n \in 0..NumQuestions /\ resolved' = n
      /\ \/ score' = SumOf(earned, n) /\ correct' = n /\ streak' = n /\ totalMs' = 0
         \/ UNCHANGED <<score, correct, streak>> /\ totalMs' = SumOf(Allotted, n)
  BY DEF AddPlayer, Keep
<1>2. /\ SelInv /\ level = 0 /\ score = 0 /\ correct = 0 /\ streak = 0
      /\ accuracy \in BOOLEAN /\ elapsed \in Nat
  BY DEF IInv, TypeOK, AddPlayer, Keep
<1>3. SelInv'
  BY <1>1, <1>2, KeepKeepsSelInv
<1>4. NumQuestions' = NumQuestions /\ Worth' = Worth /\ Allotted' = Allotted
  BY <1>1 DEF Keep, NumQuestions, LevelOf, Worth, Allotted
<1> HIDE DEF n
<1>5. /\ NumQuestions \in Nat /\ n \in Nat
      /\ SumOf(Worth, n) \in Nat /\ SumOf(Allotted, n) \in Nat
  BY <1>1, <1>2, Sheet
<1>6. \A k \in 1..n : /\ Worth[k] \in Nat /\ earned[k] \in Nat
                      /\ earned[k] <= Worth[k] + 250
  <2> SUFFICES ASSUME NEW k \in 1..n
               PROVE  /\ Worth[k] \in Nat /\ earned[k] \in Nat
                      /\ earned[k] <= Worth[k] + 250
    OBVIOUS
  <2>1. k \in 1..NumQuestions /\ k - 1 \in Nat
    BY <1>1, <1>5
  <2> DEFINE e == earned[k]
             w == Worth[k]
             b == Bonus(k - 1)
  <2>2. w \in Nat
    BY <1>2, <2>1, Sheet
  <2>3. b \in 0..250
    BY <2>1, BonusIsSmall
  <2>4. e = w + b
    BY <2>1
  <2> HIDE DEF e, w, b
  <2>5. e \in Nat /\ e <= w + 250
    BY <2>2, <2>3, <2>4
  <2> QED
    BY <2>2, <2>5 DEF e, w
<1> HIDE DEF earned
<1>7. SumOf(earned, n) \in Nat /\ SumOf(earned, n) <= SumOf(Worth, n) + 250 * n
  <2>1. n \in Nat /\ 250 \in Nat
    BY <1>5
  <2>2. /\ \A k \in 1..n : earned[k] \in Nat
        /\ \A k \in 1..n : Worth[k] \in Nat
        /\ \A k \in 1..n : earned[k] <= Worth[k] + 250
    BY <1>6
  <2>3. SumOf(earned, n) \in Nat
    BY <2>1, <2>2, SumIsNatural
  <2>4. SumOf(earned, n) <= SumOf(Worth, n) + 250 * n
    BY <2>1, <2>2, SumsCompare
  <2> QED
    BY <2>3, <2>4
<1>8. /\ score' \in Nat /\ totalMs' \in Nat /\ correct' \in 0..n /\ streak' \in 0..correct'
      /\ score' <= SumOf(Worth, n) + 250 * correct'
      /\ totalMs' <= SumOf(Allotted, n)
  BY <1>1, <1>2, <1>5, <1>7
<1>9. TypeOK'
  BY <1>1, <1>2, <1>3, <1>4, <1>8 DEF TypeOK, SelInv
<1> QED
  BY <1>1, <1>2, <1>3, <1>4, <1>8, <1>9 DEF IInv

\* A question is served, or time passes while it is on air.
LEMMA ServeKeepsIInv ==
  ASSUME IInv, Serve \/ Wait
  PROVE  IInv'
<1>1. /\ SelInv /\ UNCHANGED selection
      /\ UNCHANGED <<accuracy, score, correct, streak, totalMs, resolved>>
  BY DEF IInv, Serve, Wait, totals
<1>2. /\ SelInv' /\ NumQuestions' = NumQuestions /\ Worth' = Worth /\ Allotted' = Allotted
      /\ \A k : LevelOf(k)' = LevelOf(k)
      /\ UNCHANGED answer
  BY <1>1, SelectionStays DEF selection
<1>3. /\ level' \in Levels \cup {0} /\ elapsed' \in Nat
      /\ level' # 0 =>
           answer = "playing" /\ resolved < NumQuestions /\ level' = LevelOf(resolved + 1)
      /\ answer # "playing" => level' = 0
  <2>1. CASE Serve
    <3>1. /\ answer = "playing" /\ resolved < NumQuestions /\ resolved \in 0..NumQuestions
          /\ level' = LevelOf(resolved + 1) /\ elapsed' = 0
      BY <2>1 DEF Serve, IInv, TypeOK
    <3>2. resolved + 1 \in 1..NumQuestions
      BY <1>1, <3>1, Sheet
    <3> QED
      BY <1>1, <3>1, <3>2, Sheet
  <2>2. CASE Wait
    <3>1. /\ level # 0 /\ UNCHANGED level
          /\ elapsed' = IF elapsed < deadline THEN AtMost(elapsed + Step, deadline)
                        ELSE deadline + 1
      BY <2>2 DEF Wait
    <3>2. elapsed \in Nat /\ level \in Levels \cup {0} /\ jenjang \in Jenjangs
      BY <1>1 DEF IInv, TypeOK, SelInv, SelectorTypes
    <3>3. deadline \in Nat /\ Step \in Nat
      BY <3>1, <3>2, QuestionNumbers, ScoringAssumption DEF deadline, limit, networkGraceMs
    <3>4. elapsed' \in Nat
      BY <3>1, <3>2, <3>3 DEF AtMost
    <3> QED
      BY <3>1, <3>2, <3>4 DEF IInv
  <2> QED
    BY <2>1, <2>2
<1>4. TypeOK'
  BY <1>1, <1>2, <1>3 DEF IInv, TypeOK, SelInv
<1> QED
  BY <1>1, <1>2, <1>3, <1>4 DEF IInv

\* A question that is settled, for points that its base and a bonus cover and
\* in time that it allows.
LEMMA SettlingKeepsIInv ==
  ASSUME IInv, level # 0, NEW points \in Nat, NEW spent \in Nat, spent <= limit,
         score' = score + points, totalMs' = totalMs + spent, resolved' = resolved + 1,
         \/ /\ correct' = correct + 1 /\ streak' = streak + 1
            /\ points <= basePoints[level] + 250
         \/ /\ correct' = correct /\ streak' = 0
            /\ points = 0,
         level' = 0, elapsed' = 0, UNCHANGED <<selection, accuracy>>
  PROVE  IInv'
<1>1. /\ answer = "playing" /\ resolved < NumQuestions /\ level = LevelOf(resolved + 1)
      /\ score \in Nat /\ totalMs \in Nat /\ resolved \in 0..NumQuestions
      /\ correct \in 0..resolved /\ streak \in 0..correct /\ accuracy \in BOOLEAN
      /\ score <= SumOf(Worth, resolved) + 250 * correct
      /\ totalMs <= SumOf(Allotted, resolved)
      /\ SelInv
  BY DEF IInv, TypeOK
<1>2. /\ SelInv' /\ NumQuestions' = NumQuestions /\ Worth' = Worth /\ Allotted' = Allotted
      /\ UNCHANGED answer
  BY <1>1, SelectionStays DEF selection
<1>3. /\ NumQuestions \in Nat /\ resolved \in Nat
      /\ resolved + 1 \in 1..NumQuestions
      /\ SumOf(Worth, resolved) \in Nat /\ SumOf(Allotted, resolved) \in Nat
  BY <1>1, Sheet
<1>4. /\ Worth[resolved + 1] = basePoints[level] /\ Worth[resolved + 1] \in Nat
      /\ Allotted[resolved + 1] = limit /\ Allotted[resolved + 1] \in Nat
  BY <1>1, <1>3, Sheet DEF limit
<1>5. /\ SumOf(Worth, resolved + 1) = SumOf(Worth, resolved) + Worth[resolved + 1]
      /\ SumOf(Allotted, resolved + 1) = SumOf(Allotted, resolved) + Allotted[resolved + 1]
  BY <1>3, SumOfNext
<1>6. /\ score' \in Nat /\ totalMs' \in Nat /\ resolved' \in 0..NumQuestions
      /\ correct' \in 0..resolved' /\ streak' \in 0..correct'
  BY <1>1, <1>3
<1>7. score' <= SumOf(Worth, resolved + 1) + 250 * correct'
  BY <1>1, <1>3, <1>4, <1>5
<1>8. totalMs' <= SumOf(Allotted, resolved + 1)
  BY <1>1, <1>3, <1>4, <1>5
<1>9. TypeOK'
  BY <1>1, <1>2, <1>6 DEF TypeOK, SelInv
<1> QED
  BY <1>1, <1>2, <1>7, <1>8, <1>9 DEF IInv

\* How a question is settled: a right answer earns what Score gives it in
\* time, everything else nothing.
LEMMA SettlingStep ==
  ASSUME IInv, AnswerRight \/ AnswerWrong \/ TimeOut
  PROVE  /\ level # 0 /\ level' = 0 /\ elapsed' = 0 /\ UNCHANGED <<selection, accuracy>>
         /\ level \in Levels
         /\ \E points \in Nat, spent \in Nat :
              /\ spent <= limit
              /\ score' = score + points /\ totalMs' = totalMs + spent
              /\ resolved' = resolved + 1
              /\ \/ /\ correct' = correct + 1 /\ streak' = streak + 1
                    /\ 3 * basePoints[level] <= 5 * points
                    /\ points <= basePoints[level] + 250
                 \/ /\ correct' = correct /\ streak' = 0
                    /\ points = 0
<1>1. /\ level # 0 /\ level \in Levels /\ jenjang \in Jenjangs /\ elapsed \in Nat
      /\ accuracy \in BOOLEAN /\ streak \in Nat
  <2>1. level # 0
    BY DEF AnswerRight, AnswerWrong, TimeOut
  <2>2. /\ level \in Levels \cup {0} /\ elapsed \in Nat /\ accuracy \in BOOLEAN
        /\ resolved \in 0..NumQuestions /\ correct \in 0..resolved /\ streak \in 0..correct
    BY DEF IInv, TypeOK
  <2>3. jenjang \in Jenjangs
    BY DEF IInv, SelInv, SelectorTypes
  <2>4. streak \in Nat
    BY <2>2
  <2> QED
    BY <2>1, <2>2, <2>3, <2>4
<1>2. limit \in Nat /\ Spent \in Nat /\ Spent <= limit /\ limit <= limit
  <2>1. limit \in Nat
    BY <1>1, QuestionNumbers DEF limit
  <2> QED
    BY <1>1, <2>1 DEF Spent, AtMost
<1>3. CASE AnswerRight
  <2>1. PICK points \in Score(level, jenjang, accuracy, elapsed, streak) :
          Resolve(TRUE, points, Spent)
    BY <1>3 DEF AnswerRight
  <2>2. elapsed <= questionLimit(level, jenjang) + networkGraceMs
    BY <1>3 DEF AnswerRight, deadline, limit
  <2>3. /\ points \in Nat
        /\ 3 * basePoints[level] <= 5 * points /\ points <= basePoints[level] + 250
    BY <1>1, <2>2, ScoreBounds
  <2>4. /\ score' = score + points /\ totalMs' = totalMs + Spent
        /\ resolved' = resolved + 1 /\ streak' = streak + 1 /\ correct' = correct + 1
        /\ level' = 0 /\ elapsed' = 0 /\ UNCHANGED <<selection, accuracy>>
    BY <2>1 DEF Resolve
  <2> QED
    BY <1>1, <1>2, <2>3, <2>4
<1>4. ASSUME NEW spent \in {Spent, limit}, Resolve(FALSE, 0, spent)
      PROVE  /\ score' = score + 0 /\ totalMs' = totalMs + spent
             /\ resolved' = resolved + 1 /\ streak' = 0 /\ correct' = correct
             /\ level' = 0 /\ elapsed' = 0 /\ UNCHANGED <<selection, accuracy>>
  BY <1>4 DEF Resolve
<1>5. CASE AnswerWrong \/ TimeOut
  <2>1. PICK spent \in {Spent, limit} : Resolve(FALSE, 0, spent)
    BY <1>5 DEF AnswerWrong, TimeOut
  <2> QED
    BY <1>1, <1>2, <1>4, <2>1
<1> QED
  BY <1>3, <1>5

\* Nothing is selected and nothing earned.
LEMMA InitIInv == Init => IInv
<1> SUFFICES ASSUME Init PROVE IInv
  OBVIOUS
<1>1. SelInv /\ answer = "none"
  BY SelectInitSelInv DEF Init, SelectInit
<1>2. SumOf(Worth, 0) = 0 /\ SumOf(Allotted, 0) = 0
  BY SumOfNone
<1>3. NumQuestions \in Nat
  BY <1>1, Sheet
<1> QED
  BY <1>1, <1>2, <1>3 DEF Init, IInv, TypeOK, SelInv

\* Every step keeps it, action by action.
LEMMA NextIInv == IInv /\ [Next]_vars => IInv'
<1> SUFFICES ASSUME IInv, [Next]_vars PROVE IInv'
  OBVIOUS
<1>1. CASE Select
  BY <1>1, SelectKeepsIInv
<1>2. CASE AddPlayer
  BY <1>2, AddPlayerKeepsIInv
<1>3. CASE Serve \/ Wait
  BY <1>3, ServeKeepsIInv
<1>4. CASE AnswerRight \/ AnswerWrong \/ TimeOut
  <2>1. /\ level # 0 /\ level' = 0 /\ elapsed' = 0 /\ UNCHANGED <<selection, accuracy>>
    BY <1>4, SettlingStep
  <2>2. PICK points \in Nat, spent \in Nat :
          /\ spent <= limit
          /\ score' = score + points /\ totalMs' = totalMs + spent
          /\ resolved' = resolved + 1
          /\ \/ /\ correct' = correct + 1 /\ streak' = streak + 1
                /\ points <= basePoints[level] + 250
             \/ /\ correct' = correct /\ streak' = 0
                /\ points = 0
    BY <1>4, SettlingStep
  <2> QED
    BY <2>1, <2>2, SettlingKeepsIInv
<1>5. CASE UNCHANGED vars
  <2>1. UNCHANGED <<selection, accuracy, score, correct, streak, totalMs, resolved, level,
                    elapsed>>
    BY <1>5 DEF vars, totals
  <2>2. SelInv' /\ NumQuestions' = NumQuestions /\ Worth' = Worth /\ Allotted' = Allotted
        /\ \A k : LevelOf(k)' = LevelOf(k)
    BY <2>1, SelectionStays DEF IInv
  <2>3. UNCHANGED answer
    BY <2>1 DEF selection
  <2> QED
    BY <2>1, <2>2, <2>3 DEF IInv, TypeOK, SelInv
<1> QED
  BY <1>1, <1>2, <1>3, <1>4, <1>5 DEF Next

\* Everything below rests on this.
THEOREM Invariance == Spec => []IInv
BY InitIInv, NextIInv, PTL DEF Spec

-----------------------------------------------------------------------------
(* What a session promises *)

\* Every variable of the selection, of the player and of the question on air
\* keeps its type, in every bank.
THEOREM TypeCorrect == Spec => []TypeOK
<1>1. IInv => TypeOK
  BY DEF IInv
<1> QED
  BY <1>1, Invariance, PTL

\* SelectQuestions returns the composition's questions, all different and all
\* in the bank, and refuses only a bank that lacks some bucket's demand.
THEOREM SelectionsAreExact == Spec => []SelectionIsExact
<1>1. IInv => SelectionIsExact
  BY DEF IInv, SelInv
<1> QED
  BY <1>1, Invariance, PTL

\* At most fifteen questions are settled.
LEMMA ResolvedBound ==
  ASSUME IInv
  PROVE  /\ resolved \in 0..15 /\ correct \in 0..resolved /\ streak \in 0..correct
         /\ resolved \in 0..NumQuestions
<1>1. /\ resolved \in 0..NumQuestions /\ correct \in 0..resolved /\ streak \in 0..correct
      /\ answer # "playing" => resolved = 0
      /\ SelInv
  BY DEF IInv, TypeOK
<1>2. answer = "playing" => NumQuestions = 5 * PerSite
  BY <1>1 DEF SelInv, NumQuestions
<1>3. PerSite \in {2, 3}
  BY <1>1, AskedCells DEF SelInv, SelectorTypes, Sites
<1> QED
  BY <1>1, <1>2, <1>3

\* What the settled questions are worth, and allow, is bounded by their number.
LEMMA SessionBounds ==
  ASSUME IInv
  PROVE  /\ score \in Nat /\ score <= 18750 /\ totalMs \in Nat /\ totalMs <= 468750
         /\ correct \in 0..15 /\ streak \in 0..15 /\ resolved \in 0..15
<1>1. /\ resolved \in 0..15 /\ correct \in 0..resolved /\ streak \in 0..correct
      /\ resolved \in 0..NumQuestions
  BY ResolvedBound
<1>2. /\ score \in Nat /\ totalMs \in Nat /\ SelInv
      /\ score <= SumOf(Worth, resolved) + 250 * correct
      /\ totalMs <= SumOf(Allotted, resolved)
  BY DEF IInv, TypeOK
<1>3. /\ resolved \in Nat
      /\ \A k \in 1..resolved : /\ Worth[k] \in Nat /\ Worth[k] <= 1000
                                /\ Allotted[k] \in Nat /\ Allotted[k] <= 31250
      /\ SumOf(Worth, resolved) \in Nat /\ SumOf(Allotted, resolved) \in Nat
  <2>1. \A k \in 1..resolved : k \in 1..NumQuestions
    BY <1>1, <1>2, Sheet
  <2> QED
    BY <1>1, <1>2, <2>1, Sheet
<1>4. SumOf(Worth, resolved) <= 1000 * resolved
  BY <1>3, SumIsBounded
<1>5. SumOf(Allotted, resolved) <= 31250 * resolved
  BY <1>3, SumIsBounded
<1>6. score <= 18750 /\ totalMs <= 468750
  BY SMT, <1>1, <1>2, <1>3, <1>4, <1>5
<1> QED
  BY SMT, <1>1, <1>2, <1>6

\* The totals fit the columns of the store and the places of the ranking key:
\* fifteen questions allow 468 750 ms and earn no more than 18 750 points.
THEOREM TotalsAlwaysFit == Spec => []TotalsFit
<1>1. ASSUME IInv
      PROVE  TotalsFit
  <2>1. /\ score \in Nat /\ score <= 18750 /\ totalMs \in Nat /\ totalMs <= 468750
        /\ correct \in 0..15 /\ streak \in 0..15 /\ resolved \in 0..15
    BY SMT, <1>1, SessionBounds
  <2>2. /\ score <= SumOf(Worth, resolved) + 250 * correct
        /\ totalMs <= SumOf(Allotted, resolved)
    BY SMT, <1>1 DEF IInv, TypeOK
  <2>3. ASSUME NEW v \in Nat, v <= 470000
        PROVE  toInt32(v) = v
    BY SMT, <2>3 DEF toInt32, AtMost, AtLeast
  <2>4. ASSUME NEW v \in Nat, v <= 15
        PROVE  toInt16(v) = v
    BY SMT, <2>4 DEF toInt16, AtMost, AtLeast
  <2>5. toInt32(score) = score /\ toInt32(totalMs) = totalMs
    BY SMT, <2>1, <2>3
  <2>6. toInt16(correct) = correct /\ toInt16(streak) = streak /\ toInt16(resolved) = resolved
    BY SMT, <2>1, <2>4
  <2> QED
    BY SMT, <2>1, <2>2, <2>5, <2>6 DEF TotalsFit
<1> QED
  BY <1>1, Invariance, PTL

\* The ranking key with the units of rank.go.
R == INSTANCE Rank WITH ScoreUnit <- 100000000, CorrectUnit <- 1000000, MaxCorrect <- 99

\* What the player is ranked by, and what another session of at most as many
\* questions can reach.
mine == [score |-> score, correct |-> correct, totalMs |-> totalMs]
Reachable ==
  {s \in R!Standing : s.score <= 18750 /\ s.correct <= 15 /\ s.totalMs <= 468750}

\* Just below 2^53.
ExactLimit == 90071992 * 100000000

\* The key of a session is exact in a float64, and is above the key of any
\* other session if and only if the player ranks above its player.
KeyIsFaithful ==
  /\ mine \in Reachable
  /\ R!Key(mine) \in Nat /\ R!Key(mine) < ExactLimit
  /\ \A s \in Reachable : R!Key(mine) > R!Key(s) <=> R!Better(mine, s)

LEMMA KeyOfReachable ==
  ASSUME NEW s \in Reachable
  PROVE  /\ s.score \in Nat /\ s.score <= 18750
         /\ s.correct \in Nat /\ s.correct <= 15
         /\ s.totalMs \in Nat /\ s.totalMs <= 468750
         /\ R!Key(s) = s.score * 100000000 + s.correct * 1000000 + (999999 - s.totalMs)
<1>1. /\ s.score \in Nat /\ s.score <= 18750
      /\ s.correct \in Nat /\ s.correct <= 15
      /\ s.totalMs \in Nat /\ s.totalMs <= 468750
  BY SMT DEF Reachable, R!Standing
<1>2. R!maxTotalMs = 999999
  BY SMT DEF R!maxTotalMs
<1> QED
  BY SMT, <1>1, <1>2 DEF R!Key

\* What a session earns and spends is bounded so that Redis ranks the players
\* as the final results do: nothing of the score, the right answers or the
\* time spills into the place of another.
THEOREM SessionsRankByKey == Spec => []KeyIsFaithful
<1>1. ASSUME IInv
      PROVE  KeyIsFaithful
  <2>1. mine \in Reachable
    BY SMT, <1>1, SessionBounds DEF mine, Reachable, R!Standing
  <2>2. R!Key(mine) \in Nat /\ R!Key(mine) < ExactLimit
    BY SMT, <2>1, KeyOfReachable DEF ExactLimit
  <2>3. ASSUME NEW s \in Reachable
        PROVE  R!Key(mine) > R!Key(s) <=> R!Better(mine, s)
    BY SMT, <2>1, <2>3, KeyOfReachable DEF R!Better
  <2> QED
    BY SMT, <2>1, <2>2, <2>3 DEF KeyIsFaithful
<1> QED
  BY <1>1, Invariance, PTL

\* A step that leaves a question on air only lets time pass, and Score, which
\* is all that time enters, falls with it: under every rounding.
THEOREM SlowerNeverEarnsMore == Spec => SlowerEarnsNoMore
<1> DEFINE Falls == level # 0 /\ level' = level =>
              \A now \in Score(level, jenjang, accuracy, elapsed, streak),
                 later \in Score(level, jenjang, accuracy, elapsed', streak) : later <= now
<1>1. ASSUME IInv, Next, level # 0, level' = level
      PROVE  /\ elapsed \in Nat /\ elapsed' \in Nat /\ elapsed < elapsed'
             /\ level \in Levels /\ jenjang \in Jenjangs
             /\ accuracy \in BOOLEAN /\ streak \in Nat
  <2>1. Wait
    <3>1. ~Select /\ ~AddPlayer
      BY <1>1 DEF IInv, Select, SelectNext, Ask, Refuse, AddPlayer, Keep
    <3>2. ~Serve
      BY <1>1 DEF Serve
    <3>3. ~(AnswerRight \/ AnswerWrong \/ TimeOut)
      BY <1>1, SettlingStep
    <3> QED
      BY <1>1, <3>1, <3>2, <3>3 DEF Next
  <2>2. /\ elapsed \in Nat /\ level \in Levels \cup {0} /\ accuracy \in BOOLEAN
        /\ resolved \in 0..NumQuestions /\ correct \in 0..resolved /\ streak \in 0..correct
    BY <1>1 DEF IInv, TypeOK
  <2>3. jenjang \in Jenjangs
    BY <1>1 DEF IInv, SelInv, SelectorTypes
  <2>4. deadline \in Nat /\ Step \in Nat /\ Step > 0
    BY <1>1, <2>2, <2>3, QuestionNumbers, ScoringAssumption DEF deadline, limit, networkGraceMs
  <2>5. /\ elapsed <= deadline
        /\ elapsed' = IF elapsed < deadline THEN AtMost(elapsed + Step, deadline)
                      ELSE deadline + 1
    BY <2>1 DEF Wait
  <2>6. elapsed' \in Nat /\ elapsed < elapsed'
    <3> HIDE DEF deadline
    <3> QED
      BY <2>2, <2>4, <2>5 DEF AtMost
  <2>7. streak \in Nat
    BY <2>2
  <2> QED
    BY <1>1, <2>2, <2>3, <2>6, <2>7
<1>2. IInv /\ Next => Falls
  <2> SUFFICES ASSUME IInv, Next, level # 0, level' = level,
                      NEW now \in Score(level, jenjang, accuracy, elapsed, streak),
                      NEW later \in Score(level, jenjang, accuracy, elapsed', streak)
               PROVE  later <= now
    OBVIOUS
  <2> QED
    BY <1>1, ScoreFalls
<1>3. IInv /\ [Next]_vars => [Falls]_vars
  BY <1>2
<1> QED
  BY <1>3, Invariance, PTL DEF Spec, SlowerEarnsNoMore

\* outcomeOf counts an answer as correct exactly where Score pays it, at least
\* 60% of the base and at most 1250 points: the two deadlines are the same.
THEOREM CorrectAlwaysMeansPoints == Spec => CorrectMeansPoints
<1> DEFINE Pays == level # 0 /\ resolved' = resolved + 1 =>
              LET gain == score' - score IN
              \/ correct' = correct + 1 /\ 5 * gain >= 3 * basePoints[level] /\ gain <= 1250
              \/ correct' = correct /\ gain = 0 /\ streak' = 0
<1>1. ASSUME IInv, Next, level # 0, resolved' = resolved + 1
      PROVE  AnswerRight \/ AnswerWrong \/ TimeOut
  <2>1. ~Select /\ ~AddPlayer
    BY <1>1 DEF IInv, Select, SelectNext, Ask, Refuse, AddPlayer, Keep
  <2>2. ~Serve /\ ~Wait
    <3>1. resolved \in Int
      BY <1>1 DEF IInv, TypeOK
    <3> QED
      BY <1>1, <3>1 DEF Serve, Wait, totals
  <2> QED
    BY <1>1, <2>1, <2>2 DEF Next
<1>2. ASSUME IInv, Next, level # 0, resolved' = resolved + 1
      PROVE  \/ /\ correct' = correct + 1 /\ 5 * (score' - score) >= 3 * basePoints[level]
                /\ score' - score <= 1250
             \/ correct' = correct /\ score' - score = 0 /\ streak' = 0
  <2>1. AnswerRight \/ AnswerWrong \/ TimeOut
    BY <1>1, <1>2
  <2>2. level \in Levels
    BY <1>2, <2>1, SettlingStep
  <2>3. PICK points \in Nat :
          /\ score' = score + points
          /\ \/ /\ correct' = correct + 1 /\ streak' = streak + 1
                /\ 3 * basePoints[level] <= 5 * points
                /\ points <= basePoints[level] + 250
             \/ /\ correct' = correct /\ streak' = 0
                /\ points = 0
    BY <1>2, <2>1, SettlingStep
  <2>4. basePoints[level] \in {500, 750, 1000} /\ score \in Nat
    BY <1>2, <2>2, QuestionNumbers DEF IInv, TypeOK, Jenjangs
  <2>5. score' - score = points
    BY <2>3, <2>4
  <2> QED
    BY <2>3, <2>4, <2>5
<1>3. IInv /\ Next => Pays
  BY <1>2
<1>4. IInv /\ [Next]_vars => [Pays]_vars
  BY <1>3
<1> QED
  BY <1>4, Invariance, PTL DEF Spec, CorrectMeansPoints

=============================================================================
