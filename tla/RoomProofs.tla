----------------------------- MODULE RoomProofs -----------------------------
(***************************************************************************)
(* What Room guarantees for every set of players and of overtaken          *)
(* handlers, number of questions, awards, answer window, session length    *)
(* and set of store outcomes.                                              *)
(***************************************************************************)
EXTENDS Room, SumsProofs, TLAPS

-----------------------------------------------------------------------------
(* The inductive invariant *)

\* A question is on air only for a player of a running room, and it is the one
\* after those resolved.
OnAirIsNext ==
  \A p \in Players : shown[p] # NoQuestion =>
    status = "running" /\ p \in members /\ shown[p] = mem[p].resolved + 1

\* Without a row nothing is recorded; outside the room nothing is remembered.
AbsentIsBlank ==
  \A p \in Players :
    /\ p \notin rows => progress[p] = ZeroProgress /\ answers[p] = NothingRecorded
                        /\ acked[p] = NothingRecorded
    /\ p \notin members => mem[p] = ZeroProgress

\* started_at is written with the status.
StartIsDated ==
  /\ dbStatus = "lobby" => dbAge = NotStarted
  /\ dbStatus = "running" => dbAge # NotStarted

\* What an overtaken handler has read was so: the row once ran, and the
\* players are where they once were.
ReadIsPast ==
  \A g \in Loaders :
    /\ get[g].status = "running" => dbAge # NotStarted
    /\ \A p \in get[g].rows \cap rows : IsPast(get[g].progress[p], p)
    /\ \A p \in Players \ get[g].rows : get[g].progress[p] = ZeroProgress

\* An id is used once.
FreshIsUnused ==
  /\ fresh \cap (rows \cup members \cup joining) = {}
  /\ \A g \in Loaders : fresh \cap get[g].rows = {}

\* The properties the runs check, and what makes them inductive.
IInv ==
  /\ TypeOK
  /\ AnswersInOrder
  /\ TotalsMatchAnswers
  /\ MemoryIsThePast
  /\ AcknowledgedIsDurable
  /\ TimerTracksSession
  /\ StartIsDated
  /\ ReadIsPast
  /\ OnAirIsNext
  /\ AbsentIsBlank
  /\ FreshIsUnused

-----------------------------------------------------------------------------
(* Totals of answers *)

\* The streak after n answers is the last place of a tally of ones that starts
\* again at every answer without points.
LEMMA StreakIsTally ==
  ASSUME NEW a, NEW n \in Nat
  PROVE  \E g : /\ IsTally(g, n, {k \in 1..n : a[k] = 0}, [k \in 1..n |-> 1])
                /\ StreakOf(a, n) = g[n]
<1> DEFINE Z == {k \in 1..n : a[k] = 0}
           one == [k \in 1..n |-> 1]
           E(g) == g = [k \in 0..n |-> IF k = 0 \/ a[k] = 0 THEN 0 ELSE g[k - 1] + 1]
<1>1. PICK g : IsTally(g, n, Z, one)
  BY TallyExists
<1>2. \A h : E(h) <=> IsTally(h, n, Z, one)
  <2> TAKE h
  <2>1. ASSUME NEW k \in 0..n
        PROVE  (IF k = 0 \/ a[k] = 0 THEN 0 ELSE h[k - 1] + 1)
                 = IF k = 0 \/ k \in Z THEN 0 ELSE h[k - 1] + one[k]
    OBVIOUS
  <2> HIDE DEF Z, one
  <2> QED
    BY <2>1, Zenon DEF IsTally
<1>3. StreakOf(a, n) = (CHOOSE h : E(h))[n]
  BY Zenon DEF StreakOf
<1> HIDE DEF E, Z, one
<1>4. E(CHOOSE h : E(h))
  BY <1>1, <1>2, Zenon
<1>5. IsTally(CHOOSE h : E(h), n, Z, one)
  BY <1>2, <1>4, Zenon
<1> QED
  BY <1>3, <1>5, Zenon DEF Z, one

\* No answers, no streak.
LEMMA StreakOfNone ==
  ASSUME NEW a
  PROVE  StreakOf(a, 0) = 0
<1>1. PICK g : /\ IsTally(g, 0, {k \in 1..0 : a[k] = 0}, [k \in 1..0 |-> 1])
               /\ StreakOf(a, 0) = g[0]
  BY StreakIsTally
<1> QED
  BY <1>1 DEF IsTally

\* The streak depends on the answers up to its last one alone.
LEMMA StreaksAgree ==
  ASSUME NEW a, NEW b, NEW n \in Nat, \A k \in 1..n : a[k] = b[k]
  PROVE  StreakOf(a, n) = StreakOf(b, n)
<1> DEFINE Z(c) == {k \in 1..n : c[k] = 0}
           one == [k \in 1..n |-> 1]
<1>1. PICK g : IsTally(g, n, Z(a), one) /\ StreakOf(a, n) = g[n]
  BY StreakIsTally
<1>2. PICK h : IsTally(h, n, Z(b), one) /\ StreakOf(b, n) = h[n]
  BY StreakIsTally
<1>3. \A k \in 1..n : one[k] = one[k] /\ (k \in Z(a) <=> k \in Z(b))
  OBVIOUS
<1> HIDE DEF Z, one
<1>4. g[n] = h[n]
  BY <1>1, <1>2, <1>3, TalliesAgree
<1> QED
  BY <1>1, <1>2, <1>4

\* One answer more: a streak goes on, or ends.
LEMMA StreakOfNext ==
  ASSUME NEW a, NEW n \in Nat
  PROVE  StreakOf(a, n + 1) = IF a[n + 1] = 0 THEN 0 ELSE StreakOf(a, n) + 1
<1> DEFINE Z(m) == {k \in 1..m : a[k] = 0}
           one(m) == [k \in 1..m |-> 1]
<1>1. PICK g : IsTally(g, n, Z(n), one(n)) /\ StreakOf(a, n) = g[n]
  BY StreakIsTally
<1>2. PICK h : IsTally(h, n + 1, Z(n + 1), one(n + 1)) /\ StreakOf(a, n + 1) = h[n + 1]
  <2>1. n + 1 \in Nat
    OBVIOUS
  <2> QED
    BY <2>1, StreakIsTally
<1>3. \A k \in 1..n : one(n)[k] = one(n + 1)[k] /\ (k \in Z(n) <=> k \in Z(n + 1))
  OBVIOUS
<1>4. n + 1 \in Z(n + 1) <=> a[n + 1] = 0
  OBVIOUS
<1>5. one(n + 1)[n + 1] = 1
  OBVIOUS
<1> HIDE DEF Z, one
<1>6. g[n] = h[n]
  BY <1>1, <1>2, <1>3, TalliesAgree
<1>7. h[n + 1] = IF n + 1 \in Z(n + 1) THEN 0 ELSE h[n] + one(n + 1)[n + 1]
  <2>1. n + 1 \in 0..(n + 1) /\ n + 1 # 0 /\ (n + 1) - 1 = n
    OBVIOUS
  <2> QED
    BY <1>2, <2>1 DEF IsTally
<1> QED
  BY <1>1, <1>2, <1>4, <1>5, <1>6, <1>7

\* No answers add up to nothing.
LEMMA NothingAddsUp ==
  ASSUME NEW a
  PROVE  AddsUp(ZeroProgress, a)
BY SumOfNone, StreakOfNone DEF AddsUp, ZeroProgress

\* Totals depend on the answers they count alone.
LEMMA AddsUpAgrees ==
  ASSUME NEW r \in Progress, NEW a, NEW b, \A k \in 1..r.resolved : a[k] = b[k],
         AddsUp(r, a)
  PROVE  AddsUp(r, b)
<1> DEFINE n == r.resolved
<1>1. n \in Nat
  BY DEF Progress
<1>2. SumOf(a, n) = SumOf(b, n) /\ StreakOf(a, n) = StreakOf(b, n)
  <2>1. \A k \in 1..n : a[k] = b[k]
    OBVIOUS
  <2> HIDE DEF n
  <2> QED
    BY <1>1, <2>1, SumsAgree, StreaksAgree
<1> QED
  BY <1>2 DEF AddsUp

\* There is one way to add up so many answers.
LEMMA AddsUpOnce ==
  ASSUME NEW a, NEW r \in Progress, NEW s \in Progress, AddsUp(r, a), AddsUp(s, a),
         r.resolved = s.resolved
  PROVE  r = s
BY DEF AddsUp, Progress

\* Advance adds the next answer.
LEMMA AddsUpNext ==
  ASSUME NEW a, NEW r \in Progress, AddsUp(r, a),
         NEW points \in Nat, a[r.resolved + 1] = points
  PROVE  AddsUp(Advance(r, points), a)
<1> DEFINE n == r.resolved
<1>1. n \in Nat
  BY DEF Progress
<1>2. /\ SumOf(a, n + 1) = SumOf(a, n) + a[n + 1]
      /\ StreakOf(a, n + 1) = IF a[n + 1] = 0 THEN 0 ELSE StreakOf(a, n) + 1
  <2> HIDE DEF n
  <2> QED
    BY <1>1, SumOfNext, StreakOfNext
<1>3. points > 0 <=> points # 0
  OBVIOUS
<1>4. /\ Advance(r, points).resolved = n + 1
      /\ Advance(r, points).score = r.score + points
      /\ Advance(r, points).streak = IF points > 0 THEN r.streak + 1 ELSE 0
  BY DEF Advance
<1>5. r.score = SumOf(a, n) /\ r.streak = StreakOf(a, n)
  BY DEF AddsUp
<1> QED
  <2> HIDE DEF n
  <2>1. a[n + 1] = points
    BY DEF n
  <2> QED
    BY <2>1, <1>2, <1>3, <1>4, <1>5 DEF AddsUp

-----------------------------------------------------------------------------
(* Lemmas *)

\* Points are naturals, so never NoAnswer.
LEMMA PointsAreNat ==
  \A points \in Awards \cup {0} : points \in Nat /\ points # NoAnswer
BY RoomAssumption DEF NoAnswer

\* The totals SaveResult writes are again totals.
LEMMA AdvanceType ==
  ASSUME NEW r \in Progress, NEW points \in Awards \cup {0}
  PROVE  /\ Advance(r, points) \in Progress
         /\ Advance(r, points).resolved = r.resolved + 1
BY RoomAssumption DEF Advance, Progress

\* The blank values are values.
LEMMA BlankType ==
  ZeroProgress \in Progress /\ NothingRecorded \in Recorded /\ Idle \in Reading
BY DEF ZeroProgress, NothingRecorded, Idle, Progress, Recorded, Reading

\* A player who just joined is where everyone starts.
LEMMA ZeroIsPast ==
  ASSUME TypeOK, NEW p \in Players
  PROVE  IsPast(ZeroProgress, p)
<1>1. ZeroProgress.resolved <= progress[p].resolved
  BY DEF ZeroProgress, TypeOK, Progress
<1> QED
  BY <1>1, NothingAddsUp DEF IsPast

\* When a result of the question on air can be inserted, memory is up to date
\* and the question is the first one without an answer.
LEMMA SaveIsInOrder ==
  ASSUME IInv, NEW p \in Players, p \in members, shown[p] # NoQuestion, CanSave(p)
  PROVE  /\ mem[p] = progress[p]
         /\ p \in rows
         /\ shown[p] = progress[p].resolved + 1
         /\ shown[p] \in Questions
         /\ answers[p][shown[p]] = NoAnswer
<1>1. /\ shown[p] \in Questions
      /\ mem[p] \in Progress
      /\ progress[p] \in Progress
  BY DEF IInv, TypeOK, NoQuestion
<1>2. p \in rows /\ answers[p][shown[p]] = NoAnswer
  BY DEF CanSave
<1>3. shown[p] = mem[p].resolved + 1
  BY DEF IInv, OnAirIsNext
<1>4. mem[p].resolved <= progress[p].resolved /\ AddsUp(mem[p], answers[p])
  BY <1>2 DEF IInv, MemoryIsThePast, IsPast
<1>5. ~(shown[p] <= progress[p].resolved)
  BY <1>1, <1>2 DEF IInv, AnswersInOrder
<1>6. mem[p].resolved = progress[p].resolved
  BY <1>1, <1>3, <1>4, <1>5 DEF Progress
<1>7. AddsUp(progress[p], answers[p])
  BY DEF IInv, TotalsMatchAnswers
<1>8. mem[p] = progress[p]
  BY <1>1, <1>4, <1>6, <1>7, AddsUpOnce
<1> QED
  BY <1>1, <1>2, <1>3, <1>8

\* SaveResult keeps what Postgres promises, for any room that saves in order.
LEMMA SaveKeepsRecord ==
  ASSUME IInv, NEW p \in Players, p \in members, shown[p] # NoQuestion, CanSave(p),
         NEW points \in Awards \cup {0}, SaveResult(p, points)
  PROVE  /\ answers' \in [Players -> Recorded]
         /\ progress' \in [Players -> Progress]
         /\ AnswersInOrder'
<1>1. /\ mem[p] = progress[p] /\ p \in rows
      /\ shown[p] = progress[p].resolved + 1
      /\ shown[p] \in Questions
      /\ answers[p][shown[p]] = NoAnswer
  BY SaveIsInOrder
<1>2. points \in Nat /\ points # NoAnswer
  BY PointsAreNat
<1>3. /\ Advance(mem[p], points) \in Progress
      /\ Advance(mem[p], points).resolved = progress[p].resolved + 1
  BY <1>1, AdvanceType DEF IInv, TypeOK
<1>4. progress' \in [Players -> Progress]
  BY <1>3 DEF SaveResult, IInv, TypeOK
<1>5. answers' \in [Players -> Recorded]
  BY <1>1 DEF SaveResult, IInv, TypeOK, Recorded
<1>6. AnswersInOrder'
  <2> SUFFICES ASSUME NEW s \in Players
               PROVE  /\ progress'[s].resolved <= NumQuestions
                      /\ \A q \in Questions :
                           answers'[s][q] # NoAnswer <=> q <= progress'[s].resolved
    BY DEF AnswersInOrder
  <2>1. CASE s # p
    BY <2>1 DEF SaveResult, IInv, TypeOK, AnswersInOrder
  <2>2. CASE s = p
    <3>1. progress'[p].resolved = progress[p].resolved + 1
      BY <1>3 DEF SaveResult, IInv, TypeOK
    <3>2. progress[p].resolved \in Nat
      BY DEF IInv, TypeOK, Progress
    <3>3. progress'[p].resolved <= NumQuestions
      BY <1>1, <3>1, <3>2, RoomAssumption DEF Questions
    <3>4. ASSUME NEW q \in Questions
          PROVE  answers'[p][q] # NoAnswer <=> q <= progress'[p].resolved
      <4>1. CASE q = shown[p]
        <5>1. answers'[p][q] = points
          BY <4>1, <1>1 DEF SaveResult, IInv, TypeOK, Recorded
        <5> QED
          BY <5>1, <4>1, <1>1, <1>2, <3>1, <3>2 DEF Questions
      <4>2. CASE q # shown[p]
        <5>1. answers'[p][q] = answers[p][q]
          BY <4>2 DEF SaveResult, IInv, TypeOK, Recorded
        <5>2. answers[p][q] # NoAnswer <=> q <= progress[p].resolved
          BY DEF IInv, AnswersInOrder
        <5> QED
          BY <5>1, <5>2, <4>2, <1>1, <3>1, <3>2 DEF Questions
      <4> QED
        BY <4>1, <4>2
    <3> QED
      BY <2>2, <3>3, <3>4
  <2> QED
    BY <2>1, <2>2
<1> QED
  BY <1>4, <1>5, <1>6

\* A saved answer never replaces another one.
LEMMA SaveAddsOneAnswer ==
  ASSUME IInv, NEW p \in Players, p \in members, shown[p] # NoQuestion, CanSave(p),
         NEW points \in Awards \cup {0}, SaveResult(p, points)
  PROVE  /\ answers'[p][shown[p]] = points
         /\ \A s \in Players, q \in Questions :
              answers[s][q] # NoAnswer => answers'[s][q] = answers[s][q]
         /\ progress'[p] = Advance(progress[p], points)
         /\ \A s \in Players \ {p} :
              progress'[s] = progress[s] /\ answers'[s] = answers[s]
<1>1. /\ mem[p] = progress[p]
      /\ shown[p] \in Questions
      /\ answers[p][shown[p]] = NoAnswer
  BY SaveIsInOrder
<1>2. answers \in [Players -> Recorded] /\ progress \in [Players -> Progress]
  BY DEF IInv, TypeOK
<1> QED
  BY <1>1, <1>2 DEF SaveResult, Recorded

\* The new totals add up, and what was the past of a row still is.
LEMMA SaveKeepsPast ==
  ASSUME IInv, NEW p \in Players, p \in members, shown[p] # NoQuestion, CanSave(p),
         NEW points \in Awards \cup {0}, SaveResult(p, points)
  PROVE  /\ TotalsMatchAnswers'
         /\ \A s \in Players, r \in Progress :
              IsPast(r, s) => r.resolved <= progress'[s].resolved /\ AddsUp(r, answers'[s])
<1>1. /\ shown[p] = progress[p].resolved + 1
      /\ shown[p] \in Questions
      /\ answers[p][shown[p]] = NoAnswer
  BY SaveIsInOrder
<1>2. /\ answers'[p][shown[p]] = points
      /\ \A s \in Players, q \in Questions :
           answers[s][q] # NoAnswer => answers'[s][q] = answers[s][q]
      /\ progress'[p] = Advance(progress[p], points)
      /\ \A s \in Players \ {p} :
           progress'[s] = progress[s] /\ answers'[s] = answers[s]
  BY SaveAddsOneAnswer
<1>3. progress \in [Players -> Progress]
  BY DEF IInv, TypeOK
<1>4. progress'[p].resolved = progress[p].resolved + 1
  BY <1>2, <1>3, AdvanceType
<1>5. ASSUME NEW r \in Progress, r.resolved <= progress[p].resolved, AddsUp(r, answers[p])
      PROVE  AddsUp(r, answers'[p])
  <2>1. ASSUME NEW k \in 1..r.resolved
        PROVE  answers'[p][k] = answers[p][k]
    <3>1. k \in Questions /\ k <= progress[p].resolved
      BY <1>1, <1>3, <1>5, RoomAssumption DEF Questions, Progress
    <3>2. answers[p][k] # NoAnswer
      BY <3>1 DEF IInv, AnswersInOrder
    <3> QED
      BY <1>2, <3>1, <3>2
  <2> QED
    BY <1>5, <2>1, AddsUpAgrees
<1>6. AddsUp(progress'[p], answers'[p])
  <2>1. AddsUp(progress[p], answers'[p])
    BY <1>3, <1>5 DEF IInv, TotalsMatchAnswers, Progress
  <2>2. answers'[p][progress[p].resolved + 1] = points /\ points \in Nat
    BY <1>1, <1>2, PointsAreNat
  <2> QED
    BY <1>2, <1>3, <2>1, <2>2, AddsUpNext
<1>7. TotalsMatchAnswers'
  BY <1>2, <1>6 DEF IInv, TotalsMatchAnswers
<1>8. ASSUME NEW s \in Players, NEW r \in Progress, IsPast(r, s)
      PROVE  r.resolved <= progress'[s].resolved /\ AddsUp(r, answers'[s])
  <2>1. CASE s = p
    BY <1>3, <1>4, <1>5, <1>8, <2>1 DEF IsPast, Progress
  <2>2. CASE s # p
    BY <1>2, <1>8, <2>2 DEF IsPast
  <2> QED
    BY <2>1, <2>2
<1> QED
  BY <1>7, <1>8

\* What overtaken handlers have read stays the past when a result is saved.
LEMMA SaveKeepsReadings ==
  ASSUME IInv, NEW p \in Players, p \in members, shown[p] # NoQuestion, CanSave(p),
         NEW points \in Awards \cup {0}, SaveResult(p, points), get' = get
  PROVE  ReadIsPast'
<1>1. \A s \in Players, r \in Progress :
        IsPast(r, s) => r.resolved <= progress'[s].resolved /\ AddsUp(r, answers'[s])
  BY SaveKeepsPast
<1>2. rows' = rows /\ dbAge' = dbAge
  BY DEF SaveResult
<1> SUFFICES ASSUME NEW g \in Loaders
             PROVE  /\ get[g].status = "running" => dbAge # NotStarted
                    /\ \A s \in get[g].rows \cap rows :
                         /\ get[g].progress[s].resolved <= progress'[s].resolved
                         /\ AddsUp(get[g].progress[s], answers'[s])
                    /\ \A s \in Players \ get[g].rows : get[g].progress[s] = ZeroProgress
  BY <1>2 DEF ReadIsPast, IsPast
<1>3. get[g] \in Reading
  BY DEF IInv, TypeOK
<1>4. ASSUME NEW s \in get[g].rows \cap rows
      PROVE  /\ get[g].progress[s].resolved <= progress'[s].resolved
             /\ AddsUp(get[g].progress[s], answers'[s])
  <2>1. s \in Players /\ get[g].progress[s] \in Progress
    BY <1>3, <1>4 DEF Reading
  <2>2. IsPast(get[g].progress[s], s)
    BY <1>4 DEF IInv, ReadIsPast
  <2> QED
    BY <1>1, <2>1, <2>2
<1> QED
  BY <1>4 DEF IInv, ReadIsPast

\* A saved result whose reply is lost puts the row one answer ahead of memory.
LEMMA ResolveLostKeepsIInv ==
  ASSUME IInv, NEW p \in Players, Playing(p), shown[p] # NoQuestion,
         NEW points \in Awards \cup {0}, ResolveLost(p, points)
  PROVE  IInv'
<1>1. p \in members /\ CanSave(p) /\ SaveResult(p, points)
  BY DEF Playing, ResolveLost
<1>2. p \in rows
  BY <1>1, SaveIsInOrder
<1>3. /\ answers' \in [Players -> Recorded]
      /\ progress' \in [Players -> Progress]
      /\ AnswersInOrder'
  BY <1>1, SaveKeepsRecord
<1>4. /\ \A s \in Players, q \in Questions :
           answers[s][q] # NoAnswer => answers'[s][q] = answers[s][q]
      /\ \A s \in Players \ {p} :
           progress'[s] = progress[s] /\ answers'[s] = answers[s]
  BY <1>1, SaveAddsOneAnswer
<1>5. TypeOK'
  BY <1>1, <1>3 DEF IInv, TypeOK, ResolveLost, SaveResult, room
<1>6. MemoryIsThePast' /\ TotalsMatchAnswers'
  <2>1. UNCHANGED <<mem, members, rows>>
    BY <1>1 DEF ResolveLost, SaveResult, room
  <2>2. /\ TotalsMatchAnswers'
        /\ \A s \in Players, r \in Progress :
             IsPast(r, s) => r.resolved <= progress'[s].resolved /\ AddsUp(r, answers'[s])
    BY <1>1, SaveKeepsPast
  <2>3. \A s \in members \cap rows : s \in Players /\ mem[s] \in Progress /\ IsPast(mem[s], s)
    BY DEF IInv, TypeOK, MemoryIsThePast
  <2>4. \A s \in members \cap rows :
          mem[s].resolved <= progress'[s].resolved /\ AddsUp(mem[s], answers'[s])
    BY <2>2, <2>3
  <2> QED
    BY <2>1, <2>2, <2>4 DEF MemoryIsThePast, IsPast
<1>7. AcknowledgedIsDurable'
  BY <1>4 DEF ResolveLost, IInv, AcknowledgedIsDurable
<1>8. AbsentIsBlank'
  BY <1>1, <1>2, <1>4 DEF IInv, TypeOK, AbsentIsBlank, ResolveLost, SaveResult, room
<1>9. ReadIsPast'
  BY <1>1, SaveKeepsReadings DEF ResolveLost
<1> QED
  BY <1>1, <1>3, <1>5, <1>6, <1>7, <1>8, <1>9
  DEF IInv, TimerTracksSession, StartIsDated, OnAirIsNext, FreshIsUnused, ResolveLost,
      SaveResult, room

\* A saved result moves row and memory on together, or ends the session.
LEMMA ResolveKeepsIInv ==
  ASSUME IInv, NEW p \in Players, Playing(p), shown[p] # NoQuestion,
         NEW points \in Awards \cup {0}, NEW announce \in BOOLEAN,
         NEW next \in {NoQuestion, NextAfter(p)}, Resolve(p, points, announce, next)
  PROVE  IInv'
<1> DEFINE after == [mem EXCEPT ![p] = Advance(@, points)]
<1>1. p \in members /\ CanSave(p) /\ SaveResult(p, points)
  BY DEF Playing, Resolve
<1>2. /\ mem[p] = progress[p] /\ p \in rows
      /\ shown[p] = progress[p].resolved + 1
      /\ shown[p] \in Questions
      /\ answers[p][shown[p]] = NoAnswer
  BY <1>1, SaveIsInOrder
<1>3. /\ answers' \in [Players -> Recorded]
      /\ progress' \in [Players -> Progress]
      /\ AnswersInOrder'
  BY <1>1, SaveKeepsRecord
<1>4. /\ answers'[p][shown[p]] = points
      /\ \A s \in Players, q \in Questions :
           answers[s][q] # NoAnswer => answers'[s][q] = answers[s][q]
      /\ progress'[p] = Advance(progress[p], points)
      /\ \A s \in Players \ {p} :
           progress'[s] = progress[s] /\ answers'[s] = answers[s]
  BY <1>1, SaveAddsOneAnswer
<1>5. UNCHANGED <<rows, fresh, joining, get, dbAge>>
  BY DEF Resolve, SaveResult
<1>6. /\ acked' \in [Players -> Recorded]
      /\ AcknowledgedIsDurable'
      /\ \A s \in Players \ {p} : acked'[s] = acked[s]
  <2>1. acked' = IF announce THEN [acked EXCEPT ![p][shown[p]] = points] ELSE acked
    BY DEF Resolve
  <2>2. acked \in [Players -> Recorded]
    BY DEF IInv, TypeOK
  <2>3. ASSUME NEW s \in Players, NEW q \in Questions
        PROVE  acked'[s][q] = acked[s][q] \/ (s = p /\ q = shown[p] /\ acked'[s][q] = points)
    BY <2>1, <2>2, <1>2 DEF Recorded
  <2>4. AcknowledgedIsDurable'
    BY <2>3, <1>4 DEF IInv, AcknowledgedIsDurable
  <2> QED
    BY <2>1, <2>2, <2>4, <1>2 DEF Recorded
<1>7. mem[p] \in Progress /\ Advance(mem[p], points) \in Progress
      /\ Advance(mem[p], points).resolved = mem[p].resolved + 1
  BY AdvanceType DEF IInv, TypeOK
<1>8. /\ TotalsMatchAnswers'
      /\ \A s \in Players, r \in Progress :
           IsPast(r, s) => r.resolved <= progress'[s].resolved /\ AddsUp(r, answers'[s])
      /\ ReadIsPast'
  BY <1>1, <1>5, SaveKeepsPast, SaveKeepsReadings
<1>9. CASE AllFinished(members, after) /\ EndSession
  <2>1. TypeOK'
    BY <1>3, <1>5, <1>6, <1>9, BlankType, RoomAssumption
    DEF IInv, TypeOK, EndSession, Stop, NoTimer, NoQuestion
  <2>2. AbsentIsBlank'
    BY <1>2, <1>4, <1>5, <1>6, <1>9 DEF IInv, TypeOK, AbsentIsBlank, EndSession, Stop
  <2>3. FreshIsUnused' /\ StartIsDated'
    BY <1>5, <1>9 DEF IInv, FreshIsUnused, StartIsDated, EndSession, Stop
  <2> QED
    BY <1>3, <1>6, <1>8, <1>9, <2>1, <2>2, <2>3
    DEF IInv, MemoryIsThePast, TimerTracksSession, OnAirIsNext, EndSession, Stop, NoTimer
<1>10. CASE /\ mem' = after
            /\ Show(p, next)
            /\ UNCHANGED <<dbStatus, status, members, timer>>
  <2>1. mem' = [mem EXCEPT ![p] = Advance(mem[p], points)]
    BY <1>10
  <2>2. next \in Questions \cup {NoQuestion}
    BY <1>7, RoomAssumption DEF NextAfter, Questions, NoQuestion, IInv, TypeOK, Progress
  <2>3. TypeOK'
    BY <1>3, <1>5, <1>6, <1>7, <1>10, <2>1, <2>2, RoomAssumption
    DEF IInv, TypeOK, Show
  <2>4. MemoryIsThePast'
    <3>1. ASSUME NEW s \in members \cap rows
          PROVE  mem'[s].resolved <= progress'[s].resolved /\ AddsUp(mem'[s], answers'[s])
      <4>1. s \in Players /\ mem[s] \in Progress /\ IsPast(mem[s], s)
        BY <3>1 DEF IInv, TypeOK, MemoryIsThePast
      <4>2. CASE s # p
        <5>1. mem'[s] = mem[s]
          BY <2>1, <4>2
        <5> QED
          BY <1>8, <4>1, <5>1
      <4>3. CASE s = p
        <5>1. mem'[p] = progress'[p] /\ progress'[p] \in Progress
          BY <1>2, <1>3, <1>4, <2>1 DEF IInv, TypeOK
        <5>2. AddsUp(progress'[p], answers'[p])
          BY <1>8 DEF TotalsMatchAnswers
        <5> QED
          BY <4>3, <5>1, <5>2 DEF Progress
      <4> QED
        BY <4>2, <4>3
    <3> QED
      BY <1>5, <1>10, <3>1 DEF MemoryIsThePast, IsPast
  <2>5. OnAirIsNext'
    BY <1>1, <1>7, <1>10, <2>1
    DEF IInv, TypeOK, OnAirIsNext, NextAfter, NoQuestion, Playing, Progress, Show
  <2>6. AbsentIsBlank'
    BY <1>1, <1>2, <1>4, <1>5, <1>6, <1>10, <2>1 DEF IInv, TypeOK, AbsentIsBlank
  <2> QED
    BY <1>3, <1>5, <1>6, <1>8, <1>10, <2>3, <2>4, <2>5, <2>6
    DEF IInv, TimerTracksSession, StartIsDated, FreshIsUnused
<1> QED
  BY <1>9, <1>10 DEF Resolve

\* A kick removes the row and, unless its reply is lost, the memory.
LEMMA KickKeepsIInv ==
  ASSUME IInv, NEW p \in Players, NEW o \in Outcomes, Kick(p, o)
  PROVE  IInv'
<1>1. /\ rows' = rows \ {p}
      /\ progress' = [progress EXCEPT ![p] = ZeroProgress]
      /\ answers' = [answers EXCEPT ![p] = NothingRecorded]
      /\ acked' = [acked EXCEPT ![p] = NothingRecorded]
      /\ UNCHANGED <<dbAge, fresh, joining, get>>
  BY DEF Kick, DeletePlayer
<1>2. /\ progress' \in [Players -> Progress]
      /\ answers' \in [Players -> Recorded]
      /\ acked' \in [Players -> Recorded]
  BY <1>1, BlankType DEF IInv, TypeOK
<1>3. AnswersInOrder' /\ AcknowledgedIsDurable'
  BY <1>1, RoomAssumption
  DEF IInv, TypeOK, AnswersInOrder, AcknowledgedIsDurable, NothingRecorded, ZeroProgress,
      Questions
<1>4. progress'[p] = ZeroProgress /\ \A s \in Players \ {p} :
        progress'[s] = progress[s] /\ answers'[s] = answers[s]
  BY <1>1 DEF IInv, TypeOK
<1>5. TotalsMatchAnswers'
  BY <1>4, NothingAddsUp DEF IInv, TotalsMatchAnswers
<1>6. ReadIsPast'
  <2>1. \A g \in Loaders : get[g].rows \subseteq Players
    BY DEF IInv, TypeOK, Reading
  <2> QED
    BY <1>1, <1>4, <2>1 DEF IInv, ReadIsPast, IsPast
<1>7. CASE UNCHANGED <<dbStatus, room>>
  <2>1. TypeOK'
    BY <1>1, <1>2, <1>7 DEF IInv, TypeOK, room
  <2>2. MemoryIsThePast'
    BY <1>1, <1>4, <1>7 DEF IInv, TypeOK, MemoryIsThePast, IsPast, room
  <2>3. AbsentIsBlank'
    BY <1>1, <1>7 DEF IInv, TypeOK, AbsentIsBlank, room
  <2> QED
    BY <1>1, <1>3, <1>5, <1>6, <1>7, <2>1, <2>2, <2>3
    DEF IInv, TimerTracksSession, StartIsDated, OnAirIsNext, FreshIsUnused, room
<1>8. CASE EndSession
  <2>1. TypeOK'
    BY <1>1, <1>2, <1>8, BlankType, RoomAssumption
    DEF IInv, TypeOK, EndSession, Stop, NoTimer, NoQuestion
  <2>2. AbsentIsBlank' /\ FreshIsUnused' /\ StartIsDated'
    BY <1>1, <1>8
    DEF IInv, TypeOK, AbsentIsBlank, FreshIsUnused, StartIsDated, EndSession, Stop
  <2> QED
    BY <1>3, <1>5, <1>6, <1>8, <2>1, <2>2
    DEF IInv, MemoryIsThePast, TimerTracksSession, OnAirIsNext, EndSession, Stop, NoTimer
<1>9. CASE /\ members' = members \ {p}
           /\ mem' = [mem EXCEPT ![p] = ZeroProgress]
           /\ Show(p, NoQuestion)
           /\ UNCHANGED <<dbStatus, status, timer>>
  <2>1. TypeOK'
    BY <1>1, <1>2, <1>9, BlankType, RoomAssumption
    DEF IInv, TypeOK, NoQuestion, Show
  <2>2. \A s \in Players \ {p} : mem'[s] = mem[s]
    BY <1>9 DEF IInv, TypeOK
  <2>3. MemoryIsThePast'
    BY <1>1, <1>4, <1>9, <2>2 DEF IInv, TypeOK, MemoryIsThePast, IsPast
  <2>4. AbsentIsBlank'
    BY <1>1, <1>9 DEF IInv, TypeOK, AbsentIsBlank
  <2>5. OnAirIsNext'
    BY <1>9 DEF IInv, TypeOK, OnAirIsNext, Show
  <2> QED
    BY <1>1, <1>3, <1>5, <1>6, <1>9, <2>1, <2>3, <2>4, <2>5
    DEF IInv, TimerTracksSession, StartIsDated, FreshIsUnused
<1> QED
  BY <1>7, <1>8, <1>9 DEF Kick

\* As long as rows and answers stay, so does what is past.
LEMMA PastStays ==
  ASSUME IInv, UNCHANGED <<rows, progress, answers>>
  PROVE  /\ AnswersInOrder'
         /\ TotalsMatchAnswers'
         /\ UNCHANGED <<mem, members>> => MemoryIsThePast'
         /\ UNCHANGED acked => AcknowledgedIsDurable'
         /\ UNCHANGED get /\ (dbAge # NotStarted => dbAge' # NotStarted) => ReadIsPast'
<1>1. AnswersInOrder' /\ TotalsMatchAnswers'
  BY DEF IInv, AnswersInOrder, TotalsMatchAnswers
<1>2. UNCHANGED <<mem, members>> => MemoryIsThePast'
  BY DEF IInv, MemoryIsThePast, IsPast
<1>3. UNCHANGED acked => AcknowledgedIsDurable'
  BY DEF IInv, AcknowledgedIsDurable
<1>4. UNCHANGED get /\ (dbAge # NotStarted => dbAge' # NotStarted) => ReadIsPast'
  BY DEF IInv, ReadIsPast, IsPast
<1> QED
  BY <1>1, <1>2, <1>3, <1>4

\* The clock moves the age of the session and its timer together.
LEMMA TickKeepsIInv ==
  ASSUME IInv, Tick
  PROVE  IInv'
<1>1. TypeOK'
  BY RoomAssumption DEF Tick, TooLate, SessionAges, IInv, TypeOK, NoTimer, NotStarted
<1>2. dbAge # NotStarted <=> dbAge' # NotStarted
  BY RoomAssumption DEF Tick, SessionAges, IInv, TypeOK, NotStarted
<1>3. TimerTracksSession'
  BY RoomAssumption DEF Tick, SessionAges, IInv, TimerTracksSession, TypeOK, NoTimer,
      NotStarted
<1>4. UNCHANGED <<rows, progress, answers, mem, members, get, acked>>
  BY DEF Tick
<1> QED
  BY <1>1, <1>2, <1>3, <1>4, PastStays
  DEF Tick, IInv, StartIsDated, OnAirIsNext, AbsentIsBlank, FreshIsUnused

\* A question is served at the place memory says is next.
LEMMA ServeNextKeepsIInv ==
  ASSUME IInv, NEW p \in Players, ServeNext(p)
  PROVE  IInv'
<1>1. TypeOK'
  BY RoomAssumption DEF ServeNext, Show, Playing, db, IInv, TypeOK, Questions, Progress
<1>2. OnAirIsNext'
  BY DEF ServeNext, Show, Playing, IInv, OnAirIsNext
<1>3. UNCHANGED <<rows, progress, answers, mem, members, get, acked, dbAge>>
  BY DEF ServeNext, db
<1> QED
  BY <1>1, <1>2, <1>3, PastStays
  DEF ServeNext, db, IInv, TimerTracksSession, StartIsDated, AbsentIsBlank, FreshIsUnused

\* The timer is armed as started_at is written; if the reply is lost, it is not.
LEMMA StartSessionKeepsIInv ==
  ASSUME IInv, NEW o \in Outcomes, StartSession(o)
  PROVE  IInv'
<1>1. TypeOK'
  BY RoomAssumption DEF StartSession, IInv, TypeOK
<1>2. dbAge' # NotStarted /\ StartIsDated'
  BY DEF StartSession, StartIsDated, NotStarted
<1>3. TimerTracksSession'
  BY <1>2, RoomAssumption DEF StartSession, IInv, TimerTracksSession
<1>4. OnAirIsNext'
  BY DEF StartSession, IInv, OnAirIsNext
<1>5. UNCHANGED <<rows, progress, answers, mem, members, get, acked>>
  BY DEF StartSession
<1> QED
  BY <1>1, <1>2, <1>3, <1>4, <1>5, PastStays
  DEF StartSession, IInv, AbsentIsBlank, FreshIsUnused

\* A room that ends without a result leaves the record.
LEMMA EndSessionKeepsIInv ==
  ASSUME IInv, EndSession,
         UNCHANGED <<dbAge, rows, progress, answers, fresh, joining, get, acked>>
  PROVE  IInv'
<1>1. TypeOK'
  BY RoomAssumption, BlankType DEF EndSession, Stop, NoTimer, NoQuestion, IInv, TypeOK
<1>2. TimerTracksSession' /\ StartIsDated'
  BY DEF EndSession, Stop, IInv, TimerTracksSession, StartIsDated
<1>3. AbsentIsBlank' /\ FreshIsUnused'
  BY DEF EndSession, Stop, IInv, AbsentIsBlank, FreshIsUnused
<1>4. MemoryIsThePast' /\ OnAirIsNext'
  BY DEF EndSession, Stop, MemoryIsThePast, OnAirIsNext
<1> QED
  BY <1>1, <1>2, <1>3, <1>4, PastStays DEF IInv

\* The host ends the session, or its timer does.
LEMMA HostEndsKeepsIInv ==
  ASSUME IInv, HostEnds \/ DeadlineEnds
  PROVE  IInv'
BY EndSessionKeepsIInv DEF HostEnds, DeadlineEnds

\* A committed join is a row without progress.
LEMMA JoinRoomKeepsIInv ==
  ASSUME IInv, NEW p \in Players, NEW o \in Outcomes, JoinRoom(p, o)
  PROVE  IInv'
<1>1. TypeOK'
  BY DEF JoinRoom, room, IInv, TypeOK
<1>2. MemoryIsThePast'
  BY DEF JoinRoom, room, IInv, MemoryIsThePast, IsPast, FreshIsUnused
<1>3. ReadIsPast'
  BY DEF JoinRoom, IInv, ReadIsPast, IsPast, FreshIsUnused
<1>4. FreshIsUnused'
  BY DEF JoinRoom, room, IInv, FreshIsUnused
<1>5. AnswersInOrder' /\ TotalsMatchAnswers' /\ AcknowledgedIsDurable'
  BY DEF JoinRoom, IInv, AnswersInOrder, TotalsMatchAnswers, AcknowledgedIsDurable
<1> QED
  BY <1>1, <1>2, <1>3, <1>4, <1>5
  DEF JoinRoom, room, IInv, TimerTracksSession, StartIsDated, OnAirIsNext, AbsentIsBlank

\* A player new to the room is remembered as one who has not begun.
LEMMA AddPlayerKeepsIInv ==
  ASSUME IInv, NEW p \in Players, AddPlayer(p)
  PROVE  IInv'
<1>1. TypeOK'
  BY DEF AddPlayer, db, IInv, TypeOK
<1>2. UNCHANGED <<rows, progress, answers, mem, get, acked, dbAge>>
  BY DEF AddPlayer, db
<1>3. MemoryIsThePast'
  <2>1. TypeOK /\ (p \notin members => mem[p] = ZeroProgress)
    BY DEF IInv, AbsentIsBlank
  <2>2. IsPast(ZeroProgress, p)
    BY <2>1, ZeroIsPast
  <2>3. \A s \in (members \cup {p}) \cap rows : IsPast(mem[s], s)
    BY <2>1, <2>2 DEF IInv, MemoryIsThePast
  <2> QED
    BY <1>2, <2>3 DEF AddPlayer, MemoryIsThePast, IsPast
<1>4. FreshIsUnused'
  BY DEF AddPlayer, db, IInv, FreshIsUnused
<1> QED
  BY <1>1, <1>2, <1>3, <1>4, PastStays
  DEF AddPlayer, db, IInv, TimerTracksSession, StartIsDated, OnAirIsNext, AbsentIsBlank

\* A join handler that finds no room changes nothing else.
LEMMA JoinTooLateKeepsIInv ==
  ASSUME IInv, NEW p \in Players, JoinTooLate(p)
  PROVE  IInv'
<1>1. TypeOK'
  BY DEF JoinTooLate, db, room, IInv, TypeOK
<1>2. FreshIsUnused'
  BY DEF JoinTooLate, db, room, IInv, FreshIsUnused
<1>3. UNCHANGED <<rows, progress, answers, mem, members, get, acked, dbAge>>
  BY DEF JoinTooLate, db, room
<1> QED
  BY <1>1, <1>2, <1>3, PastStays
  DEF JoinTooLate, db, room, IInv, TimerTracksSession, StartIsDated, OnAirIsNext,
      AbsentIsBlank

\* A room spawned from a status and players that once were so.
LEMMA ServeKeepsIInv ==
  ASSUME IInv, NEW st \in {"lobby", "running"}, NEW known \in SUBSET Players,
         NEW seen \in [Players -> Progress], Serve(st, known, seen),
         st = "running" => dbAge # NotStarted,
         fresh \cap known = {},
         \A p \in known \cap rows : IsPast(seen[p], p),
         \A p \in Players \ known : seen[p] = ZeroProgress,
         get' \in [Loaders -> Reading],
         ReadIsPast',
         \A g \in Loaders : fresh \cap get'[g].rows = {}
  PROVE  IInv'
<1>1. /\ status' = st /\ members' = known /\ mem' = seen
      /\ timer' = IF st = "running" THEN RoomDuration - dbAge ELSE NoTimer
      /\ UNCHANGED <<dbStatus, dbAge, rows, progress, answers, fresh, joining, shown, age, acked>>
  BY DEF Serve, Restored, RestoredTimer, db
<1>2. TypeOK'
  BY <1>1, RoomAssumption DEF IInv, TypeOK, NotStarted
<1>3. MemoryIsThePast'
  BY <1>1 DEF MemoryIsThePast, IsPast
<1>4. TimerTracksSession'
  BY <1>1 DEF TimerTracksSession
<1>5. AbsentIsBlank'
  BY <1>1 DEF IInv, AbsentIsBlank
<1>6. OnAirIsNext'
  BY <1>1 DEF Serve, IInv, OnAirIsNext
<1>7. FreshIsUnused'
  BY <1>1 DEF IInv, FreshIsUnused
<1> QED
  BY <1>1, <1>2, <1>3, <1>4, <1>5, <1>6, <1>7, PastStays DEF IInv, StartIsDated

\* A row is its own past.
LEMMA RowIsPast ==
  ASSUME IInv, NEW p \in Players
  PROVE  IsPast(progress[p], p)
BY DEF IInv, TypeOK, TotalsMatchAnswers, IsPast, Progress

\* A room brought back at once remembers exactly what the rows say.
LEMMA LoadKeepsIInv ==
  ASSUME IInv, Load
  PROVE  IInv'
<1>1. /\ dbStatus \in {"lobby", "running"} /\ rows \in SUBSET Players
      /\ progress \in [Players -> Progress]
      /\ get' \in [Loaders -> Reading]
      /\ dbStatus = "running" => dbAge # NotStarted
  BY DEF Load, MayBeLoaded, IInv, TypeOK, StartIsDated
<1>2. ReadIsPast'
  BY PastStays DEF Load, Serve, db
<1>3. /\ fresh \cap rows = {}
      /\ \A g \in Loaders : fresh \cap get'[g].rows = {}
      /\ \A p \in Players \ rows : progress[p] = ZeroProgress
  BY DEF Load, IInv, FreshIsUnused, AbsentIsBlank
<1>4. \A p \in rows \cap rows : IsPast(progress[p], p)
  BY <1>1, RowIsPast
<1> QED
  BY <1>1, <1>2, <1>3, <1>4, ServeKeepsIInv DEF Load

\* What a handler inside Get holds matters only if it is the past.
LEMMA GetKeepsIInv ==
  ASSUME IInv, UNCHANGED <<db, joining, room, acked>>,
         get' \in [Loaders -> Reading],
         ReadIsPast',
         \A g \in Loaders : fresh \cap get'[g].rows = {}
  PROVE  IInv'
<1>1. TypeOK'
  BY DEF IInv, TypeOK, db, room
<1>2. UNCHANGED <<rows, progress, answers, mem, members, acked>>
  BY DEF db, room
<1> QED
  BY <1>1, <1>2, PastStays
  DEF IInv, TimerTracksSession, StartIsDated, OnAirIsNext, AbsentIsBlank, FreshIsUnused,
      db, room

\* A handler that has read nothing knows nothing wrong.
LEMMA IdleIsPast ==
  ASSUME IInv, NEW g \in Loaders, get' = [get EXCEPT ![g] = Idle],
         UNCHANGED <<rows, progress, answers, fresh, dbAge>>
  PROVE  /\ get' \in [Loaders -> Reading]
         /\ ReadIsPast'
         /\ \A h \in Loaders : fresh \cap get'[h].rows = {}
<1>1. get \in [Loaders -> Reading] /\ Idle \in Reading
  BY BlankType DEF IInv, TypeOK
<1>2. \A h \in Loaders : get'[h] = IF h = g THEN Idle ELSE get[h]
  BY <1>1
<1>3. /\ Idle.status = "lobby" /\ Idle.rows = {}
      /\ \A p \in Players : Idle.progress[p] = ZeroProgress
  BY DEF Idle
<1>4. ReadIsPast'
  BY <1>2, <1>3 DEF IInv, ReadIsPast, IsPast
<1> QED
  BY <1>1, <1>2, <1>3, <1>4 DEF IInv, FreshIsUnused

\* The row read is kept while it changes.
LEMMA ReadRoomKeepsIInv ==
  ASSUME IInv, NEW g \in Loaders, ReadRoom(g)
  PROVE  IInv'
<1>1. get \in [Loaders -> Reading] /\ dbStatus \in {"lobby", "running"}
  BY DEF ReadRoom, MayBeLoaded, IInv, TypeOK
<1>2. \A h \in Loaders : /\ get'[h].rows = get[h].rows
                         /\ get'[h].progress = get[h].progress
                         /\ get'[h].status \in {get[h].status, dbStatus}
                         /\ get'[h] \in Reading
  BY <1>1 DEF ReadRoom, Reading
<1>3. get' \in [Loaders -> Reading]
  BY <1>1, <1>2 DEF ReadRoom
<1>4. ReadIsPast'
  BY <1>2 DEF ReadRoom, db, IInv, ReadIsPast, IsPast, StartIsDated
<1>5. \A h \in Loaders : fresh \cap get'[h].rows = {}
  BY <1>2 DEF IInv, FreshIsUnused
<1> QED
  BY <1>3, <1>4, <1>5, GetKeepsIInv DEF ReadRoom

\* So are the players.
LEMMA ReadPlayersKeepsIInv ==
  ASSUME IInv, NEW g \in Loaders, ReadPlayers(g)
  PROVE  IInv'
<1>1. /\ get \in [Loaders -> Reading] /\ rows \in SUBSET Players
      /\ progress \in [Players -> Progress]
  BY DEF IInv, TypeOK
<1>2. /\ get'[g] = [get[g] EXCEPT !.stage = "players", !.rows = rows, !.progress = progress]
      /\ \A h \in Loaders \ {g} : get'[h] = get[h]
      /\ get' = [get EXCEPT ![g] = get'[g]]
  BY <1>1 DEF ReadPlayers
<1>3. /\ get'[g].rows = rows /\ get'[g].progress = progress
      /\ get'[g].status = get[g].status /\ get'[g] \in Reading
  BY <1>1, <1>2 DEF Reading
<1>4. get' \in [Loaders -> Reading]
  BY <1>1, <1>2, <1>3
<1>5. UNCHANGED <<rows, progress, answers, dbAge>>
  BY DEF ReadPlayers, db
<1>6. ReadIsPast'
  <2>1. \A p \in rows : IsPast(progress[p], p)
    BY <1>1, RowIsPast
  <2>2. \A p \in Players \ rows : progress[p] = ZeroProgress
    BY DEF IInv, AbsentIsBlank
  <2>3. ASSUME NEW h \in Loaders
        PROVE  /\ get'[h].status = "running" => dbAge # NotStarted
               /\ \A p \in get'[h].rows \cap rows : IsPast(get'[h].progress[p], p)
               /\ \A p \in Players \ get'[h].rows : get'[h].progress[p] = ZeroProgress
    <3>1. CASE h = g
      BY <1>3, <2>1, <2>2, <3>1 DEF IInv, ReadIsPast
    <3>2. CASE h # g
      <4>1. get'[h] = get[h]
        BY <1>2, <3>2
      <4> QED
        BY <4>1 DEF IInv, ReadIsPast
    <3> QED
      BY <3>1, <3>2
  <2> QED
    BY <1>5, <2>3 DEF ReadIsPast, IsPast
<1>7. \A h \in Loaders : fresh \cap get'[h].rows = {}
  BY <1>2, <1>3 DEF IInv, FreshIsUnused
<1> QED
  BY <1>4, <1>6, <1>7, GetKeepsIInv DEF ReadPlayers

\* A room spawned from them is behind, and no more than that.
LEMMA SpawnKeepsIInv ==
  ASSUME IInv, NEW g \in Loaders, Spawn(g)
  PROVE  IInv'
<1>1. /\ get[g].status \in {"lobby", "running"} /\ get[g].rows \in SUBSET Players
      /\ get[g].progress \in [Players -> Progress]
  BY DEF IInv, TypeOK, Reading
<1>2. UNCHANGED <<rows, progress, answers, fresh, dbAge>> /\ get' = [get EXCEPT ![g] = Idle]
  BY DEF Spawn, Serve, db
<1>3. /\ get' \in [Loaders -> Reading]
      /\ ReadIsPast'
      /\ \A h \in Loaders : fresh \cap get'[h].rows = {}
  BY <1>2, IdleIsPast
<1>4. /\ get[g].status = "running" => dbAge # NotStarted
      /\ fresh \cap get[g].rows = {}
      /\ \A p \in get[g].rows \cap rows : IsPast(get[g].progress[p], p)
      /\ \A p \in Players \ get[g].rows : get[g].progress[p] = ZeroProgress
  BY DEF IInv, ReadIsPast, FreshIsUnused
<1> QED
  BY <1>1, <1>3, <1>4, ServeKeepsIInv DEF Spawn

\* A handler that gives up forgets what it read.
LEMMA GiveUpKeepsIInv ==
  ASSUME IInv, NEW g \in Loaders, GiveUp(g)
  PROVE  IInv'
<1>1. UNCHANGED <<rows, progress, answers, fresh, dbAge>> /\ get' = [get EXCEPT ![g] = Idle]
  BY DEF GiveUp, db
<1> QED
  BY <1>1, IdleIsPast, GetKeepsIInv DEF GiveUp

\* An overdue session is ended without being loaded.
LEMMA LoadExpiredKeepsIInv ==
  ASSUME IInv, NEW o \in Outcomes, LoadExpired(o)
  PROVE  IInv'
<1>1. TypeOK'
  BY DEF LoadExpired, room, IInv, TypeOK
<1>2. TimerTracksSession' /\ StartIsDated'
  BY DEF LoadExpired, room, IInv, TimerTracksSession, StartIsDated
<1>3. UNCHANGED <<rows, progress, answers, mem, members, get, acked, dbAge>>
  BY DEF LoadExpired, room
<1> QED
  BY <1>1, <1>2, <1>3, PastStays
  DEF LoadExpired, room, IInv, OnAirIsNext, AbsentIsBlank, FreshIsUnused

\* A crash loses memory and nothing else.
LEMMA CrashKeepsIInv ==
  ASSUME IInv, Crash
  PROVE  IInv'
<1>1. TypeOK'
  BY RoomAssumption, BlankType DEF Crash, Stop, NoTimer, NoQuestion, db, IInv, TypeOK
<1>2. TimerTracksSession' /\ MemoryIsThePast' /\ OnAirIsNext'
  BY DEF Crash, Stop, TimerTracksSession, MemoryIsThePast, OnAirIsNext
<1>3. AbsentIsBlank'
  BY DEF Crash, Stop, db, IInv, AbsentIsBlank
<1>4. \A g \in Loaders : get'[g] = Idle
  BY DEF Crash
<1>5. /\ Idle.status = "lobby" /\ Idle.rows = {}
      /\ \A p \in Players : Idle.progress[p] = ZeroProgress
  BY DEF Idle
<1>6. ReadIsPast' /\ FreshIsUnused'
  BY <1>4, <1>5 DEF Crash, Stop, db, IInv, ReadIsPast, FreshIsUnused
<1>7. UNCHANGED <<rows, progress, answers, acked, dbAge, dbStatus>>
  BY DEF Crash, db
<1> QED
  BY <1>1, <1>2, <1>3, <1>6, <1>7, PastStays DEF IInv, StartIsDated

-----------------------------------------------------------------------------
(* The invariant *)

\* An empty lobby satisfies the invariant.
LEMMA InitIInv == Init => IInv
<1> SUFFICES ASSUME Init PROVE IInv
  OBVIOUS
<1>1. TypeOK
  <2>1. /\ dbAge \in 0..RoomDuration \cup {NotStarted}
        /\ age \in [Players -> 0..(AnswerWindow + 1)]
        /\ shown \in [Players -> Questions \cup {NoQuestion}]
    BY RoomAssumption DEF Init
  <2>2. progress \in [Players -> Progress] /\ mem \in [Players -> Progress]
    BY BlankType DEF Init
  <2>3. answers \in [Players -> Recorded] /\ acked \in [Players -> Recorded]
    BY BlankType DEF Init
  <2>4. get \in [Loaders -> Reading]
    BY BlankType DEF Init
  <2> QED
    BY <2>1, <2>2, <2>3, <2>4 DEF Init, TypeOK
<1>2. AnswersInOrder
  <2> SUFFICES ASSUME NEW p \in Players
               PROVE  /\ progress[p].resolved <= NumQuestions
                      /\ \A q \in Questions :
                           answers[p][q] # NoAnswer <=> q <= progress[p].resolved
    BY DEF AnswersInOrder
  <2>1. progress[p].resolved = 0
    BY DEF Init, ZeroProgress
  <2>2. \A q \in Questions : answers[p][q] = NoAnswer /\ q > 0
    BY RoomAssumption DEF Init, NothingRecorded, Questions
  <2> QED
    BY <2>1, <2>2, RoomAssumption DEF Questions
<1>3. MemoryIsThePast /\ TimerTracksSession /\ StartIsDated
  BY DEF Init, MemoryIsThePast, TimerTracksSession, StartIsDated
<1>4. AcknowledgedIsDurable
  BY DEF Init, AcknowledgedIsDurable, NothingRecorded
<1>5. OnAirIsNext /\ AbsentIsBlank
  BY DEF Init, OnAirIsNext, AbsentIsBlank
<1>6. TotalsMatchAnswers
  BY NothingAddsUp DEF Init, TotalsMatchAnswers
<1>7. ReadIsPast /\ FreshIsUnused
  BY DEF Init, Idle, ReadIsPast, FreshIsUnused
<1> QED
  BY <1>1, <1>2, <1>3, <1>4, <1>5, <1>6, <1>7 DEF IInv

\* A command of a player, as one of the three ways a result is recorded or as
\* the service of a first question.
LEMMA PlayerStep ==
  ASSUME IInv, NEW p \in Players, NEW o \in SaveOutcomes,
         NextQuestion(p, o) \/ Answer(p, o) \/ AttachPlayer(p, o)
  PROVE  \/ ServeNext(p)
         \/ /\ Playing(p) /\ shown[p] # NoQuestion
            /\ \E points \in Awards \cup {0} :
                 \/ ResolveLost(p, points)
                 \/ \E announce \in BOOLEAN, next \in {NoQuestion, NextAfter(p)} :
                      Resolve(p, points, announce, next)
<1>1. CASE NextQuestion(p, o)
  BY <1>1 DEF NextQuestion, SettleThenServe
<1>2. CASE Answer(p, o)
  <2>1. PICK choice \in {"right", "wrong", "none"} :
          \E points \in PointsFor(p, choice) :
            ResolveLost(p, points) \/ Resolve(p, points, TRUE, NoQuestion)
    BY <1>2 DEF Answer
  <2>2. PointsFor(p, choice) \subseteq Awards \cup {0}
    BY DEF PointsFor
  <2> QED
    BY <1>2, <2>1, <2>2 DEF Answer
<1>3. CASE AttachPlayer(p, o)
  BY <1>3 DEF AttachPlayer
<1> QED
  BY <1>1, <1>2, <1>3

\* Every step keeps it, action by action.
LEMMA NextIInv == IInv /\ [Next]_vars => IInv'
<1> SUFFICES ASSUME IInv, [Next]_vars PROVE IInv'
  OBVIOUS
<1>1. CASE Tick
  BY <1>1, TickKeepsIInv
<1>2. ASSUME NEW p \in Players, NEW o \in SaveOutcomes,
             NextQuestion(p, o) \/ Answer(p, o) \/ AttachPlayer(p, o)
      PROVE  IInv'
  BY <1>2, PlayerStep, ServeNextKeepsIInv, ResolveLostKeepsIInv, ResolveKeepsIInv
<1>3. ASSUME NEW p \in Players, NEW o \in Outcomes, Kick(p, o) \/ JoinRoom(p, o)
      PROVE  IInv'
  BY <1>3, KickKeepsIInv, JoinRoomKeepsIInv
<1>4. ASSUME NEW p \in Players, AddPlayer(p) \/ JoinTooLate(p)
      PROVE  IInv'
  BY <1>4, AddPlayerKeepsIInv, JoinTooLateKeepsIInv
<1>5. ASSUME NEW o \in Outcomes, StartSession(o) \/ LoadExpired(o)
      PROVE  IInv'
  BY <1>5, StartSessionKeepsIInv, LoadExpiredKeepsIInv
<1>6. CASE HostEnds \/ DeadlineEnds
  BY <1>6, HostEndsKeepsIInv
<1>7. CASE Load
  BY <1>7, LoadKeepsIInv
<1>8. ASSUME NEW g \in Loaders, ReadRoom(g) \/ ReadPlayers(g) \/ Spawn(g) \/ GiveUp(g)
      PROVE  IInv'
  BY <1>8, ReadRoomKeepsIInv, ReadPlayersKeepsIInv, SpawnKeepsIInv, GiveUpKeepsIInv
<1>9. CASE Crash
  BY <1>9, CrashKeepsIInv
<1>10. CASE UNCHANGED vars
  <2>1. TypeOK' /\ AnswersInOrder' /\ AcknowledgedIsDurable' /\ TimerTracksSession'
    BY <1>10 DEF IInv, TypeOK, AnswersInOrder, AcknowledgedIsDurable, TimerTracksSession,
                 vars, db, room
  <2>2. UNCHANGED <<rows, progress, answers, mem, members, get, dbAge>>
    BY <1>10 DEF vars, db, room
  <2>3. OnAirIsNext' /\ AbsentIsBlank' /\ FreshIsUnused' /\ StartIsDated'
    BY <1>10 DEF IInv, OnAirIsNext, AbsentIsBlank, FreshIsUnused, StartIsDated,
                 vars, db, room
  <2> QED
    BY <2>1, <2>2, <2>3, PastStays DEF IInv
<1> QED
  BY <1>1, <1>2, <1>3, <1>4, <1>5, <1>6, <1>7, <1>8, <1>9, <1>10 DEF Next

\* Everything below rests on this.
THEOREM Invariance == Spec => []IInv
BY InitIInv, NextIInv, PTL DEF Spec

-----------------------------------------------------------------------------
(* Consequences *)

\* Every variable always has its type.
THEOREM TypeCorrect == Spec => []TypeOK
BY Invariance, PTL DEF IInv

\* Questions are answered in order and at most once, whatever the store does
\* and however old the rows are a room was spawned from.
THEOREM AnsweredInOrder == Spec => []AnswersInOrder
BY Invariance, PTL DEF IInv

\* The score and streak columns always equal what the answers add up to.
THEOREM TotalsAreExact == Spec => []TotalsMatchAnswers
BY Invariance, PTL DEF IInv

\* Memory is never ahead of Postgres: behind a lost reply, or a Get that was
\* overtaken, it is the totals of the first of the player's answers.
THEOREM MemoryIsPast == Spec => []MemoryIsThePast
BY Invariance, PTL DEF IInv

\* No q.result sent to a player is ever lost.
THEOREM AcknowledgedSurvives == Spec => []AcknowledgedIsDurable
BY Invariance, PTL DEF IInv

\* The timer of a running room always ends the session 12 minutes after
\* started_at, however often the room was rebuilt and from whatever rows.
THEOREM TimerIsExact == Spec => []TimerTracksSession
BY Invariance, PTL DEF IInv

-----------------------------------------------------------------------------
(* Room implements QuizSession *)

\* An empty lobby is an empty session.
LEMMA InitImplements == Init => Session!Init
BY DEF Init, Session!Init, NothingRecorded, Session!Blank, NoAnswer, Session!NoAnswer,
       Questions, Session!Questions

\* Recording a result is the abstract Record, if the room may also end.
LEMMA SaveImplements ==
  ASSUME IInv, NEW p \in Players, Playing(p), shown[p] # NoQuestion, CanSave(p),
         NEW points \in Awards \cup {0}, SaveResult(p, points),
         \/ acked' = acked
         \/ acked' = [acked EXCEPT ![p][shown[p]] = points],
         dbStatus' \in {dbStatus, "ended"}
  PROVE  Session!Next
<1>1. /\ p \in rows
      /\ shown[p] = progress[p].resolved + 1
      /\ shown[p] \in Questions
  BY SaveIsInOrder DEF Playing
<1>2. Session!IsNext(p, shown[p])
  BY <1>1 DEF Session!IsNext, Session!Questions, Session!NoAnswer, NoAnswer, Questions,
              IInv, TypeOK, AnswersInOrder, Progress
<1>3. dbStatus # "lobby"
  BY DEF Playing, IInv, TimerTracksSession, StartIsDated
<1>4. Session!Record(p, shown[p], points)
  BY <1>1, <1>2, <1>3 DEF Session!Record, Session!MayEnd, SaveResult
<1> QED
  BY <1>1, <1>4 DEF Session!Next, Session!Questions, Questions

\* What a player's command changes for good is one Record, or nothing.
LEMMA PlayerImplements ==
  ASSUME IInv, NEW p \in Players, NEW o \in SaveOutcomes,
         NextQuestion(p, o) \/ Answer(p, o) \/ AttachPlayer(p, o)
  PROVE  [Session!Next]_(Session!session)
<1>1. CASE ServeNext(p)
  BY <1>1 DEF ServeNext, Session!session, db
<1>2. ASSUME NEW points \in Awards \cup {0}, Playing(p), shown[p] # NoQuestion,
             ResolveLost(p, points)
      PROVE  Session!Next
  BY <1>2, SaveImplements DEF ResolveLost
<1>3. ASSUME NEW points \in Awards \cup {0}, NEW announce \in BOOLEAN,
             NEW next \in {NoQuestion, NextAfter(p)}, Playing(p), shown[p] # NoQuestion,
             Resolve(p, points, announce, next)
      PROVE  Session!Next
  <2>1. dbStatus' \in {dbStatus, "ended"}
    BY <1>3 DEF Resolve, EndSession
  <2> QED
    BY <1>3, <2>1, SaveImplements DEF Resolve
<1> QED
  BY <1>1, <1>2, <1>3, PlayerStep

\* A kick, with its reply lost or not, is a Remove.
LEMMA KickImplements ==
  ASSUME IInv, NEW p \in Players, NEW o \in Outcomes, Kick(p, o)
  PROVE  Session!Next
<1>1. dbStatus' \in {dbStatus, "ended"}
  BY DEF Kick, EndSession
<1>2. Session!Remove(p)
  BY <1>1
  DEF Kick, DeletePlayer, Session!Remove, Session!MayEnd, Session!Blank, NothingRecorded,
      Session!NoAnswer, NoAnswer, Session!Questions, Questions
<1> QED
  BY <1>2 DEF Session!Next

\* Ending is End, or nothing if MarkRoomEnded failed or the row said so before.
LEMMA EndImplements ==
  ASSUME HostEnds \/ DeadlineEnds
  PROVE  [Session!Next]_(Session!session)
<1>1. UNCHANGED <<rows, answers, fresh, acked>> /\ EndSession
  BY DEF HostEnds, DeadlineEnds
<1>2. CASE dbStatus' = dbStatus
  BY <1>1, <1>2 DEF Session!session
<1>3. CASE dbStatus' # dbStatus
  <2>1. Session!End
    BY <1>1, <1>3 DEF EndSession, Session!End
  <2> QED
    BY <2>1 DEF Session!Next
<1> QED
  BY <1>2, <1>3

\* Every step of the room is a step of the session or leaves it alone.
LEMMA NextImplements == IInv /\ [Next]_vars => [Session!Next]_(Session!session)
<1> SUFFICES ASSUME IInv, [Next]_vars PROVE [Session!Next]_(Session!session)
  OBVIOUS
<1>1. ASSUME \/ Tick \/ Load \/ Crash \/ UNCHANGED vars
             \/ \E g \in Loaders : ReadRoom(g) \/ ReadPlayers(g) \/ Spawn(g) \/ GiveUp(g)
      PROVE  UNCHANGED Session!session
  BY <1>1 DEF Tick, Load, ReadRoom, ReadPlayers, Spawn, GiveUp, Serve, Crash, vars, db,
              Session!session
<1>2. ASSUME NEW p \in Players, NEW o \in SaveOutcomes,
             NextQuestion(p, o) \/ Answer(p, o) \/ AttachPlayer(p, o)
      PROVE  [Session!Next]_(Session!session)
  BY <1>2, PlayerImplements
<1>3. ASSUME NEW p \in Players, NEW o \in Outcomes, Kick(p, o)
      PROVE  Session!Next
  BY <1>3, KickImplements
<1>4. ASSUME NEW p \in Players, NEW o \in Outcomes, JoinRoom(p, o)
      PROVE  Session!Next
  <2>1. Session!Join(p)
    BY <1>4 DEF JoinRoom, OpenForJoin, Session!Join
  <2> QED
    BY <2>1 DEF Session!Next
<1>5. ASSUME NEW p \in Players, AddPlayer(p) \/ JoinTooLate(p)
      PROVE  UNCHANGED Session!session
  BY <1>5 DEF AddPlayer, JoinTooLate, db, Session!session
<1>6. ASSUME NEW o \in Outcomes, StartSession(o)
      PROVE  Session!Next
  BY <1>6 DEF StartSession, Session!Start, Session!Next
<1>7. ASSUME NEW o \in Outcomes, LoadExpired(o)
      PROVE  Session!Next
  BY <1>7 DEF LoadExpired, Session!End, Session!Next
<1>8. ASSUME HostEnds \/ DeadlineEnds
      PROVE  [Session!Next]_(Session!session)
  BY <1>8, EndImplements
<1> QED
  BY <1>1, <1>2, <1>3, <1>4, <1>5, <1>6, <1>7, <1>8 DEF Next

\* For every instance, what the room does to its permanent record and tells
\* its players is a behaviour of the abstract session.
THEOREM Implementation == Spec => ImplementsSession
BY InitImplements, NextImplements, Invariance, PTL
DEF Spec, ImplementsSession, Session!Spec

-----------------------------------------------------------------------------
(* Action properties *)

\* A step writes answers only by inserting one for the question on air of a
\* player of the running room, or by deleting the answers of a player with the
\* row; points are positive only when the answer is not too late.
LEMMA AnswersStep ==
  ASSUME IInv, [Next]_vars
  PROVE  \/ answers' = answers
         \/ \E p \in Players : p \notin rows' /\ answers' = [answers EXCEPT ![p] = NothingRecorded]
         \/ \E p \in Players, points \in Awards \cup {0} :
              /\ Playing(p) /\ shown[p] # NoQuestion /\ CanSave(p)
              /\ answers' = [answers EXCEPT ![p][shown[p]] = points]
              /\ points > 0 => ~TooLate(p)
<1>1. ASSUME NEW p \in Players, NEW o \in SaveOutcomes,
             NextQuestion(p, o) \/ AttachPlayer(p, o)
      PROVE  \/ answers' = answers
             \/ /\ Playing(p) /\ shown[p] # NoQuestion /\ CanSave(p)
                /\ answers' = [answers EXCEPT ![p][shown[p]] = 0]
  BY <1>1 DEF NextQuestion, ServeNext, SettleThenServe, AttachPlayer, Resolve, ResolveLost,
              SaveResult, db
<1>2. ASSUME NEW p \in Players, NEW o \in SaveOutcomes, Answer(p, o)
      PROVE  \E points \in Awards \cup {0} :
              /\ Playing(p) /\ shown[p] # NoQuestion /\ CanSave(p)
              /\ answers' = [answers EXCEPT ![p][shown[p]] = points]
              /\ points > 0 => ~TooLate(p)
  <2>1. PICK choice \in {"right", "wrong", "none"} :
          \E points \in PointsFor(p, choice) :
            ResolveLost(p, points) \/ Resolve(p, points, TRUE, NoQuestion)
    BY <1>2 DEF Answer
  <2>2. PICK points \in PointsFor(p, choice) :
          ResolveLost(p, points) \/ Resolve(p, points, TRUE, NoQuestion)
    BY <2>1
  <2>3. CanSave(p) /\ answers' = [answers EXCEPT ![p][shown[p]] = points]
    BY <2>2 DEF Resolve, ResolveLost, SaveResult
  <2>4. points \in Awards \cup {0} /\ (points > 0 => ~TooLate(p))
    BY <2>2 DEF PointsFor
  <2> QED
    BY <1>2, <2>3, <2>4 DEF Answer
<1>3. ASSUME NEW p \in Players, NEW o \in Outcomes, Kick(p, o)
      PROVE  p \notin rows' /\ answers' = [answers EXCEPT ![p] = NothingRecorded]
  BY <1>3 DEF Kick, DeletePlayer
<1>4. ASSUME \/ Tick \/ Load \/ Crash \/ UNCHANGED vars
             \/ \E p \in Players, o \in Outcomes : JoinRoom(p, o)
             \/ \E p \in Players : AddPlayer(p) \/ JoinTooLate(p)
             \/ \E o \in Outcomes : StartSession(o) \/ LoadExpired(o)
             \/ HostEnds \/ DeadlineEnds
             \/ \E g \in Loaders : ReadRoom(g) \/ ReadPlayers(g) \/ Spawn(g) \/ GiveUp(g)
      PROVE  answers' = answers
  BY <1>4 DEF Tick, Load, Crash, vars, db, JoinRoom, AddPlayer, JoinTooLate, StartSession,
              LoadExpired, HostEnds, DeadlineEnds, ReadRoom, ReadPlayers, Spawn, GiveUp,
              Serve
<1>5. 0 \in Awards \cup {0} /\ ~(0 > 0)
  OBVIOUS
<1> QED
  BY <1>1, <1>2, <1>3, <1>4, <1>5 DEF Next

\* The first answer is kept.
THEOREM FirstAnswerIsKept == Spec => AnswersAreFinal
<1>1. ASSUME IInv, [Next]_vars,
             NEW p \in rows \cap rows', NEW q \in Questions, answers[p][q] # NoAnswer
      PROVE  answers'[p][q] = answers[p][q]
  <2>1. p \in Players /\ answers \in [Players -> Recorded]
    BY <1>1 DEF IInv, TypeOK
  <2>2. ASSUME NEW s \in Players, NEW points \in Awards \cup {0}, CanSave(s),
               answers' = [answers EXCEPT ![s][shown[s]] = points]
        PROVE  answers'[p][q] = answers[p][q]
    BY <1>1, <2>1, <2>2 DEF CanSave, Recorded
  <2>3. ASSUME NEW s \in Players, s \notin rows',
               answers' = [answers EXCEPT ![s] = NothingRecorded]
        PROVE  answers'[p][q] = answers[p][q]
    BY <1>1, <2>1, <2>3
  <2> QED
    BY <1>1, <2>2, <2>3, AnswersStep
<1>2. IInv /\ [Next]_vars =>
        [\A p \in rows \cap rows', q \in Questions :
           answers[p][q] # NoAnswer => answers'[p][q] = answers[p][q]]_vars
  BY <1>1
<1> QED
  BY <1>2, Invariance, PTL DEF Spec, AnswersAreFinal

\* Points are only given in a session that was started, by a room that runs it,
\* to the question on air, in time.
THEOREM PointsAreInTime == Spec => PointsOnlyInTime
<1>1. ASSUME IInv, [Next]_vars,
             NEW p \in Players, NEW q \in Questions,
             answers[p][q] = NoAnswer, answers'[p][q] > 0
      PROVE  /\ dbStatus # "lobby" /\ status = "running"
             /\ shown[p] = q
             /\ age[p] <= AnswerWindow
  <2>1. answers \in [Players -> Recorded] /\ age[p] \in Int /\ AnswerWindow \in Int
    BY <1>1, RoomAssumption DEF IInv, TypeOK
  <2>2. answers' # answers
    BY <1>1 DEF NoAnswer
  <2>3. ASSUME NEW s \in Players, answers' = [answers EXCEPT ![s] = NothingRecorded]
        PROVE  FALSE
    BY <1>1, <2>1, <2>3 DEF NothingRecorded, NoAnswer
  <2>4. ASSUME NEW s \in Players, NEW points \in Awards \cup {0}, Playing(s),
               answers' = [answers EXCEPT ![s][shown[s]] = points],
               points > 0 => ~TooLate(s)
        PROVE  /\ dbStatus # "lobby" /\ status = "running"
               /\ shown[p] = q
               /\ age[p] <= AnswerWindow
    <3>1. s = p /\ shown[p] = q /\ points > 0
      BY <1>1, <2>1, <2>4 DEF NoAnswer, Recorded
    <3> QED
      BY <1>1, <2>1, <2>4, <3>1 DEF TooLate, Playing, IInv, TimerTracksSession, StartIsDated
  <2> QED
    BY <1>1, <2>2, <2>3, <2>4, AnswersStep
<1>2. IInv /\ [Next]_vars =>
        [\A p \in Players, q \in Questions :
           answers[p][q] = NoAnswer /\ answers'[p][q] > 0 =>
             /\ dbStatus # "lobby" /\ status = "running"
             /\ shown[p] = q
             /\ age[p] <= AnswerWindow]_vars
  BY <1>1
<1> QED
  BY <1>2, Invariance, PTL DEF Spec, PointsOnlyInTime

\* A member the room remembers as finished was one before it was added.
LEMMA NewMemberIsUnfinished ==
  ASSUME IInv, NEW p \in Players, AddPlayer(p), AllFinished(members', mem')
  PROVE  AllFinished(members, mem)
<1>1. members' = members \cup {p} /\ mem' = mem
  BY DEF AddPlayer
<1>2. mem[p].resolved >= NumQuestions
  BY <1>1 DEF AllFinished
<1>3. p \in members
  BY <1>2, RoomAssumption DEF IInv, AbsentIsBlank, ZeroProgress
<1> QED
  BY <1>1, <1>3

\* No handler leaves a running room behind whose players have all finished.
THEOREM FinishedRoomsEnd == Spec => HandlersEndFinishedRoom
<1>1. ASSUME IInv, [Next]_vars,
             status # "off", status' = "running", AllFinished(members', mem')
      PROVE  AllFinished(members, mem)
  <2>1. ASSUME NEW p \in Players, NEW o \in SaveOutcomes,
               NextQuestion(p, o) \/ Answer(p, o) \/ AttachPlayer(p, o)
        PROVE  AllFinished(members, mem)
    <3>1. CASE ServeNext(p)
      BY <1>1, <3>1 DEF ServeNext
    <3>2. ASSUME NEW points \in Awards \cup {0}, ResolveLost(p, points)
          PROVE  AllFinished(members, mem)
      BY <1>1, <3>2 DEF ResolveLost, room
    <3>3. ASSUME NEW points \in Awards \cup {0}, NEW announce \in BOOLEAN,
                 NEW next \in {NoQuestion, NextAfter(p)},
                 Resolve(p, points, announce, next)
          PROVE  FALSE
      BY <1>1, <3>3 DEF Resolve, EndSession, Stop
    <3> QED
      BY <1>1, <2>1, <3>1, <3>2, <3>3, PlayerStep
  <2>2. ASSUME NEW p \in Players, NEW o \in Outcomes, Kick(p, o)
        PROVE  AllFinished(members, mem)
    <3>1. CASE UNCHANGED <<dbStatus, room>>
      BY <1>1, <3>1 DEF room
    <3>2. CASE EndSession
      BY <1>1, <3>2 DEF EndSession, Stop
    <3>3. CASE /\ ~KickEnds(p)
               /\ members' = members \ {p}
               /\ mem' = [mem EXCEPT ![p] = ZeroProgress]
               /\ UNCHANGED <<dbStatus, status, timer>>
      <4>1. \A s \in members' : mem'[s] = mem[s]
        BY <1>1, <3>3 DEF IInv, TypeOK
      <4>2. AllFinished(members \ {p}, mem)
        BY <1>1, <3>3, <4>1 DEF AllFinished
      <4> QED
        BY <1>1, <3>3, <4>2 DEF KickEnds
    <3> QED
      BY <2>2, <3>1, <3>2, <3>3 DEF Kick
  <2>3. ASSUME NEW p \in Players, AddPlayer(p)
        PROVE  AllFinished(members, mem)
    BY <1>1, <2>3, NewMemberIsUnfinished
  <2>4. ASSUME \/ Tick \/ UNCHANGED vars
               \/ \E p \in Players, o \in Outcomes : JoinRoom(p, o)
               \/ \E p \in Players : JoinTooLate(p)
               \/ \E o \in Outcomes : StartSession(o) \/ LoadExpired(o)
               \/ \E g \in Loaders : ReadRoom(g) \/ ReadPlayers(g) \/ GiveUp(g)
        PROVE  UNCHANGED <<members, mem>>
    BY <2>4 DEF Tick, vars, room, JoinRoom, JoinTooLate, StartSession, LoadExpired,
                ReadRoom, ReadPlayers, GiveUp
  <2>5. ASSUME \/ Load \/ Crash
               \/ HostEnds \/ DeadlineEnds
               \/ \E g \in Loaders : Spawn(g)
        PROVE  FALSE
    BY <1>1, <2>5 DEF Load, Spawn, Serve, Crash, HostEnds, DeadlineEnds, EndSession, Stop
  <2> QED
    BY <1>1, <2>1, <2>2, <2>3, <2>4, <2>5 DEF Next
<1>2. IInv /\ [Next]_vars =>
        [status # "off" /\ status' = "running" /\ AllFinished(members', mem') =>
           AllFinished(members, mem)]_vars
  BY <1>1
<1> QED
  BY <1>2, Invariance, PTL DEF Spec, HandlersEndFinishedRoom

-----------------------------------------------------------------------------
(* What holds if no reply is lost and no Get is overtaken *)

\* Memory and rows agree about whoever has both, and who is not yet in the room
\* has recorded nothing.
Synced ==
  /\ \A p \in members \cap rows : mem[p] = progress[p]
  /\ status # "off" => \A p \in rows \ members : progress[p] = ZeroProgress

LEMMA NextSynced ==
  ASSUME "lost" \notin SaveOutcomes, Loaders = {}, IInv, Synced, [Next]_vars
  PROVE  Synced'
<1>1. ASSUME NEW p \in Players, NEW points, NEW announce, NEW next, p \in members,
             Resolve(p, points, announce, next)
      PROVE  Synced'
  <2>1. /\ rows' = rows
        /\ progress' = [progress EXCEPT ![p] = Advance(mem[p], points)]
    BY <1>1 DEF Resolve, SaveResult
  <2>2. \/ members' = {} /\ status' = "off"
        \/ /\ members' = members /\ status' = status
           /\ mem' = [mem EXCEPT ![p] = Advance(mem[p], points)]
    BY <1>1 DEF Resolve, EndSession, Stop
  <2> QED
    BY <1>1, <2>1, <2>2 DEF Synced, IInv, TypeOK
<1>2. ASSUME NEW p \in Players, NEW o \in SaveOutcomes,
             NextQuestion(p, o) \/ Answer(p, o) \/ AttachPlayer(p, o)
      PROVE  Synced'
  <2>1. CASE ServeNext(p)
    BY <2>1 DEF ServeNext, db, Synced
  <2>2. CASE NextQuestion(p, o) /\ ~ServeNext(p)
    BY <1>1, <2>2 DEF NextQuestion, SettleThenServe, Playing
  <2>3. CASE Answer(p, o)
    <3>1. PICK choice \in {"right", "wrong", "none"} :
            \E points \in PointsFor(p, choice) : Resolve(p, points, TRUE, NoQuestion)
      BY <2>3 DEF Answer
    <3> QED
      BY <1>1, <2>3, <3>1 DEF Answer, Playing
  <2>4. CASE AttachPlayer(p, o)
    BY <1>1, <2>4 DEF AttachPlayer, Playing
  <2> QED
    BY <1>2, <2>1, <2>2, <2>3, <2>4
<1>3. ASSUME NEW p \in Players, NEW o \in Outcomes, Kick(p, o)
      PROVE  Synced'
  <2>1. /\ rows' = rows \ {p}
        /\ progress' = [progress EXCEPT ![p] = ZeroProgress]
    BY <1>3 DEF Kick, DeletePlayer
  <2>2. \/ members' = {} /\ status' = "off"
        \/ members' = members /\ status' = status /\ mem' = mem
        \/ /\ members' = members \ {p} /\ status' = status
           /\ mem' = [mem EXCEPT ![p] = ZeroProgress]
    BY <1>3 DEF Kick, EndSession, Stop, room
  <2> QED
    BY <2>1, <2>2 DEF Synced, IInv, TypeOK
<1>4. ASSUME NEW p \in Players, NEW o \in Outcomes, JoinRoom(p, o)
      PROVE  Synced'
  <2>1. p \notin rows /\ p \notin members /\ progress[p] = ZeroProgress
    BY <1>4 DEF JoinRoom, IInv, FreshIsUnused, AbsentIsBlank
  <2> QED
    BY <1>4, <2>1 DEF JoinRoom, room, Synced
<1>5. ASSUME NEW p \in Players, AddPlayer(p)
      PROVE  Synced'
  BY <1>5 DEF AddPlayer, db, Synced, IInv, AbsentIsBlank
<1>6. ASSUME \/ Tick \/ UNCHANGED vars \/ \E p \in Players : JoinTooLate(p)
             \/ \E o \in Outcomes : LoadExpired(o)
      PROVE  Synced'
  BY <1>6 DEF Tick, JoinTooLate, LoadExpired, vars, db, room, Synced
<1>7. ASSUME NEW o \in Outcomes, StartSession(o)
      PROVE  Synced'
  BY <1>7 DEF StartSession, Synced
<1>8. CASE Load
  BY <1>8 DEF Load, Serve, Restored, db, Synced
<1>9. ASSUME Crash \/ HostEnds \/ DeadlineEnds
      PROVE  Synced'
  BY <1>9 DEF Crash, HostEnds, DeadlineEnds, EndSession, Stop, Synced
<1> QED
  BY <1>2, <1>3, <1>4, <1>5, <1>6, <1>7, <1>8, <1>9 DEF Next

\* If no save loses its reply and no Get is overtaken, the question on air can
\* always be recorded.
THEOREM RetriesAreOpen ==
  ASSUME "lost" \notin SaveOutcomes, Loaders = {}
  PROVE  Spec => []QuestionOnAirIsOpen
<1>1. Init => Synced
  BY DEF Init, Synced
<1>2. IInv /\ Synced /\ [Next]_vars => Synced'
  BY NextSynced
<1>3. ASSUME IInv, Synced
      PROVE  QuestionOnAirIsOpen
  <2> SUFFICES ASSUME NEW p \in members \cap rows, shown[p] # NoQuestion
               PROVE  answers[p][shown[p]] = NoAnswer
    BY DEF QuestionOnAirIsOpen
  <2>1. p \in Players /\ shown[p] \in Questions /\ progress[p] \in Progress
    BY <1>3 DEF IInv, TypeOK
  <2>2. shown[p] = progress[p].resolved + 1
    BY <1>3, <2>1 DEF IInv, OnAirIsNext, Synced
  <2> QED
    BY <1>3, <2>1, <2>2 DEF IInv, AnswersInOrder, Progress
<1> QED
  BY <1>1, <1>2, <1>3, Invariance, PTL DEF Spec

\* A session recorded as ended is served again only through a Get that was
\* overtaken: if none is, no goroutine serves a room its row says is over,
\* whatever the store answers.
THEOREM EndedRoomsStayEnded ==
  ASSUME Loaders = {}
  PROVE  Spec => [](status # "off" => dbStatus # "ended")
<1> DEFINE Over == status # "off" => dbStatus # "ended"
<1>1. Init => Over
  BY DEF Init
<1>2. ASSUME Over, [Next]_vars
      PROVE  Over'
  <2>1. EndSession => status' = "off"
    BY DEF EndSession, Stop
  <2>2. ASSUME NEW p \in Players, NEW o \in SaveOutcomes,
               NextQuestion(p, o) \/ Answer(p, o) \/ AttachPlayer(p, o)
        PROVE  Over'
    BY <1>2, <2>1, <2>2
    DEF NextQuestion, ServeNext, SettleThenServe, Answer, AttachPlayer, Resolve,
        ResolveLost, db, room
  <2>3. ASSUME NEW p \in Players, NEW o \in Outcomes, Kick(p, o)
        PROVE  Over'
    BY <1>2, <2>1, <2>3 DEF Kick, room
  <2>4. ASSUME HostEnds \/ DeadlineEnds
        PROVE  Over'
    BY <2>1, <2>4 DEF HostEnds, DeadlineEnds
  <2>5. ASSUME NEW o \in Outcomes, StartSession(o) \/ LoadExpired(o)
        PROVE  Over'
    BY <2>5 DEF StartSession, LoadExpired, room
  <2>6. ASSUME Load \/ Crash
        PROVE  Over'
    BY <2>6 DEF Load, MayBeLoaded, Serve, Crash, Stop, db
  <2>7. ASSUME \/ Tick \/ UNCHANGED vars
               \/ \E p \in Players, o \in Outcomes : JoinRoom(p, o)
               \/ \E p \in Players : AddPlayer(p) \/ JoinTooLate(p)
        PROVE  Over'
    BY <1>2, <2>7 DEF Tick, vars, db, room, JoinRoom, AddPlayer, JoinTooLate
  <2> QED
    BY <1>2, <2>2, <2>3, <2>4, <2>5, <2>6, <2>7 DEF Next
<1> HIDE DEF Over
<1>3. Spec => []Over
  BY <1>1, <1>2, PTL DEF Spec
<1> QED
  BY <1>3 DEF Over

\* If no reply of MarkRoomStarted is lost and no Get is overtaken, a room in
\* memory has the status of its row: no lobby waits for a start that Postgres
\* has already recorded.
THEOREM StartsAreSeen ==
  ASSUME "lost" \notin Outcomes, Loaders = {}
  PROVE  Spec => [](status # "off" => status = dbStatus)
<1> DEFINE Agrees == status # "off" => status = dbStatus
<1>1. Init => Agrees
  BY DEF Init
<1>2. ASSUME Agrees, [Next]_vars
      PROVE  Agrees'
  <2>1. EndSession => status' = "off"
    BY DEF EndSession, Stop
  <2>2. ASSUME NEW p \in Players, NEW o \in SaveOutcomes,
               NextQuestion(p, o) \/ Answer(p, o) \/ AttachPlayer(p, o)
        PROVE  Agrees'
    BY <1>2, <2>1, <2>2
    DEF NextQuestion, ServeNext, SettleThenServe, Answer, AttachPlayer, Resolve,
        ResolveLost, db, room
  <2>3. ASSUME NEW p \in Players, NEW o \in Outcomes, Kick(p, o)
        PROVE  Agrees'
    BY <1>2, <2>1, <2>3 DEF Kick, room
  <2>4. ASSUME HostEnds \/ DeadlineEnds
        PROVE  Agrees'
    BY <2>1, <2>4 DEF HostEnds, DeadlineEnds
  <2>5. ASSUME NEW o \in Outcomes, StartSession(o) \/ LoadExpired(o)
        PROVE  Agrees'
    BY <2>5 DEF StartSession, LoadExpired, room
  <2>6. ASSUME Load \/ Crash
        PROVE  Agrees'
    BY <2>6 DEF Load, Serve, Crash, Stop, db
  <2>7. ASSUME \/ Tick \/ UNCHANGED vars
               \/ \E p \in Players, o \in Outcomes : JoinRoom(p, o)
               \/ \E p \in Players : AddPlayer(p) \/ JoinTooLate(p)
        PROVE  Agrees'
    BY <1>2, <2>7 DEF Tick, vars, db, room, JoinRoom, AddPlayer, JoinTooLate
  <2> QED
    BY <1>2, <2>2, <2>3, <2>4, <2>5, <2>6, <2>7 DEF Next
<1> HIDE DEF Agrees
<1>3. Spec => []Agrees
  BY <1>1, <1>2, PTL DEF Spec
<1> QED
  BY <1>3 DEF Agrees

=============================================================================
