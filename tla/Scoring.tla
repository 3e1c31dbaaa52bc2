------------------------------- MODULE Scoring -------------------------------
(***************************************************************************)
(* A player's session: the questions selected for the room, the points of  *)
(* internal/game/scoring.go and the totals gathered with them, in the      *)
(* milliseconds of the code: outcomeOf and resolve of play.go, and the     *)
(* integers of internal/store/gameplay.go.                                 *)
(*                                                                         *)
(* Times are whole milliseconds: time.Duration.Milliseconds cuts off the   *)
(* rest, and every limit is a whole number of them.                        *)
(***************************************************************************)
EXTENDS Integers, Sums, Selector

CONSTANTS
  MoreQuestions, \* bound on the questions asked once the player is brought back
  Step           \* milliseconds from one look at the clock to the next

ASSUME ScoringAssumption == MoreQuestions \in Nat /\ Step \in Nat \ {0}

networkGraceMs == 1000
streakBonus == 50
maxStreakBonus == 250
basePoints == <<500, 750, 1000>>
timerByLevel == <<15000, 20000, 25000>>

\* smallSchoolTimer: SD rooms get 25% more time.
questionLimit(l, j) ==
  IF j = "SD" THEN timerByLevel[l] + timerByLevel[l] \div 4 ELSE timerByLevel[l]

readingGrace(j) == IF j = "SD" THEN 3000 ELSE 2000

\* math.Round of n / d. The float may fall on either side of a tie.
Rounded(n, d) ==
  LET up == (2 * n + d) \div (2 * d)
  IN IF (2 * n + d) % (2 * d) = 0 THEN {up - 1, up} ELSE {up}

AtMost(a, b) == IF a < b THEN a ELSE b
AtLeast(a, b) == IF a > b THEN a ELSE b

Bonus(s) == AtMost(streakBonus * s, maxStreakBonus)

SpeedPointsUpward(l, j, ms) ==   \* mutant: the share of the time used, not of that left
  LET span == questionLimit(l, j) - readingGrace(j)
      late == AtLeast(0, AtMost(ms, questionLimit(l, j)) - readingGrace(j))
  IN Rounded(basePoints[l] * (3 * span + 2 * late), 5 * span)

\* base * (0.6 + 0.4 * speedFactor): all of it during the reading time, 0.6
\* of it from the limit on.
SpeedPoints(l, j, ms) ==
  LET span == questionLimit(l, j) - readingGrace(j)
      late == AtLeast(0, AtMost(ms, questionLimit(l, j)) - readingGrace(j))
  IN Rounded(basePoints[l] * (5 * span - 2 * late), 5 * span)

\* What Score may return for a correct answer.
Score(l, j, exact, ms, s) ==
  IF ms > questionLimit(l, j) + networkGraceMs THEN {0}
  ELSE {points + Bonus(s) :
          points \in IF exact THEN {basePoints[l]} ELSE SpeedPoints(l, j, ms)}

toInt16(v) == AtMost(AtLeast(v, -32768), 32767)
toInt32(v) == AtMost(AtLeast(v, -2147483647 - 1), 2147483647)

VARIABLES
  accuracy,  \* accuracy_mode of the room
  score, correct, streak, totalMs, resolved,  \* of the playerState
  restored,  \* resolved when the player was brought back
  level,     \* of the question on air, 0 for none
  elapsed    \* milliseconds since it was served

totals == <<score, correct, streak, totalMs, resolved>>
vars == <<selection, accuracy, restored, totals, level, elapsed>>

NumQuestions == Len(ids)

\* The level of the k-th question.
LevelOf(k) == ids[k].bucket[2]

\* The base points of each question, and the milliseconds it allows.
Worth == [k \in 1..NumQuestions |-> basePoints[LevelOf(k)]]
Allotted == [k \in 1..NumQuestions |-> questionLimit(LevelOf(k), jenjang)]

Init ==
  /\ SelectInit
  /\ accuracy \in BOOLEAN
  /\ restored = 0
  /\ resolved = 0
  /\ score = 0
  /\ correct = 0
  /\ streak = 0
  /\ totalMs = 0
  /\ level = 0
  /\ elapsed = 0

Select ==
  /\ SelectNext
  /\ UNCHANGED <<accuracy, restored, totals, level, elapsed>>

\* The room is served. The player is new or is brought back from a row in
\* which the first questions were all answered well at once, or all timed out.
AddPlayer ==
  /\ Keep
  /\ restored' \in 0..NumQuestions
  /\ resolved' = restored'
  /\ \/ /\ score' = SumOf([k \in 1..NumQuestions |-> Worth[k] + Bonus(k - 1)], restored')
        /\ correct' = restored'
        /\ streak' = restored'
        /\ totalMs' = 0
     \/ /\ UNCHANGED <<score, correct, streak>>
        /\ totalMs' = SumOf(Allotted, restored')
  /\ UNCHANGED <<accuracy, level, elapsed>>

limit == questionLimit(level, jenjang)
deadlineLonger == limit + (2 * networkGraceMs)   \* mutant: later than the one of Score

deadline == limit + networkGraceMs

Serve ==
  /\ answer = "playing"
  /\ level = 0
  /\ resolved < NumQuestions
  /\ resolved < restored + MoreQuestions
  /\ level' = LevelOf(resolved + 1)
  /\ elapsed' = 0
  /\ UNCHANGED <<selection, accuracy, restored, totals>>

\* Looks at the clock: every Step, at the deadline, and just after it.
Wait ==
  /\ level # 0
  /\ elapsed <= deadline
  /\ elapsed' = IF elapsed < deadline THEN AtMost(elapsed + Step, deadline) ELSE deadline + 1
  /\ UNCHANGED <<selection, accuracy, restored, totals, level>>

ResolveKeepsStreak(isCorrect, points, spent) ==   \* mutant: a wrong answer does not end a streak
  /\ score' = score + points
  /\ totalMs' = totalMs + spent
  /\ resolved' = resolved + 1
  /\ streak' = streak + 1
  /\ correct' = IF isCorrect THEN correct + 1 ELSE correct
  /\ level' = 0
  /\ elapsed' = 0
  /\ UNCHANGED <<selection, accuracy, restored>>

\* resolve
Resolve(isCorrect, points, spent) ==
  /\ score' = score + points
  /\ totalMs' = totalMs + spent
  /\ resolved' = resolved + 1
  /\ streak' = IF isCorrect THEN streak + 1 ELSE 0
  /\ correct' = IF isCorrect THEN correct + 1 ELSE correct
  /\ level' = 0
  /\ elapsed' = 0
  /\ UNCHANGED <<selection, accuracy, restored>>

SpentLate == elapsed   \* mutant: the grace counts as time

\* The time an answer took; the grace for the network is not counted.
Spent == AtMost(elapsed, limit)

AnswerRight ==
  /\ level # 0
  /\ elapsed <= deadline
  /\ \E points \in Score(level, jenjang, accuracy, elapsed, streak) :
       Resolve(TRUE, points, Spent)

AnswerWrong ==
  /\ level # 0
  /\ elapsed <= deadline
  /\ Resolve(FALSE, 0, Spent)

\* No option, an answer after the deadline, or a question settled later.
TimeOut ==
  /\ level # 0
  /\ Resolve(FALSE, 0, limit)

Next == Select \/ AddPlayer \/ Serve \/ Wait \/ AnswerRight \/ AnswerWrong \/ TimeOut

Spec == Init /\ [][Next]_vars

-----------------------------------------------------------------------------
(* Properties *)

\* Every variable has its type; a streak is no longer than the correct answers,
\* and those no more than the questions settled.
TypeOK ==
  /\ SelectorTypes
  /\ accuracy \in BOOLEAN
  /\ score \in Nat
  /\ correct \in 0..resolved
  /\ streak \in 0..correct
  /\ totalMs \in Nat
  /\ resolved \in 0..NumQuestions
  /\ level \in Levels \cup {0}
  /\ elapsed \in Nat

\* A session earns no more than its questions are worth and spends no more time
\* than they allow, which is what the rest of the code relies on: toInt16 and
\* toInt32 clamp no total, and correct answers and time fit the places of the
\* ranking key (rank.go: correct < 100, total_ms <= 999 999, "a session never
\* exceeds ~470,000 ms").
TotalsFit ==
  /\ score <= SumOf(Worth, resolved) + 250 * correct
  /\ totalMs <= SumOf(Allotted, resolved)
  /\ totalMs <= 470000
  /\ correct < 100
  /\ toInt32(score) = score /\ toInt32(totalMs) = totalMs
  /\ toInt16(correct) = correct /\ toInt16(streak) = streak /\ toInt16(resolved) = resolved

\* Whoever answers the same question later, with the same streak, never gets
\* more points, whichever way the two results are rounded.
SlowerEarnsNoMore ==
  [][level # 0 /\ level' = level =>
       \A now \in Score(level, jenjang, accuracy, elapsed, streak),
          later \in Score(level, jenjang, accuracy, elapsed', streak) : later <= now]_vars

\* An answer counts as correct exactly if it earns points, at least 60% of the
\* question's base and at most 1250: the deadline of outcomeOf and the one of
\* Score agree to the millisecond.
CorrectMeansPoints ==
  [][level # 0 /\ resolved' = resolved + 1 =>
       LET gain == score' - score IN
       \/ correct' = correct + 1 /\ 5 * gain >= 3 * basePoints[level] /\ gain <= 1250
       \/ correct' = correct /\ gain = 0 /\ streak' = 0]_vars

=============================================================================
