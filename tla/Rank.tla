-------------------------------- MODULE Rank --------------------------------
(***************************************************************************)
(* internal/rank: the order of the players, and the one number it is       *)
(* folded into so that a Redis sorted set can keep it.                     *)
(***************************************************************************)
EXTENDS Integers, FiniteSets, Sequences

CONSTANTS
  ScoreUnit,    \* scoreUnit, 100 000 000
  CorrectUnit,  \* correctUnit, 1 000 000
  MaxCorrect    \* correct answers that fit between the two, 99

ASSUME RankAssumption ==
  /\ CorrectUnit \in Nat \ {0}
  /\ MaxCorrect \in Nat
  /\ ScoreUnit = (MaxCorrect + 1) * CorrectUnit

maxTotalMs == CorrectUnit - 1

Standing == [score : Nat, correct : Nat, totalMs : Nat]

KeyOverflowing(s) ==   \* mutant: a unit too small for the milliseconds
  s.score * ScoreUnit + s.correct * (CorrectUnit - 1) + (maxTotalMs - s.totalMs)

\* float64 holds the sum exactly; see KeyIsExact in LeaderboardProofs.
Key(s) ==
  LET ms == IF s.totalMs > maxTotalMs THEN maxTotalMs ELSE s.totalMs
  IN s.score * ScoreUnit + s.correct * CorrectUnit + (maxTotalMs - ms)

\* The order the key stands for, that of GetRoomLeaderboard's RANK().
Better(s, t) ==
  \/ s.score > t.score
  \/ s.score = t.score /\ s.correct > t.correct
  \/ s.score = t.score /\ s.correct = t.correct /\ s.totalMs < t.totalMs

\* Order: a stable sort, best key first, of the ids in ord.
PlaceOf(ord, key, i) ==
  1 + Cardinality({j \in DOMAIN ord :
        \/ key[ord[j]] > key[ord[i]]
        \/ key[ord[j]] = key[ord[i]] /\ j < i})

Order(ord, key) ==
  [n \in DOMAIN ord |-> ord[CHOOSE i \in DOMAIN ord : PlaceOf(ord, key, i) = n]]

=============================================================================
