------------------------------ MODULE Selector ------------------------------
(***************************************************************************)
(* SelectQuestions of internal/game/selector.go: the questions of a new    *)
(* room, one stage per site, three cells (or two) of given levels each.    *)
(*                                                                         *)
(* The shuffle only decides which question of a bucket comes first. The    *)
(* properties do not tell the questions of a bucket apart, so a question   *)
(* is named by its site, its level and its place after the shuffle.        *)
(***************************************************************************)
EXTENDS Composition, FiniteSets

CONSTANTS
  Plenty,   \* questions of a bucket that lacks none
  MaxShort  \* buckets that may have fewer

ASSUME SelectorAssumption == Plenty \in Nat /\ MaxShort \in Nat

Buckets == Sites \X Levels

levelsOfFirstTwo(levels, short) ==   \* mutant: the last cell is dropped
  IF short THEN SubSeq(levels, 1, 2) ELSE levels

levelsToAsk(levels, short) ==
  IF short THEN <<levels[1], levels[Len(levels)]>> ELSE levels

VARIABLES
  jenjang, short,  \* what the host asked for
  bank,            \* number of questions in each bucket
  stage, cell,     \* the loops: a site and a place in its levels
  next,            \* questions taken from each bucket
  ids,             \* the selection so far
  answer           \* "none" while it runs, then "ok" or "refused"; "playing" once
                   \* the room is served

selection == <<jenjang, short, bank, stage, cell, next, ids, answer>>

Asked(s) == levelsToAsk(composition[jenjang][s], short)

SelectInit ==
  /\ jenjang \in Jenjangs
  /\ short \in BOOLEAN
  /\ \E poor \in SUBSET Buckets :
       /\ Cardinality(poor) <= MaxShort
       /\ \E have \in [poor -> 0..(Plenty - 1)] :
            bank = [b \in Buckets |-> IF b \in poor THEN have[b] ELSE Plenty]
  /\ stage = 1
  /\ cell = 1
  /\ next = [b \in Buckets |-> 0]
  /\ ids = <<>>
  /\ answer = "none"

HasQuestionOff(b) == next[b] <= bank[b]   \* mutant: off by one

HasQuestion(b) == next[b] < bank[b]

TakeAgain ==   \* mutant: the place in the bucket is not advanced
  LET b == <<stage, Asked(stage)[cell]>> IN
  /\ HasQuestion(b)
  /\ ids' = Append(ids, [bucket |-> b, place |-> next[b]])
  /\ next' = next

Take ==
  LET b == <<stage, Asked(stage)[cell]>> IN
  /\ HasQuestion(b)
  /\ ids' = Append(ids, [bucket |-> b, place |-> next[b]])
  /\ next' = [next EXCEPT ![b] = @ + 1]

Advance ==
  IF cell < Len(Asked(stage))
  THEN cell' = cell + 1 /\ UNCHANGED <<stage, answer>>
  ELSE /\ cell' = 1
       /\ IF stage < 5 THEN stage' = stage + 1 /\ UNCHANGED answer
          ELSE answer' = "ok" /\ UNCHANGED stage

Ask ==
  /\ answer = "none"
  /\ Take
  /\ Advance
  /\ UNCHANGED <<jenjang, short, bank>>

Refuse ==
  /\ answer = "none"
  /\ ~HasQuestion(<<stage, Asked(stage)[cell]>>)
  /\ answer' = "refused"
  /\ UNCHANGED <<jenjang, short, bank, stage, cell, next, ids>>

SelectNext == Ask \/ Refuse

\* SelectQuestions has returned: of its variables only the ids are left.
Keep ==
  /\ answer = "ok"
  /\ answer' = "playing"
  /\ bank' = [b \in Buckets |-> 0]
  /\ next' = [b \in Buckets |-> 0]
  /\ stage' = 1
  /\ cell' = 1
  /\ UNCHANGED <<jenjang, short, ids>>

-----------------------------------------------------------------------------
(* Reference definitions: docs/04_Data_Modelling.md section 8 *)

\* The places of a site's cells that a session asks.
Places == IF short THEN <<1, 3>> ELSE <<1, 2, 3>>

PerSite == Len(Places)

\* The bucket of the i-th question.
CellOf(i) ==
  LET s == ((i - 1) \div PerSite) + 1
      c == ((i - 1) % PerSite) + 1
  IN <<s, composition[jenjang][s][Places[c]]>>

Demand(b) == Cardinality({i \in 1..(5 * PerSite) : CellOf(i) = b})

\* Every variable has its type; no more is taken from a bucket than it holds.
SelectorTypes ==
  /\ jenjang \in Jenjangs
  /\ short \in BOOLEAN
  /\ bank \in [Buckets -> 0..Plenty]
  /\ stage \in Sites
  /\ cell \in 1..Len(Asked(stage))
  /\ next \in [Buckets -> Nat]
  /\ ids \in Seq([bucket : Buckets, place : Nat])
  /\ \A b \in Buckets : next[b] <= bank[b]
  /\ answer \in {"none", "ok", "refused", "playing"}

\* A selection that succeeds has the questions of the composition, in its
\* order, all of them different and in the bank. It is refused only if some
\* bucket has fewer questions than its site asks for: two cells of one level
\* need two questions.
SelectionIsExact ==
  /\ answer = "ok" =>
       /\ Len(ids) = 5 * PerSite
       /\ \A i \in DOMAIN ids :
            /\ ids[i].bucket = CellOf(i)
            /\ ids[i].place < bank[CellOf(i)]
       /\ \A i, j \in DOMAIN ids : i # j => ids[i] # ids[j]
  /\ answer = "refused" => \E b \in Buckets : bank[b] < Demand(b)

=============================================================================
