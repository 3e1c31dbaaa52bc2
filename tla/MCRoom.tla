------------------------------- MODULE MCRoom -------------------------------
(* Model-checking instance of Room: players are interchangeable. *)
EXTENDS Room, TLC, FiniteSets

PlayerSymmetry == Permutations(Players)

\* Bound: while a handler is inside Get the players have at most so many
\* answers between them, two of one player or one of each.
MaxAnswersInGet == 2

FewAnswersInGet ==
  (\E g \in Loaders : get[g] # Idle) =>
    Cardinality({a \in Players \X Questions : answers[a[1]][a[2]] # NoAnswer})
      <= MaxAnswersInGet

=============================================================================
