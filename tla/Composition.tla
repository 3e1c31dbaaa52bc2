----------------------------- MODULE Composition -----------------------------
(***************************************************************************)
(* The levels of the questions of a session: the table of                  *)
(* internal/game/selector.go, three cells for each of five sites.          *)
(***************************************************************************)
EXTENDS Naturals, Sequences

Sites == 1..5
Levels == 1..3
Jenjangs == {"SD", "SMP", "SMA"}

composition ==
  [SD  |-> <<<<1, 1, 2>>, <<1, 1, 2>>, <<1, 2, 2>>, <<1, 2, 2>>, <<1, 2, 3>>>>,
   SMP |-> <<<<1, 1, 2>>, <<1, 2, 2>>, <<1, 2, 3>>, <<1, 2, 3>>, <<1, 2, 3>>>>,
   SMA |-> <<<<1, 2, 2>>, <<1, 2, 3>>, <<1, 2, 3>>, <<2, 2, 3>>, <<2, 3, 3>>>>]

=============================================================================
