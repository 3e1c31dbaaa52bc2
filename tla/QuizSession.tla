---------------------------- MODULE QuizSession ----------------------------
(***************************************************************************)
(* What one quiz session promises, seen from its permanent record and from *)
(* the results players were sent (contracts/ws.md, "Gameplay rules", and   *)
(* the state machine of docs/03_System_Architecture.md section 5). There   *)
(* is no process here, no memory, no clock and no failure: Room is shown   *)
(* to implement this module whatever its store and its process do.         *)
(*                                                                         *)
(*   - a session goes from lobby to running to ended and never back;       *)
(*   - players join until it has ended, leave only by being removed, and   *)
(*     nobody comes back under the same id;                                *)
(*   - once it was started, the next question of a player gets its points; *)
(*     they are written once, in order, and never changed;                 *)
(*   - a player is only ever told the points that are on record.           *)
(*                                                                         *)
(* Nothing here keeps a question or a removal from reaching the record     *)
(* after the end: a room spawned from a row read before it does not look.  *)
(***************************************************************************)
EXTENDS Integers

CONSTANTS Players, NumQuestions, Awards

Questions == 1..NumQuestions
NoAnswer == -1
Blank == [q \in Questions |-> NoAnswer]

VARIABLES
  phase,    \* lobby, running or ended
  unused,   \* ids nobody has joined under
  roster,   \* the players on record
  sheet,    \* points on record by player and question
  results   \* points each player was told

session == <<phase, unused, roster, sheet, results>>

Init ==
  /\ phase = "lobby"
  /\ unused = Players
  /\ roster = {}
  /\ sheet = [p \in Players |-> Blank]
  /\ results = [p \in Players |-> Blank]

Join(p) ==
  /\ phase # "ended"
  /\ p \in unused
  /\ unused' = unused \ {p}
  /\ roster' = roster \cup {p}
  /\ UNCHANGED <<phase, sheet, results>>

Start ==
  /\ phase = "lobby"
  /\ phase' = "running"
  /\ UNCHANGED <<unused, roster, sheet, results>>

\* The step that records or removes may be the one that ends the session.
MayEnd == phase' \in {phase, "ended"}

IsNext(p, q) ==
  \A k \in Questions : sheet[p][k] # NoAnswer <=> k < q

\* The player may be told at once; if not then, never.
Record(p, q, points) ==
  /\ phase # "lobby"
  /\ p \in roster
  /\ IsNext(p, q)
  /\ sheet' = [sheet EXCEPT ![p][q] = points]
  /\ results' \in {results, [results EXCEPT ![p][q] = points]}
  /\ MayEnd
  /\ UNCHANGED <<unused, roster>>

\* Removing a player removes the record; a second removal changes nothing.
Remove(p) ==
  /\ roster' = roster \ {p}
  /\ sheet' = [sheet EXCEPT ![p] = Blank]
  /\ results' = [results EXCEPT ![p] = Blank]
  /\ MayEnd
  /\ UNCHANGED unused

End ==
  /\ phase # "ended"
  /\ phase' = "ended"
  /\ UNCHANGED <<unused, roster, sheet, results>>

Next ==
  \/ \E p \in Players : Join(p) \/ Remove(p)
  \/ \E p \in Players, q \in Questions, points \in Awards \cup {0} :
       Record(p, q, points)
  \/ Start
  \/ End

Spec == Init /\ [][Next]_session

=============================================================================
