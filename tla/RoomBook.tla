------------------------------ MODULE RoomBook ------------------------------
(***************************************************************************)
(* What the HTTP API promises about rooms and seats: POST /rooms and       *)
(* POST /rooms/{pin}/join of internal/http/handlers.go as if each request  *)
(* took effect in one step.                                                *)
(*                                                                         *)
(* A room is named by the request that creates it, a player by the request *)
(* that joins. A request may take effect and be answered with an error.    *)
(***************************************************************************)
EXTENDS Naturals, FiniteSets

CONSTANTS
  Creations,  \* requests for a room
  Joins,      \* requests for a seat
  Nickname,   \* the nickname each join asks for
  Pins,
  RoomCap,    \* MaxActiveRooms
  SeatCap,    \* MaxPlayersInRoom
  None

VARIABLES
  status,  \* of a room: "none", "fresh" for two hours, then "old", or "ended"
  pin,     \* rooms.pin
  seat,    \* room_players.room_id, None: no row
  kicked,  \* players whose row was deleted
  answer   \* how each request was answered, "none": not yet

rooms == <<status, pin>>
seats == <<seat, kicked>>
vars == <<rooms, seats, answer>>

Active(c) == status[c] \in {"fresh", "old"}
ActiveRooms == {c \in Creations : Active(c)}
FreshRooms == {c \in Creations : status[c] = "fresh"}
Seated(c) == {j \in Joins : seat[j] = c}
Taken(c, n) == \E i \in Seated(c) : Nickname[i] = n

\* A row of room_players was committed for the request, kicked or not.
Admitted(j) == seat[j] # None \/ j \in kicked

Init ==
  /\ status = [c \in Creations |-> "none"]
  /\ pin = [c \in Creations |-> None]
  /\ seat = [j \in Joins |-> None]
  /\ kicked = {}
  /\ answer = [r \in Creations \cup Joins |-> "none"]

Answer(r, a) ==
  /\ answer[r] = "none"
  /\ answer' = [answer EXCEPT ![r] = a]

\* One room for the request, under a PIN no room ever had.
Create(c) ==
  /\ status[c] = "none"
  /\ Cardinality(FreshRooms) < RoomCap
  /\ \E p \in Pins :
       /\ \A d \in Creations : pin[d] # p
       /\ pin' = [pin EXCEPT ![c] = p]
  /\ status' = [status EXCEPT ![c] = "fresh"]
  /\ Answer(c, "created") \/ Answer(c, "error")
  /\ UNCHANGED seats

\* One seat for the request, in an open room with a free seat and under a
\* nickname nobody in the room has. The token, if any, comes later.
Enter(j) ==
  /\ ~Admitted(j)
  /\ \E c \in ActiveRooms :
       /\ Cardinality(Seated(c)) < SeatCap
       /\ ~Taken(c, Nickname[j])
       /\ seat' = [seat EXCEPT ![j] = c]
  /\ UNCHANGED answer \/ Answer(j, "error")
  /\ UNCHANGED <<rooms, kicked>>

\* Only a player with a seat gets a token. "notfound" and "error" may be said
\* of a seat that was taken.
Reply(j) ==
  /\ Admitted(j)
  /\ \E a \in {"token", "notfound", "error"} : Answer(j, a)
  /\ UNCHANGED <<rooms, seats>>

RefuseRoom(c) ==
  /\ status[c] = "none"
  /\ \/ Answer(c, "maxrooms") /\ Cardinality(ActiveRooms) >= RoomCap
     \/ Answer(c, "error")
  /\ UNCHANGED <<rooms, seats>>

\* Full and taken are said of an open room at a moment it is so.
RefuseSeat(j) ==
  /\ ~Admitted(j)
  /\ \/ Answer(j, "full") /\ \E c \in ActiveRooms : Cardinality(Seated(c)) >= SeatCap
     \/ Answer(j, "taken") /\ \E c \in ActiveRooms : Taken(c, Nickname[j])
     \/ \E a \in {"notfound", "invalid", "error"} : Answer(j, a)
  /\ UNCHANGED <<rooms, seats>>

End(c) ==
  /\ Active(c)
  /\ status' = [status EXCEPT ![c] = "ended"]
  /\ UNCHANGED <<pin, seats, answer>>

\* Two hours have passed since the room was created.
Age(c) ==
  /\ status[c] = "fresh"
  /\ status' = [status EXCEPT ![c] = "old"]
  /\ UNCHANGED <<pin, seats, answer>>

Kick(j) ==
  /\ seat[j] # None
  /\ seat' = [seat EXCEPT ![j] = None]
  /\ kicked' = kicked \cup {j}
  /\ UNCHANGED <<rooms, answer>>

Next ==
  \/ \E c \in Creations : Create(c) \/ RefuseRoom(c) \/ End(c) \/ Age(c)
  \/ \E j \in Joins : Enter(j) \/ Reply(j) \/ RefuseSeat(j) \/ Kick(j)

Spec == Init /\ [][Next]_vars

=============================================================================
