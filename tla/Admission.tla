----------------------------- MODULE Admission ------------------------------
(***************************************************************************)
(* How rooms and seats are given out: createRoom and joinRoom of           *)
(* internal/http/handlers.go with the transactions of CreateRoom and       *)
(* JoinRoom in internal/store/store.go, statement by statement, for all    *)
(* requests at once, against hosts who start and end rooms and kick.       *)
(*                                                                         *)
(* Postgres runs each statement on the rows committed before it (READ      *)
(* COMMITTED). pg_advisory_xact_lock and FOR UPDATE are held until the     *)
(* transaction ends. A row that is not committed is not in the tables      *)
(* here: it is known from where its request is.                            *)
(*                                                                         *)
(* A room is named by the request that creates it, a player by the request *)
(* that joins. What AddPlayer does is in Registry; the answers it leads to *)
(* are taken as possible at any time.                                      *)
(***************************************************************************)
EXTENDS Naturals, FiniteSets

CONSTANTS
  Creations,    \* POST /rooms, past its validation
  Joins,        \* POST /rooms/{pin}/join, past its validation
  Nickname,     \* the nickname each join asks for
  Pin,          \* the PIN in the URL of each join
  Pins,         \* what randomPIN draws from
  RoomCap,      \* MaxActiveRooms, 5
  SeatCap,      \* MaxPlayersInRoom, 15
  PinAttempts,  \* pinAttempts, 8
  None

Requests == Creations \cup Joins

ASSUME AdmissionAssumption ==
  /\ IsFiniteSet(Creations) /\ IsFiniteSet(Joins)
  /\ Creations \cap Joins = {}
  /\ None \notin Requests \cup Pins
  /\ Pins # {}
  /\ RoomCap \in Nat \ {0} /\ SeatCap \in Nat \ {0} /\ PinAttempts \in Nat \ {0}

VARIABLES
  \* Postgres
  status,    \* rooms.status and the age of rooms.created_at: "none" (no row),
             \* "fresh" and "old" (not ended, for less or more than two hours
             \* in the table), "ended"
  pin,       \* rooms.pin, unique over all rows
  seat,      \* room_players.room_id, None: no row
  kicked,    \* players whose row was deleted
  advisory,  \* the transaction that holds advisory lock 4201
  rowLock,   \* the transaction that holds a row of rooms FOR UPDATE
  \* requests
  pc,        \* what the request does next
  tries,     \* how many PINs it has tried
  drawn,     \* the PIN of the row it has inserted
  old,       \* the rooms two hours old when its transaction began: NOW()
  target,    \* the room it joins
  answer     \* how it was answered, "none": not yet

rooms == <<status, pin>>
seats == <<seat, kicked>>
locks == <<advisory, rowLock>>
local == <<tries, drawn, old, target>>
vars == <<rooms, seats, locks, pc, local, answer>>

Init ==
  /\ status = [c \in Creations |-> "none"]
  /\ pin = [c \in Creations |-> None]
  /\ seat = [j \in Joins |-> None]
  /\ kicked = {}
  /\ advisory = None
  /\ rowLock = [c \in Creations |-> None]
  /\ pc = [r \in Requests |-> IF r \in Creations THEN "begin" ELSE "find"]
  /\ tries = [c \in Creations |-> 0]
  /\ drawn = [c \in Creations |-> None]
  /\ old = [c \in Creations |-> {}]
  /\ target = [j \in Joins |-> None]
  /\ answer = [r \in Requests |-> "none"]

\* A row with status != 'ended'.
Active(c) == status[c] \in {"fresh", "old"}

Goto(r, l) ==
  /\ pc' = [pc EXCEPT ![r] = l]
  /\ UNCHANGED answer

\* The handler writes its answer; its local variables are gone.
Return(r, a) ==
  /\ pc' = [pc EXCEPT ![r] = "returned"]
  /\ answer' = [answer EXCEPT ![r] = a]

ReturnRoom(c, a) ==
  /\ Return(c, a)
  /\ tries' = [tries EXCEPT ![c] = 0]
  /\ drawn' = [drawn EXCEPT ![c] = None]
  /\ old' = [old EXCEPT ![c] = {}]
  /\ UNCHANGED target

ReturnSeat(j, a) ==
  /\ Return(j, a)
  /\ target' = [target EXCEPT ![j] = None]
  /\ UNCHANGED <<tries, drawn, old>>

-----------------------------------------------------------------------------
(* Creating a room *)

\* One more attempt: Begin fixes NOW().
BeginRoom(c) ==
  /\ pc[c] = "begin"
  /\ tries' = [tries EXCEPT ![c] = @ + 1]
  /\ old' = [old EXCEPT ![c] = {d \in Creations : status[d] = "old"}]
  /\ Goto(c, "lock")
  /\ UNCHANGED <<rooms, seats, locks, drawn, target>>

LockNothing(c) ==   \* mutant: no advisory lock
  /\ pc[c] = "lock"
  /\ Goto(c, "count")
  /\ UNCHANGED <<rooms, seats, locks, local>>

LockCreation(c) ==
  /\ pc[c] = "lock"
  /\ advisory = None
  /\ advisory' = c
  /\ Goto(c, "count")
  /\ UNCHANGED <<rooms, seats, rowLock, local>>

\* The end of the transaction, and of what it has locked.
Unlock == advisory' = None /\ UNCHANGED rowLock

\* Younger than two hours by the clock of the transaction.
Counted(c) == {d \in Creations : Active(d) /\ d \notin old[c]}

CountActiveRooms(c) ==
  /\ pc[c] = "count"
  /\ \/ /\ Cardinality(Counted(c)) >= RoomCap
        /\ ReturnRoom(c, "maxrooms")
        /\ Unlock
     \/ /\ Cardinality(Counted(c)) < RoomCap
        /\ old' = [old EXCEPT ![c] = {}]
        /\ Goto(c, "insert")
        /\ UNCHANGED <<locks, tries, drawn, target>>
  /\ UNCHANGED <<rooms, seats>>

PinInUse(p) == \E d \in Creations : pin[d] = p

InsertRoomForEver(c) ==   \* mutant: a taken PIN is drawn again without limit
  /\ pc[c] = "insert"
  /\ \E p \in Pins :
       \/ /\ ~PinInUse(p)
          /\ drawn' = [drawn EXCEPT ![c] = p]
          /\ Goto(c, "commit")
          /\ UNCHANGED <<locks, tries, old, target>>
       \/ /\ PinInUse(p)
          /\ Goto(c, "begin")
          /\ Unlock
          /\ UNCHANGED local
  /\ UNCHANGED <<rooms, seats>>

\* randomPIN drew before Begin: any PIN, whatever the tables hold. A unique
\* violation rolls back, and the next attempt starts all over.
InsertRoom(c) ==
  /\ pc[c] = "insert"
  /\ \E p \in Pins :
       \/ /\ ~PinInUse(p)
          /\ drawn' = [drawn EXCEPT ![c] = p]
          /\ Goto(c, "commit")
          /\ UNCHANGED <<locks, tries, old, target>>
       \/ /\ PinInUse(p)
          /\ tries[c] < PinAttempts
          /\ Goto(c, "begin")
          /\ Unlock
          /\ UNCHANGED local
       \/ /\ PinInUse(p)
          /\ tries[c] >= PinAttempts
          /\ ReturnRoom(c, "error")
          /\ Unlock
  /\ UNCHANGED <<rooms, seats>>

\* The room exists, whether or not the reply of COMMIT arrives.
CommitRoom(c) ==
  /\ pc[c] = "commit"
  /\ status' = [status EXCEPT ![c] = "fresh"]
  /\ pin' = [pin EXCEPT ![c] = drawn[c]]
  /\ \E a \in {"created", "error"} : ReturnRoom(c, a)
  /\ Unlock
  /\ UNCHANGED seats

\* A statement fails, the host goes away, or the process stops: rollback.
CreateFails(c) ==
  /\ pc[c] # "returned"
  /\ ReturnRoom(c, "error")
  /\ IF advisory = c THEN Unlock ELSE UNCHANGED locks
  /\ UNCHANGED <<rooms, seats>>

-----------------------------------------------------------------------------
(* Joining a room *)

\* activeRoom: GetActiveRoomByPIN, before the transaction.
FindRoom(j) ==
  /\ pc[j] = "find"
  /\ \/ \E c \in Creations :
          /\ pin[c] = Pin[j]
          /\ Active(c)
          /\ target' = [target EXCEPT ![j] = c]
          /\ Goto(j, "open")
          /\ UNCHANGED <<tries, drawn, old>>
     \/ /\ \A c \in Creations : pin[c] = Pin[j] => ~Active(c)
        /\ ReturnSeat(j, "notfound")
  /\ UNCHANGED <<rooms, seats, locks>>

LockAnyRoom(j) ==   \* mutant: only activeRoom looks at the status
  /\ pc[j] = "open"
  /\ rowLock[target[j]] = None
  /\ rowLock' = [rowLock EXCEPT ![target[j]] = j]
  /\ Goto(j, "seats")
  /\ UNCHANGED <<rooms, seats, advisory, local>>

\* LockRoomForJoin looks at the status again once it has the row.
LockRoomForJoin(j) ==
  /\ pc[j] = "open"
  /\ rowLock[target[j]] = None
  /\ \/ /\ Active(target[j])
        /\ rowLock' = [rowLock EXCEPT ![target[j]] = j]
        /\ Goto(j, "seats")
        /\ UNCHANGED local
     \/ /\ ~Active(target[j])
        /\ ReturnSeat(j, "notfound")
        /\ UNCHANGED rowLock
  /\ UNCHANGED <<rooms, seats, advisory>>

Release(j) ==
  /\ rowLock' = [rowLock EXCEPT ![target[j]] = None]
  /\ UNCHANGED advisory

Seated(c) == {j \in Joins : seat[j] = c}

CountRoomPlayers(j) ==
  /\ pc[j] = "seats"
  /\ \/ /\ Cardinality(Seated(target[j])) >= SeatCap
        /\ ReturnSeat(j, "full")
        /\ Release(j)
     \/ /\ Cardinality(Seated(target[j])) < SeatCap
        /\ Goto(j, "enter")
        /\ UNCHANGED <<locks, local>>
  /\ UNCHANGED <<rooms, seats>>

Taken(c, n) == \E i \in Seated(c) : Nickname[i] = n

\* An error of GetSchoolName, whichever, is an unknown school.
InsertPlayer(j) ==
  /\ pc[j] = "enter"
  /\ \/ ReturnSeat(j, "invalid") /\ Release(j)
     \/ Taken(target[j], Nickname[j]) /\ ReturnSeat(j, "taken") /\ Release(j)
     \/ /\ ~Taken(target[j], Nickname[j])
        /\ Goto(j, "save")
        /\ UNCHANGED <<locks, local>>
  /\ UNCHANGED <<rooms, seats>>

\* The row exists, whether or not the reply of COMMIT arrives.
CommitPlayer(j) ==
  /\ pc[j] = "save"
  /\ seat' = [seat EXCEPT ![j] = target[j]]
  /\ \/ Goto(j, "add") /\ UNCHANGED local
     \/ ReturnSeat(j, "error")
  /\ Release(j)
  /\ UNCHANGED <<rooms, kicked>>

\* Rooms.AddPlayer: any error of it is answered 404, the seat stays taken.
AddPlayer(j) ==
  /\ pc[j] = "add"
  /\ \E a \in {"token", "notfound"} : ReturnSeat(j, a)
  /\ UNCHANGED <<rooms, seats, locks>>

JoinFailsLocked(j) ==   \* mutant: no deferred rollback
  /\ pc[j] # "returned"
  /\ ReturnSeat(j, "error")
  /\ UNCHANGED <<rooms, seats, locks>>

\* As for a creation; IssuePlayer may fail too.
JoinFails(j) ==
  /\ pc[j] # "returned"
  /\ ReturnSeat(j, "error")
  /\ IF pc[j] \in {"seats", "enter", "save"} THEN Release(j) ELSE UNCHANGED locks
  /\ UNCHANGED <<rooms, seats>>

-----------------------------------------------------------------------------
(* Room goroutines: an UPDATE waits for the row, a DELETE of a player not *)

MarkRoomEnded(c) ==
  /\ Active(c)
  /\ rowLock[c] = None
  /\ status' = [status EXCEPT ![c] = "ended"]
  /\ UNCHANGED <<pin, seats, locks, pc, local, answer>>

DeletePlayer(j) ==
  /\ seat[j] # None
  /\ seat' = [seat EXCEPT ![j] = None]
  /\ kicked' = kicked \cup {j}
  /\ UNCHANGED <<rooms, locks, pc, local, answer>>

\* Two hours have passed since created_at.
Age(c) ==
  /\ status[c] = "fresh"
  /\ status' = [status EXCEPT ![c] = "old"]
  /\ UNCHANGED <<pin, seats, locks, pc, local, answer>>

CreateStep(c) ==
  BeginRoom(c) \/ LockCreation(c) \/ CountActiveRooms(c) \/ InsertRoom(c) \/ CommitRoom(c)

JoinStep(j) ==
  \/ FindRoom(j) \/ LockRoomForJoin(j) \/ CountRoomPlayers(j)
  \/ InsertPlayer(j) \/ CommitPlayer(j) \/ AddPlayer(j)

Next ==
  \/ \E c \in Creations :
       CreateStep(c) \/ CreateFails(c) \/ MarkRoomEnded(c) \/ Age(c)
  \/ \E j \in Joins : JoinStep(j) \/ JoinFails(j) \/ DeletePlayer(j)

Spec == Init /\ [][Next]_vars

\* Postgres grants a lock that stays free, and a handler goes on. Nothing is
\* asked of the failures, which would answer a request that waits for ever.
FairSpec ==
  /\ Spec
  /\ \A c \in Creations : WF_vars(CreateStep(c))
  /\ \A j \in Joins : WF_vars(JoinStep(j))

-----------------------------------------------------------------------------
(* Types *)

CreatePCs == {"begin", "lock", "count", "insert", "commit", "returned"}
JoinPCs == {"find", "open", "seats", "enter", "save", "add", "returned"}
Answers == {"none", "created", "maxrooms", "token", "full", "taken", "invalid",
            "notfound", "error"}

\* Every variable has its type; a lock is held by a transaction that may take
\* it, and no request draws more PINs than it may.
TypeOK ==
  /\ status \in [Creations -> {"none", "fresh", "old", "ended"}]
  /\ pin \in [Creations -> Pins \cup {None}]
  /\ seat \in [Joins -> Creations \cup {None}]
  /\ kicked \subseteq Joins
  /\ advisory \in Creations \cup {None}
  /\ rowLock \in [Creations -> Joins \cup {None}]
  /\ pc \in [Requests -> CreatePCs \cup JoinPCs]
  /\ \A c \in Creations : pc[c] \in CreatePCs
  /\ \A j \in Joins : pc[j] \in JoinPCs
  /\ tries \in [Creations -> 0..PinAttempts]
  /\ drawn \in [Creations -> Pins \cup {None}]
  /\ old \in [Creations -> SUBSET Creations]
  /\ target \in [Joins -> Creations \cup {None}]
  /\ answer \in [Requests -> Answers]

-----------------------------------------------------------------------------
(* Safety *)

\* However many requests run at once, no more rooms younger than two hours are
\* open than MaxActiveRooms, and no room has more players than
\* MaxPlayersInRoom: between the count and the insert of one transaction no
\* other adds a row.
WithinCaps ==
  /\ Cardinality({c \in Creations : status[c] = "fresh"}) <= RoomCap
  /\ \A c \in Creations : Cardinality(Seated(c)) <= SeatCap

\* The transactions implement the book of rooms, in which every request takes
\* effect at once: nobody enters a room that has ended or gets a nickname
\* twice, a token means a seat, a refusal for lack of rooms, seats or names is
\* true when it is made, a request leaves at most one room or seat behind.
Book == INSTANCE RoomBook

ImplementsRoomBook == Book!Spec

-----------------------------------------------------------------------------
(* Liveness, under FairSpec *)

\* Every request is answered: no lock outlives its transaction, and drawing
\* PINs comes to an end even if every PIN belongs to some room, open or ended.
RequestsAnswered == <>(\A r \in Requests : pc[r] = "returned")

=============================================================================
