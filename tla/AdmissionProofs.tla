--------------------------- MODULE AdmissionProofs --------------------------
(***************************************************************************)
(* What Admission guarantees for any number of requests, PINs, rooms and   *)
(* seats: the types, the caps, and that the transactions implement the     *)
(* book of rooms.                                                          *)
(***************************************************************************)
EXTENDS Admission, FiniteSetTheorems, TLAPS

-----------------------------------------------------------------------------
(* The inductive invariant *)

FreshRooms == {d \in Creations : status[d] = "fresh"}

\* What a creation relies on: from its count to its commit it holds the
\* advisory lock, so that what it has counted and the PIN it has found unused
\* stay so.
CreationsSound ==
  \A c \in Creations :
    /\ pc[c] \in {"count", "insert", "commit"} => advisory = c
    /\ pc[c] = "begin" => tries[c] < PinAttempts
    /\ pc[c] # "returned" => status[c] = "none"
    /\ \A d \in old[c] : status[d] \in {"old", "ended"}
    /\ pc[c] \in {"insert", "commit"} => Cardinality(FreshRooms) < RoomCap
    /\ pc[c] = "commit" => drawn[c] \in Pins /\ ~PinInUse(drawn[c])

Holding(j) == pc[j] \in {"seats", "enter", "save"}

\* What a join relies on: with the room's row locked, the room stays open and
\* nobody else takes its seats.
JoinSound(j) ==
  /\ pc[j] = "open" => target[j] \in Creations
  /\ Holding(j) => target[j] \in Creations /\ rowLock[target[j]] = j /\ Active(target[j])
  /\ pc[j] \in {"enter", "save"} => Cardinality(Seated(target[j])) < SeatCap
  /\ pc[j] = "save" => ~Taken(target[j], Nickname[j])
  /\ pc[j] \notin {"add", "returned"} => seat[j] = None /\ j \notin kicked
  /\ pc[j] = "add" => seat[j] # None \/ j \in kicked

JoinsSound == \A j \in Joins : JoinSound(j)

AnsweredOnce == \A r \in Requests : answer[r] = "none" <=> pc[r] # "returned"

IInv ==
  /\ TypeOK
  /\ WithinCaps
  /\ CreationsSound
  /\ JoinsSound
  /\ AnsweredOnce

-----------------------------------------------------------------------------
(* Counting rooms and seats *)

LEMMA Counts ==
  /\ \A S \in SUBSET Creations : IsFiniteSet(S) /\ Cardinality(S) \in Nat
  /\ \A S \in SUBSET Joins : IsFiniteSet(S) /\ Cardinality(S) \in Nat
BY AdmissionAssumption, FS_Subset, FS_CardinalityType

LEMMA FewerRooms ==
  ASSUME NEW S \in SUBSET Creations, NEW T \in SUBSET S
  PROVE  Cardinality(T) <= Cardinality(S)
BY Counts, FS_Subset

LEMMA FewerSeats ==
  ASSUME NEW S \in SUBSET Joins, NEW T \in SUBSET S
  PROVE  Cardinality(T) <= Cardinality(S)
BY Counts, FS_Subset

LEMMA InitIInv == Init => IInv
<1> SUFFICES ASSUME Init PROVE IInv
  OBVIOUS
<1>1. TypeOK
  BY AdmissionAssumption DEF Init, TypeOK, Requests, CreatePCs, JoinPCs, Answers
<1>2. WithinCaps
  <2>1. {c \in Creations : status[c] = "fresh"} = {}
    BY DEF Init
  <2>2. \A c \in Creations : Seated(c) = {}
    BY AdmissionAssumption DEF Init, Seated, Requests
  <2> QED
    BY <2>1, <2>2, FS_EmptySet, AdmissionAssumption DEF WithinCaps
<1>3. CreationsSound
  BY AdmissionAssumption DEF Init, CreationsSound, Requests
<1>4. JoinsSound
  BY AdmissionAssumption DEF Init, JoinsSound, JoinSound, Holding, Requests
<1>5. AnsweredOnce
  BY DEF Init, AnsweredOnce
<1> QED
  BY <1>1, <1>2, <1>3, <1>4, <1>5 DEF IInv

-----------------------------------------------------------------------------
(* What the steps of one side leave to the other *)

\* A step of a creation that adds no room does nothing to the joins.
LEMMA JoinsAreLeft ==
  ASSUME IInv, UNCHANGED <<rooms, seats, rowLock, target>>,
         \A j \in Joins : pc'[j] = pc[j]
  PROVE  WithinCaps' /\ JoinsSound'
<1>1. WithinCaps'
  BY DEF IInv, WithinCaps, Seated, rooms, seats
<1>2. ASSUME NEW j \in Joins PROVE JoinSound(j)'
  <2>1. /\ JoinSound(j) /\ pc'[j] = pc[j]
        /\ status' = status /\ seat' = seat /\ kicked' = kicked
        /\ rowLock' = rowLock /\ target' = target
    BY DEF IInv, JoinsSound, rooms, seats
  <2>2. /\ Holding(j)' <=> Holding(j)
        /\ Active(target[j])' <=> Active(target[j])
        /\ Seated(target[j])' = Seated(target[j])
        /\ Taken(target[j], Nickname[j])' <=> Taken(target[j], Nickname[j])
    BY <2>1 DEF Holding, Active, Seated, Taken
  <2> QED
    BY <2>1, <2>2 DEF JoinSound
<1> QED
  BY <1>1, <1>2 DEF JoinsSound

\* Whatever a join does, a creation's count stands.
LEMMA CreationsAreLeft ==
  ASSUME IInv, UNCHANGED <<rooms, advisory, tries, drawn, old>>,
         \A c \in Creations : pc'[c] = pc[c]
  PROVE  CreationsSound'
BY DEF IInv, CreationsSound, FreshRooms, PinInUse, rooms

\* A request that goes on is not answered, one that returns is, once.
LEMMA AnswersAreLeft ==
  ASSUME IInv, NEW r \in Requests, pc[r] # "returned",
         \/ \E l \in CreatePCs \cup JoinPCs : l # "returned" /\ Goto(r, l)
         \/ \E a \in Answers \ {"none"} : Return(r, a)
  PROVE  /\ AnsweredOnce'
         /\ answer' \in [Requests -> Answers]
         /\ \A s \in Requests \ {r} : pc'[s] = pc[s]
BY DEF IInv, AnsweredOnce, TypeOK, Goto, Return, CreatePCs, JoinPCs

-----------------------------------------------------------------------------
(* Creations *)

\* Until it commits, a creation touches nothing but its own locals and the
\* advisory lock.
LEMMA CreationKeepsIInv ==
  ASSUME IInv, NEW c \in Creations,
         BeginRoom(c) \/ LockCreation(c) \/ CountActiveRooms(c) \/ InsertRoom(c) \/ CreateFails(c)
  PROVE  IInv'
<1>0. c \in Requests /\ c \notin Joins /\ pc[c] # "returned"
  BY AdmissionAssumption DEF Requests, BeginRoom, LockCreation, CountActiveRooms, InsertRoom,
                             CreateFails
<1>1. UNCHANGED <<rooms, seats, target>>
  BY DEF BeginRoom, LockCreation, CountActiveRooms, InsertRoom, CreateFails, local, ReturnRoom
<1>2. UNCHANGED rowLock
  BY DEF BeginRoom, LockCreation, CountActiveRooms, InsertRoom, CreateFails, locks, Unlock
<1>3. \/ \E l \in CreatePCs \cup JoinPCs : l # "returned" /\ Goto(c, l)
      \/ \E a \in Answers \ {"none"} : Return(c, a)
  BY DEF BeginRoom, LockCreation, CountActiveRooms, InsertRoom, CreateFails, ReturnRoom,
         CreatePCs, Answers
<1>4. /\ AnsweredOnce'
      /\ answer' \in [Requests -> Answers]
      /\ \A s \in Requests \ {c} : pc'[s] = pc[s]
  BY <1>0, <1>3, AnswersAreLeft
<1>5. WithinCaps' /\ JoinsSound'
  BY <1>0, <1>1, <1>2, <1>4, JoinsAreLeft DEF Requests
<1>6. TypeOK'
  <2>1. pc' = [pc EXCEPT ![c] = pc'[c]] /\ pc'[c] \in CreatePCs
    BY <1>0 DEF BeginRoom, LockCreation, CountActiveRooms, InsertRoom, CreateFails, ReturnRoom,
                Goto, Return, IInv, TypeOK, CreatePCs
  <2>2. /\ pc' \in [Requests -> CreatePCs \cup JoinPCs]
        /\ \A d \in Creations : pc'[d] \in CreatePCs
        /\ \A j \in Joins : pc'[j] \in JoinPCs
    BY <1>0, <2>1 DEF IInv, TypeOK, Requests
  <2>3. advisory' \in {advisory, c, None}
    BY DEF BeginRoom, LockCreation, CountActiveRooms, InsertRoom, CreateFails, locks, Unlock
  <2>4. tries' = tries \/ tries' = [tries EXCEPT ![c] = 0]
        \/ (pc[c] = "begin" /\ tries' = [tries EXCEPT ![c] = @ + 1])
    BY DEF BeginRoom, LockCreation, CountActiveRooms, InsertRoom, CreateFails, ReturnRoom, local
  <2>5. tries' \in [Creations -> 0..PinAttempts]
    <3>1. tries \in [Creations -> 0..PinAttempts] /\ 0 \in 0..PinAttempts
      BY AdmissionAssumption DEF IInv, TypeOK
    <3>2. pc[c] = "begin" => tries[c] + 1 \in 0..PinAttempts
      BY <3>1, AdmissionAssumption DEF IInv, CreationsSound
    <3> QED
      BY <2>4, <3>1, <3>2
  <2>6. drawn' = drawn \/ \E p \in Pins \cup {None} : drawn' = [drawn EXCEPT ![c] = p]
    BY DEF BeginRoom, LockCreation, CountActiveRooms, InsertRoom, CreateFails, ReturnRoom, local
  <2>7. old' = old \/ \E o \in SUBSET Creations : old' = [old EXCEPT ![c] = o]
    BY DEF BeginRoom, LockCreation, CountActiveRooms, InsertRoom, CreateFails, ReturnRoom, local
  <2>8. /\ drawn' \in [Creations -> Pins \cup {None}]
        /\ old' \in [Creations -> SUBSET Creations]
    BY <2>6, <2>7 DEF IInv, TypeOK
  <2> QED
    BY <1>1, <1>2, <1>4, <2>2, <2>3, <2>5, <2>8 DEF IInv, TypeOK, rooms, seats
<1>7. CreationsSound'
  <2>1. FreshRooms' = FreshRooms /\ (\A p : PinInUse(p)' = PinInUse(p)) /\ UNCHANGED status
    BY <1>1 DEF FreshRooms, PinInUse, rooms
  <2>2. \A d \in Creations \ {c} : pc'[d] = pc[d]
    BY <1>4 DEF Requests
  <2>3. CASE BeginRoom(c)
    BY <1>0, <2>1, <2>2, <2>3 DEF BeginRoom, Goto, locks, IInv, TypeOK, CreationsSound
  <2>4. CASE LockCreation(c)
    <3>1. pc[c] = "lock" /\ pc'[c] = "count" /\ advisory = None /\ advisory' = c
      BY <1>0, <2>4 DEF LockCreation, Goto, IInv, TypeOK
    <3>2. \A d \in Creations \ {c} : pc[d] \notin {"count", "insert", "commit"}
      BY <3>1, AdmissionAssumption DEF IInv, CreationsSound, Requests
    <3>3. UNCHANGED <<tries, drawn, old>>
      BY <2>4 DEF LockCreation, local
    <3> QED
      BY <2>1, <2>2, <3>1, <3>2, <3>3 DEF IInv, CreationsSound
  <2>5. CASE CountActiveRooms(c)
    <3>1. FreshRooms \subseteq Counted(c) /\ Counted(c) \in SUBSET Creations
      BY DEF IInv, CreationsSound, FreshRooms, Counted, Active
    <3>2. Cardinality(FreshRooms) <= Cardinality(Counted(c))
      BY <3>1, FewerRooms
    <3>3. Cardinality(Counted(c)) < RoomCap => Cardinality(FreshRooms) < RoomCap
      BY <3>1, <3>2, Counts, AdmissionAssumption DEF FreshRooms
    <3> QED
      BY <1>0, <2>1, <2>2, <2>5, <3>3, AdmissionAssumption
      DEF CountActiveRooms, Goto, ReturnRoom, Return, Unlock, locks, IInv, TypeOK, CreationsSound
  <2>6. CASE InsertRoom(c)
    BY <1>0, <2>1, <2>2, <2>6, AdmissionAssumption
    DEF InsertRoom, Goto, ReturnRoom, Return, Unlock, locks, local, IInv, TypeOK, CreationsSound
  <2>7. CASE CreateFails(c)
    BY <1>0, <2>1, <2>2, <2>7, AdmissionAssumption
    DEF CreateFails, ReturnRoom, Return, Unlock, locks, IInv, TypeOK, CreationsSound
  <2> QED
    BY <2>3, <2>4, <2>5, <2>6, <2>7
<1> QED
  BY <1>4, <1>5, <1>6, <1>7 DEF IInv

\* The room that is committed is the one there was a place and a PIN for.
LEMMA CommitRoomKeepsIInv ==
  ASSUME IInv, NEW c \in Creations, CommitRoom(c)
  PROVE  IInv'
<1>0. c \in Requests /\ c \notin Joins /\ pc[c] = "commit" /\ advisory = c /\ status[c] = "none"
  BY AdmissionAssumption DEF Requests, CommitRoom, IInv, CreationsSound
<1>1. /\ status' = [status EXCEPT ![c] = "fresh"]
      /\ pin' = [pin EXCEPT ![c] = drawn[c]]
      /\ tries' = [tries EXCEPT ![c] = 0]
      /\ drawn' = [drawn EXCEPT ![c] = None]
      /\ old' = [old EXCEPT ![c] = {}]
      /\ advisory' = None
      /\ pc' = [pc EXCEPT ![c] = "returned"]
      /\ UNCHANGED <<seat, kicked, rowLock, target>>
  BY DEF CommitRoom, ReturnRoom, Return, Unlock, seats
<1>2. \E a \in Answers \ {"none"} : Return(c, a)
  BY DEF CommitRoom, ReturnRoom, Answers
<1>3. /\ AnsweredOnce'
      /\ answer' \in [Requests -> Answers]
      /\ \A s \in Requests \ {c} : pc'[s] = pc[s]
  BY <1>0, <1>2, AnswersAreLeft
<1>4. TypeOK'
  <2>1. /\ pc' \in [Requests -> CreatePCs \cup JoinPCs]
        /\ \A d \in Creations : pc'[d] \in CreatePCs
        /\ \A j \in Joins : pc'[j] \in JoinPCs
    BY <1>0, <1>1 DEF IInv, TypeOK, Requests, CreatePCs
  <2>2. drawn[c] \in Pins /\ 0 \in 0..PinAttempts
    BY <1>0, AdmissionAssumption DEF IInv, CreationsSound
  <2> QED
    BY <1>1, <1>3, <2>1, <2>2 DEF IInv, TypeOK
<1>5. WithinCaps'
  <2>1. {d \in Creations : status'[d] = "fresh"} = FreshRooms \cup {c}
    BY <1>1 DEF IInv, TypeOK, FreshRooms
  <2>2. Cardinality(FreshRooms) < RoomCap /\ IsFiniteSet(FreshRooms) /\ Cardinality(FreshRooms) \in Nat
    BY <1>0, Counts DEF IInv, CreationsSound, FreshRooms
  <2>3. Cardinality(FreshRooms \cup {c}) <= RoomCap
    <3>1. Cardinality(FreshRooms \cup {c}) \in {Cardinality(FreshRooms), Cardinality(FreshRooms) + 1}
      BY <2>2, FS_AddElement
    <3>2. RoomCap \in Nat
      BY AdmissionAssumption
    <3> HIDE DEF FreshRooms
    <3> QED
      BY <2>2, <3>1, <3>2
  <2>4. \A d \in Creations : Cardinality(Seated(d)') <= SeatCap
    BY <1>1 DEF IInv, WithinCaps, Seated
  <2> QED
    BY <2>1, <2>3, <2>4 DEF WithinCaps
<1>6. CreationsSound'
  <2>1. ASSUME NEW d \in Creations \ {c}
        PROVE  /\ pc'[d] = pc[d] /\ pc[d] \notin {"count", "insert", "commit"}
               /\ status'[d] = status[d] /\ tries'[d] = tries[d] /\ old'[d] = old[d]
    BY <1>0, <1>1, <1>3 DEF IInv, TypeOK, CreationsSound, Requests
  <2>2. \A d \in Creations : \A e \in old[d] : e # c
    BY <1>0 DEF IInv, CreationsSound
  <2>3. pc'[c] = "returned" /\ old'[c] = {}
    BY <1>0, <1>1 DEF IInv, TypeOK
  <2>4. \A d \in Creations : \A e \in old'[d] : status'[e] \in {"old", "ended"}
    BY <1>1, <2>1, <2>2, <2>3 DEF IInv, TypeOK, CreationsSound
  <2> QED
    BY <2>1, <2>3, <2>4 DEF IInv, CreationsSound
<1>7. JoinsSound'
  <2>1. \A j \in Joins : pc'[j] = pc[j]
    BY <1>0, <1>3 DEF Requests
  <2>2. \A d \in Creations : Active(d) => Active(d)'
    BY <1>1 DEF IInv, TypeOK, Active
  <2>3. ASSUME NEW j \in Joins PROVE JoinSound(j)'
    <3>1. /\ JoinSound(j) /\ pc'[j] = pc[j] /\ (Holding(j)' <=> Holding(j))
          /\ \A d : Seated(d)' = Seated(d) /\ (Taken(d, Nickname[j])' <=> Taken(d, Nickname[j]))
      BY <1>1, <2>1 DEF IInv, JoinsSound, Holding, Seated, Taken
    <3> QED
      BY <1>1, <2>2, <3>1 DEF JoinSound
  <2> QED
    BY <2>3 DEF JoinsSound
<1> QED
  BY <1>3, <1>4, <1>5, <1>6, <1>7 DEF IInv

-----------------------------------------------------------------------------
(* Joins *)

\* The room stays locked, if it was, and the join still holds it.
LEMMA JoinKeepsIInv ==
  ASSUME IInv, NEW j \in Joins,
         FindRoom(j) \/ LockRoomForJoin(j) \/ CountRoomPlayers(j) \/ InsertPlayer(j)
         \/ AddPlayer(j) \/ JoinFails(j)
  PROVE  IInv'
<1>0. j \in Requests /\ j \notin Creations /\ pc[j] # "returned"
  BY AdmissionAssumption DEF Requests, FindRoom, LockRoomForJoin, CountRoomPlayers, InsertPlayer,
                             AddPlayer, JoinFails
<1>1. UNCHANGED <<rooms, seats, advisory, tries, drawn, old>>
  BY DEF FindRoom, LockRoomForJoin, CountRoomPlayers, InsertPlayer, AddPlayer, JoinFails,
         locks, local, ReturnSeat, Release
<1>2. \/ \E l \in CreatePCs \cup JoinPCs : l # "returned" /\ Goto(j, l)
      \/ \E a \in Answers \ {"none"} : Return(j, a)
  BY DEF FindRoom, LockRoomForJoin, CountRoomPlayers, InsertPlayer, AddPlayer, JoinFails, ReturnSeat,
         JoinPCs, Answers
<1>3. /\ AnsweredOnce'
      /\ answer' \in [Requests -> Answers]
      /\ \A s \in Requests \ {j} : pc'[s] = pc[s]
  BY <1>0, <1>2, AnswersAreLeft
<1>4. \A c \in Creations : pc'[c] = pc[c]
  BY <1>0, <1>3 DEF Requests
<1>5. CreationsSound'
  BY <1>1, <1>4, CreationsAreLeft
<1>6. WithinCaps'
  BY <1>1 DEF IInv, WithinCaps, Seated, rooms, seats
<1>7. pc' = [pc EXCEPT ![j] = pc'[j]] /\ pc'[j] \in JoinPCs
  BY <1>0 DEF FindRoom, LockRoomForJoin, CountRoomPlayers, InsertPlayer, AddPlayer, JoinFails,
              ReturnSeat, Goto, Return, IInv, TypeOK, JoinPCs
<1>8. /\ target' = [target EXCEPT ![j] = target'[j]]
      /\ target'[j] \in Creations \cup {None}
      /\ target' \in [Joins -> Creations \cup {None}]
  BY DEF FindRoom, LockRoomForJoin, CountRoomPlayers, InsertPlayer, AddPlayer, JoinFails,
         ReturnSeat, local, IInv, TypeOK
<1>9. \/ UNCHANGED rowLock
      \/ LockRoomForJoin(j) /\ rowLock[target[j]] = None /\ rowLock' = [rowLock EXCEPT ![target[j]] = j]
      \/ Holding(j) /\ rowLock' = [rowLock EXCEPT ![target[j]] = None]
  BY DEF FindRoom, LockRoomForJoin, CountRoomPlayers, InsertPlayer, AddPlayer, JoinFails,
         Release, locks, Holding
<1>10. TypeOK'
  <2>1. /\ pc' \in [Requests -> CreatePCs \cup JoinPCs]
        /\ \A d \in Creations : pc'[d] \in CreatePCs
        /\ \A i \in Joins : pc'[i] \in JoinPCs
    BY <1>0, <1>7 DEF IInv, TypeOK, Requests
  <2>2. rowLock' \in [Creations -> Joins \cup {None}]
    BY <1>9 DEF IInv, TypeOK
  <2> QED
    BY <1>1, <1>3, <1>8, <2>1, <2>2 DEF IInv, TypeOK, rooms, seats
<1>11. JoinsSound'
  <2>1. ASSUME NEW i \in Joins \ {j}
        PROVE  /\ pc'[i] = pc[i] /\ target'[i] = target[i]
               /\ Holding(i) => rowLock'[target[i]] = i
    <3>1. pc'[i] = pc[i] /\ target'[i] = target[i]
      BY <1>3, <1>8 DEF Requests, IInv, TypeOK
    <3>2. Holding(i) => target[i] \in Creations /\ rowLock[target[i]] = i
      BY DEF IInv, JoinsSound, JoinSound
    <3>3. Holding(j) => rowLock[target[j]] = j
      BY DEF IInv, JoinsSound, JoinSound
    <3>4. i # None
      BY AdmissionAssumption DEF Requests
    <3> QED
      BY <1>9, <3>1, <3>2, <3>3, <3>4 DEF IInv, TypeOK
  <2>2. /\ (\A c : Seated(c)' = Seated(c)) /\ (\A c, n : Taken(c, n)' = Taken(c, n))
        /\ (\A c : Active(c)' = Active(c)) /\ UNCHANGED <<seat, kicked, status>>
    BY <1>1 DEF rooms, seats, Seated, Taken, Active
  <2>3. ASSUME NEW i \in Joins \ {j}
        PROVE  JoinSound(i)'
    BY <2>1, <2>2 DEF IInv, JoinsSound, JoinSound, Holding
  <2>4. JoinSound(j)'
    <3>1. CASE FindRoom(j)
      BY <1>0, <2>2, <3>1 DEF FindRoom, Goto, ReturnSeat, Return, IInv, TypeOK, JoinsSound, JoinSound, Holding
    <3>2. CASE LockRoomForJoin(j)
      BY <1>0, <2>2, <3>2 DEF LockRoomForJoin, local, Goto, ReturnSeat, Return, IInv, TypeOK,
                              JoinsSound, JoinSound, Holding
    <3>3. CASE CountRoomPlayers(j)
      <4>1. Cardinality(Seated(target[j])) \in Nat
        BY Counts DEF Seated
      <4> QED
        BY <1>0, <2>2, <3>3, <4>1 DEF CountRoomPlayers, locks, local, Goto, ReturnSeat, Return, IInv, TypeOK,
                                JoinsSound, JoinSound, Holding
    <3>4. CASE InsertPlayer(j)
      BY <1>0, <2>2, <3>4 DEF InsertPlayer, locks, local, Goto, ReturnSeat, Return, IInv, TypeOK,
                              JoinsSound, JoinSound, Holding
    <3>5. CASE AddPlayer(j) \/ JoinFails(j)
      BY <1>0, <2>2, <3>5 DEF AddPlayer, JoinFails, ReturnSeat, Return, IInv, TypeOK, JoinsSound, JoinSound, Holding
    <3> QED
      BY <3>1, <3>2, <3>3, <3>4, <3>5
  <2> QED
    BY <2>3, <2>4 DEF JoinsSound, JoinSound
<1> QED
  BY <1>3, <1>5, <1>6, <1>10, <1>11 DEF IInv

\* The seat that is taken was free, and nobody else counts this room's seats.
LEMMA CommitPlayerKeepsIInv ==
  ASSUME IInv, NEW j \in Joins, CommitPlayer(j)
  PROVE  IInv'
<1> PICK c \in Creations : c = target[j]
  BY DEF CommitPlayer, IInv, JoinsSound, JoinSound, Holding
<1>0. /\ j \in Requests /\ j \notin Creations /\ pc[j] = "save" /\ Holding(j)
      /\ rowLock[c] = j /\ seat[j] = None /\ j \notin kicked
      /\ Cardinality(Seated(c)) < SeatCap
  BY AdmissionAssumption DEF Requests, CommitPlayer, IInv, JoinsSound, JoinSound, Holding
<1>1. /\ seat' = [seat EXCEPT ![j] = c]
      /\ rowLock' = [rowLock EXCEPT ![c] = None]
      /\ UNCHANGED <<rooms, kicked, advisory, tries, drawn, old>>
  BY DEF CommitPlayer, Release, ReturnSeat, local
<1>2. \/ \E l \in CreatePCs \cup JoinPCs : l # "returned" /\ Goto(j, l)
      \/ \E a \in Answers \ {"none"} : Return(j, a)
  BY DEF CommitPlayer, ReturnSeat, JoinPCs, Answers
<1>3. /\ AnsweredOnce'
      /\ answer' \in [Requests -> Answers]
      /\ \A s \in Requests \ {j} : pc'[s] = pc[s]
  BY <1>0, <1>2, AnswersAreLeft
<1>4. \A d \in Creations : pc'[d] = pc[d]
  BY <1>0, <1>3 DEF Requests
<1>5. CreationsSound'
  BY <1>1, <1>4, CreationsAreLeft
<1>6. pc' = [pc EXCEPT ![j] = pc'[j]] /\ pc'[j] \in {"add", "returned"}
  BY <1>0 DEF CommitPlayer, ReturnSeat, Goto, Return, IInv, TypeOK
<1>7. /\ target' = [target EXCEPT ![j] = target'[j]]
      /\ target' \in [Joins -> Creations \cup {None}]
  BY DEF CommitPlayer, ReturnSeat, local, IInv, TypeOK
<1>8. TypeOK'
  <2>1. /\ pc' \in [Requests -> CreatePCs \cup JoinPCs]
        /\ \A d \in Creations : pc'[d] \in CreatePCs
        /\ \A i \in Joins : pc'[i] \in JoinPCs
    BY <1>0, <1>6 DEF IInv, TypeOK, Requests, JoinPCs
  <2> QED
    BY <1>0, <1>1, <1>3, <1>7, <2>1 DEF IInv, TypeOK, rooms
<1>9. /\ Seated(c)' = Seated(c) \cup {j}
      /\ \A d \in Creations \ {c} : Seated(d)' = Seated(d)
  <2>1. \A i \in Joins : seat'[i] = IF i = j THEN c ELSE seat[i]
    BY <1>1 DEF IInv, TypeOK
  <2>2. None \notin Creations
    BY AdmissionAssumption DEF Requests
  <2> QED
    BY <1>0, <2>1, <2>2 DEF Seated
<1>10. WithinCaps'
  <2>1. Cardinality(Seated(c)) \in Nat /\ IsFiniteSet(Seated(c))
    BY Counts DEF Seated
  <2>2. Cardinality(Seated(c) \cup {j}) \in {Cardinality(Seated(c)), Cardinality(Seated(c)) + 1}
    BY <2>1, FS_AddElement
  <2>3. Cardinality(Seated(c)') <= SeatCap
    <3>1. SeatCap \in Nat
      BY AdmissionAssumption
    <3>2. \A k, m \in Nat : k < m => k + 1 <= m
      OBVIOUS
    <3> QED
      BY <1>0, <1>9, <2>1, <2>2, <3>1, <3>2
  <2> QED
    BY <1>1, <1>9, <2>3 DEF IInv, WithinCaps, rooms
<1>11. JoinsSound'
  <2>1. ASSUME NEW i \in Joins \ {j}
        PROVE  JoinSound(i)'
    <3>1. pc'[i] = pc[i] /\ target'[i] = target[i] /\ seat'[i] = seat[i]
      BY <1>1, <1>3, <1>7 DEF Requests, IInv, TypeOK
    <3>2. JoinSound(i)
      BY DEF IInv, JoinsSound
    <3>3. PICK t : t = target[i]
      OBVIOUS
    <3>4. Holding(i) => t \in Creations \ {c} /\ rowLock[t] = i
      BY <1>0, <3>2, <3>3 DEF JoinSound
    <3>5. Holding(i) => rowLock'[t] = i /\ Seated(t)' = Seated(t)
      BY <1>1, <1>9, <3>4 DEF IInv, TypeOK
    <3>6. Active(t)' = Active(t)
      BY <1>1 DEF Active, rooms
    <3>7. pc[i] = "save" => ~Taken(t, Nickname[i])'
      BY <3>2, <3>3, <3>5 DEF JoinSound, Taken, Holding
    <3>8. pc[i] \in {"enter", "save"} => Cardinality(Seated(t)') < SeatCap
      BY <3>2, <3>3, <3>5 DEF JoinSound, Holding
    <3>9. target'[i] = t /\ Holding(i)' = Holding(i)
      BY <3>1, <3>3 DEF Holding
    <3>10. Holding(i)' => t \in Creations /\ rowLock'[t] = i /\ Active(t)'
      BY <3>2, <3>3, <3>4, <3>5, <3>6, <3>9 DEF JoinSound
    <3> QED
      BY <1>1, <3>1, <3>2, <3>3, <3>7, <3>8, <3>9, <3>10 DEF JoinSound
  <2>2. JoinSound(j)'
    <3>1. seat'[j] # None
      BY <1>0, <1>1, AdmissionAssumption DEF IInv, TypeOK, Requests
    <3> QED
      BY <1>6, <3>1 DEF JoinSound, Holding
  <2> QED
    BY <2>1, <2>2 DEF JoinsSound
<1> QED
  BY <1>3, <1>5, <1>8, <1>10, <1>11 DEF IInv

-----------------------------------------------------------------------------
(* Room goroutines and time *)

\* A room is ended only when nobody holds its row, and fewer rooms are young.
LEMMA RoomKeepsIInv ==
  ASSUME IInv, NEW c \in Creations, MarkRoomEnded(c) \/ Age(c)
  PROVE  IInv'
<1>1. /\ \/ status' = [status EXCEPT ![c] = "ended"] /\ rowLock[c] = None
         \/ status' = [status EXCEPT ![c] = "old"]
      /\ Active(c)
      /\ UNCHANGED <<pin, seat, kicked, advisory, rowLock, pc, tries, drawn, old, target, answer>>
  BY DEF MarkRoomEnded, Age, Active, seats, locks, local
<1>2. TypeOK' /\ AnsweredOnce'
  BY <1>1 DEF IInv, TypeOK, AnsweredOnce
<1>3. FreshRooms' \in SUBSET FreshRooms /\ FreshRooms \in SUBSET Creations
  BY <1>1 DEF IInv, TypeOK, FreshRooms
<1>4. Cardinality(FreshRooms') <= Cardinality(FreshRooms)
  BY <1>3, FewerRooms
<1>5. Cardinality(FreshRooms') \in Nat /\ Cardinality(FreshRooms) \in Nat /\ RoomCap \in Nat
  BY <1>3, Counts, AdmissionAssumption
<1>6. WithinCaps'
  <2>1. Cardinality(FreshRooms) <= RoomCap
    BY DEF IInv, WithinCaps, FreshRooms
  <2>2. Cardinality(FreshRooms') <= RoomCap
    <3> HIDE DEF FreshRooms
    <3> QED
      BY <1>4, <1>5, <2>1
  <2> QED
    BY <1>1, <2>2 DEF IInv, WithinCaps, FreshRooms, Seated
<1>7. CreationsSound'
  <2>1. Cardinality(FreshRooms) < RoomCap => Cardinality(FreshRooms') < RoomCap
    <3> HIDE DEF FreshRooms
    <3> QED
      BY <1>4, <1>5
  <2>2. \A d \in Creations : status[d] \in {"none", "old", "ended"} =>
          status'[d] \in {status[d], "ended", "old"} /\ (status[d] = "none" => status'[d] = "none")
    BY <1>1 DEF IInv, TypeOK, Active
  <2>3. \A d \in Creations : \A e \in old[d] : status'[e] \in {"old", "ended"}
    BY <2>2 DEF IInv, TypeOK, CreationsSound
  <2> HIDE DEF FreshRooms
  <2> QED
    BY <1>1, <2>1, <2>2, <2>3 DEF IInv, CreationsSound, PinInUse
<1>8. JoinsSound'
  <2>1. ASSUME NEW j \in Joins, Holding(j)
        PROVE  Active(target[j])'
    <3>1. target[j] \in Creations /\ rowLock[target[j]] = j /\ Active(target[j]) /\ j # None
      BY <2>1, AdmissionAssumption DEF IInv, JoinsSound, JoinSound, Requests
    <3> QED
      BY <1>1, <3>1 DEF IInv, TypeOK, Active
  <2> QED
    BY <1>1, <2>1 DEF IInv, JoinsSound, JoinSound, Holding, Seated, Taken
<1> QED
  BY <1>2, <1>6, <1>7, <1>8 DEF IInv

LEMMA DeletePlayerKeepsIInv ==
  ASSUME IInv, NEW j \in Joins, DeletePlayer(j)
  PROVE  IInv'
<1>1. /\ seat[j] # None
      /\ seat' = [seat EXCEPT ![j] = None]
      /\ kicked' = kicked \cup {j}
      /\ UNCHANGED <<status, pin, advisory, rowLock, pc, tries, drawn, old, target, answer>>
  BY DEF DeletePlayer, rooms, locks, local
<1>2. TypeOK' /\ AnsweredOnce'
  BY <1>1 DEF IInv, TypeOK, AnsweredOnce
<1>3. CreationsSound'
  BY <1>1 DEF IInv, CreationsSound, FreshRooms, PinInUse
<1>4. ASSUME NEW c \in Creations
      PROVE  /\ Seated(c)' \in SUBSET Seated(c)
             /\ Cardinality(Seated(c)') <= Cardinality(Seated(c))
             /\ Cardinality(Seated(c)') \in Nat /\ Cardinality(Seated(c)) \in Nat
  <2>1. Seated(c)' \in SUBSET Seated(c) /\ Seated(c) \in SUBSET Joins
    BY <1>1, AdmissionAssumption DEF IInv, TypeOK, Seated, Requests
  <2> QED
    BY <2>1, FewerSeats, Counts
<1>5. SeatCap \in Nat
  BY AdmissionAssumption
<1>6. WithinCaps'
  <2>1. \A c \in Creations : Cardinality(Seated(c)') <= SeatCap
    BY <1>4, <1>5 DEF IInv, WithinCaps
  <2> QED
    BY <1>1, <2>1 DEF IInv, WithinCaps
<1>7. JoinsSound'
  <2>1. ASSUME NEW i \in Joins
        PROVE  JoinSound(i)'
    <3>1. JoinSound(i)
      BY DEF IInv, JoinsSound
    <3>2. PICK t : t = target[i] /\ (pc[i] \in {"enter", "save"} => t \in Creations)
      BY <3>1 DEF JoinSound, Holding
    <3>3. pc[i] \in {"enter", "save"} => Cardinality(Seated(t)') < SeatCap
      <4>1. \A k, l, m \in Nat : k <= l /\ l < m => k < m
        OBVIOUS
      <4> QED
        BY <1>4, <1>5, <3>1, <3>2, <4>1 DEF JoinSound
    <3>4. pc[i] = "save" => ~Taken(t, Nickname[i])'
      BY <1>1, <1>4, <3>1, <3>2 DEF JoinSound, Taken
    <3>5. i # j => seat'[i] = seat[i]
      BY <1>1 DEF IInv, TypeOK
    <3>6. pc[j] \in {"add", "returned"}
      BY <1>1 DEF IInv, JoinsSound, JoinSound
    <3> QED
      BY <1>1, <3>1, <3>2, <3>3, <3>4, <3>5, <3>6 DEF JoinSound, Holding, Active
  <2> QED
    BY <2>1 DEF JoinsSound
<1> QED
  BY <1>2, <1>3, <1>6, <1>7 DEF IInv

LEMMA NextIInv == IInv /\ [Next]_vars => IInv'
<1> SUFFICES ASSUME IInv, [Next]_vars PROVE IInv'
  OBVIOUS
<1>1. CASE UNCHANGED vars
  <2>1. UNCHANGED <<status, pin, seat, kicked, advisory, rowLock, pc, tries, drawn, old, target, answer>>
    BY <1>1 DEF vars, rooms, seats, locks, local
  <2>2. TypeOK'
    BY <2>1 DEF IInv, TypeOK
  <2>3. WithinCaps' /\ AnsweredOnce'
    BY <2>1 DEF IInv, WithinCaps, AnsweredOnce, Seated
  <2>4. CreationsSound'
    BY <2>1 DEF IInv, CreationsSound, FreshRooms, PinInUse
  <2>5. JoinsSound'
    BY <2>1 DEF IInv, JoinsSound, JoinSound, Holding, Active, Seated, Taken
  <2> QED
    BY <2>2, <2>3, <2>4, <2>5 DEF IInv
<1>2. ASSUME NEW c \in Creations,
             CreateStep(c) \/ CreateFails(c) \/ MarkRoomEnded(c) \/ Age(c)
      PROVE  IInv'
  BY <1>2, CreationKeepsIInv, CommitRoomKeepsIInv, RoomKeepsIInv DEF CreateStep
<1>3. ASSUME NEW j \in Joins, JoinStep(j) \/ JoinFails(j) \/ DeletePlayer(j)
      PROVE  IInv'
  BY <1>3, JoinKeepsIInv, CommitPlayerKeepsIInv, DeletePlayerKeepsIInv DEF JoinStep
<1> QED
  BY <1>1, <1>2, <1>3 DEF Next

-----------------------------------------------------------------------------
(* The book of rooms: a commit is a request taking effect, an answer is a   *)
(* refusal or a reply, every other statement is invisible                   *)

\* The book counts as the transactions do.
LEMMA SameCount == \A S : Book!Cardinality(S) = Cardinality(S)
BY DEF Book!Cardinality, Cardinality

LEMMA InitBook == Init => Book!Init
BY DEF Init, Book!Init, Requests

\* A creation without a room can be refused.
LEMMA CreateImplements ==
  ASSUME IInv, NEW c \in Creations, CreateStep(c) \/ CreateFails(c)
  PROVE  Book!Next \/ UNCHANGED Book!vars
<1>0. pc[c] # "returned" /\ answer[c] = "none" /\ status[c] = "none"
  <2>1. pc[c] # "returned"
    BY DEF CreateStep, BeginRoom, LockCreation, CountActiveRooms, InsertRoom, CommitRoom, CreateFails
  <2> QED
    BY <2>1 DEF IInv, CreationsSound, AnsweredOnce, Requests
<1>1. ASSUME UNCHANGED <<rooms, seats, answer>>
      PROVE  UNCHANGED Book!vars
  BY <1>1 DEF rooms, seats, Book!vars, Book!rooms, Book!seats
<1>2. ASSUME ReturnRoom(c, "error"), UNCHANGED <<rooms, seats>>
      PROVE  Book!RefuseRoom(c)
  BY <1>0, <1>2 DEF ReturnRoom, Return, rooms, seats, Book!RefuseRoom, Book!Answer,
                    Book!rooms, Book!seats
<1>3. CASE BeginRoom(c) \/ LockCreation(c)
  BY <1>1, <1>3 DEF BeginRoom, LockCreation, Goto
<1>4. CASE CountActiveRooms(c)
  <2>1. ASSUME ReturnRoom(c, "maxrooms"), Cardinality(Counted(c)) >= RoomCap
        PROVE  Book!RefuseRoom(c)
    <3>1. Counted(c) \in SUBSET Book!ActiveRooms /\ Book!ActiveRooms \in SUBSET Creations
      BY DEF Counted, Active, Book!ActiveRooms, Book!Active
    <3>2. Cardinality(Counted(c)) <= Cardinality(Book!ActiveRooms)
      BY <3>1, FewerRooms
    <3>3. Cardinality(Counted(c)) \in Nat /\ Cardinality(Book!ActiveRooms) \in Nat /\ RoomCap \in Nat
      BY <3>1, Counts, AdmissionAssumption
    <3>4. \A k, l, m \in Nat : k <= l /\ k >= m => l >= m
      OBVIOUS
    <3>5. Cardinality(Book!ActiveRooms) >= RoomCap
      BY <2>1, <3>2, <3>3, <3>4
    <3>6. UNCHANGED <<status, pin, seat, kicked>> /\ answer' = [answer EXCEPT ![c] = "maxrooms"]
      BY <1>4, <2>1 DEF CountActiveRooms, ReturnRoom, Return, rooms, seats
    <3> QED
      BY <1>0, <3>5, <3>6, SameCount DEF Book!RefuseRoom, Book!Answer, Book!rooms, Book!seats
  <2> QED
    BY <1>1, <1>4, <2>1 DEF CountActiveRooms, Goto, Book!Next
<1>5. CASE InsertRoom(c)
  BY <1>1, <1>2, <1>5 DEF InsertRoom, Goto, Book!Next
<1>6. CASE CommitRoom(c)
  <2>1. /\ Cardinality(Book!FreshRooms) < RoomCap
        /\ drawn[c] \in Pins
        /\ \A d \in Creations : pin[d] # drawn[c]
    BY <1>6 DEF CommitRoom, IInv, CreationsSound, FreshRooms, PinInUse, Book!FreshRooms
  <2>2. \E a \in {"created", "error"} : answer' = [answer EXCEPT ![c] = a]
    BY <1>6 DEF CommitRoom, ReturnRoom, Return
  <2>3. Book!Create(c)
    <3>1. /\ status' = [status EXCEPT ![c] = "fresh"] /\ pin' = [pin EXCEPT ![c] = drawn[c]]
          /\ UNCHANGED <<seat, kicked>>
      BY <1>6 DEF CommitRoom, seats
    <3>2. Book!Answer(c, "created") \/ Book!Answer(c, "error")
      BY <1>0, <2>2 DEF Book!Answer
    <3> QED
      BY <1>0, <2>1, <3>1, <3>2, SameCount DEF Book!Create, Book!seats
  <2> QED
    BY <2>3 DEF Book!Next
<1>7. CASE CreateFails(c)
  BY <1>2, <1>7 DEF CreateFails, Book!Next
<1> QED
  BY <1>3, <1>4, <1>5, <1>6, <1>7 DEF CreateStep

\* A join says "full" or "taken" with the room's row locked, so that it is
\* true of an open room when it is said.
LEMMA JoinImplements ==
  ASSUME IInv, NEW j \in Joins, JoinStep(j) \/ JoinFails(j)
  PROVE  Book!Next \/ UNCHANGED Book!vars
<1>0. pc[j] # "returned" /\ answer[j] = "none" /\ JoinSound(j)
  <2>1. pc[j] # "returned"
    BY DEF JoinStep, FindRoom, LockRoomForJoin, CountRoomPlayers, InsertPlayer, CommitPlayer,
           AddPlayer, JoinFails
  <2> QED
    BY <2>1 DEF IInv, JoinsSound, AnsweredOnce, Requests
<1>1. ASSUME UNCHANGED <<rooms, seats, answer>>
      PROVE  UNCHANGED Book!vars
  BY <1>1 DEF rooms, seats, Book!vars, Book!rooms, Book!seats
<1>2. ASSUME NEW a \in {"notfound", "invalid", "error"}, pc[j] # "add",
             ReturnSeat(j, a), UNCHANGED <<rooms, seats>>
      PROVE  Book!RefuseSeat(j)
  <2>1. ~Book!Admitted(j)
    BY <1>0, <1>2 DEF JoinSound, Book!Admitted
  <2> QED
    BY <1>0, <1>2, <2>1 DEF ReturnSeat, Return, rooms, seats, Book!RefuseSeat, Book!Answer,
                            Book!rooms, Book!seats
<1>3. ASSUME NEW a \in {"token", "notfound", "error"}, pc[j] = "add",
             ReturnSeat(j, a), UNCHANGED <<rooms, seats>>
      PROVE  Book!Reply(j)
  <2>1. Book!Admitted(j)
    BY <1>0, <1>3 DEF JoinSound, Book!Admitted
  <2> QED
    BY <1>0, <1>3, <2>1 DEF ReturnSeat, Return, rooms, seats, Book!Reply, Book!Answer,
                            Book!rooms, Book!seats
<1>4. Holding(j) => target[j] \in Book!ActiveRooms /\ ~Book!Admitted(j)
  BY <1>0 DEF JoinSound, Holding, Active, Book!ActiveRooms, Book!Active, Book!Admitted
<1>5. CASE FindRoom(j)
  BY <1>1, <1>2, <1>5 DEF FindRoom, Goto, Book!Next
<1>6. CASE LockRoomForJoin(j)
  BY <1>1, <1>2, <1>6 DEF LockRoomForJoin, Goto, Book!Next
<1>7. CASE CountRoomPlayers(j)
  <2>1. ASSUME ReturnSeat(j, "full"), Cardinality(Seated(target[j])) >= SeatCap
        PROVE  Book!RefuseSeat(j)
    <3>1. Cardinality(Book!Seated(target[j])) >= SeatCap
      BY <2>1 DEF Seated, Book!Seated
    <3>2. target[j] \in Book!ActiveRooms /\ ~Book!Admitted(j)
      BY <1>4, <1>7 DEF CountRoomPlayers, Holding
    <3> QED
      <4>1. UNCHANGED <<status, pin, seat, kicked>> /\ Book!Answer(j, "full")
        BY <1>0, <1>7, <2>1 DEF CountRoomPlayers, ReturnSeat, Return, rooms, seats, Book!Answer
      <4> QED
        BY <3>1, <3>2, <4>1, SameCount DEF Book!RefuseSeat, Book!rooms, Book!seats
  <2> QED
    BY <1>1, <1>7, <2>1 DEF CountRoomPlayers, Goto, Book!Next
<1>8. CASE InsertPlayer(j)
  <2>1. ASSUME ReturnSeat(j, "taken"), Taken(target[j], Nickname[j])
        PROVE  Book!RefuseSeat(j)
    <3>1. Book!Taken(target[j], Nickname[j])
      BY <2>1 DEF Taken, Seated, Book!Taken, Book!Seated
    <3>2. target[j] \in Book!ActiveRooms /\ ~Book!Admitted(j)
      BY <1>4, <1>8 DEF InsertPlayer, Holding
    <3> QED
      <4>1. UNCHANGED <<status, pin, seat, kicked>> /\ Book!Answer(j, "taken")
        BY <1>0, <1>8, <2>1 DEF InsertPlayer, ReturnSeat, Return, rooms, seats, Book!Answer
      <4> QED
        BY <3>1, <3>2, <4>1 DEF Book!RefuseSeat, Book!rooms, Book!seats
  <2> QED
    BY <1>1, <1>2, <1>8, <2>1 DEF InsertPlayer, Goto, Book!Next
<1>9. CASE CommitPlayer(j)
  <2>1. /\ target[j] \in Book!ActiveRooms /\ ~Book!Admitted(j)
        /\ Cardinality(Book!Seated(target[j])) < SeatCap
        /\ ~Book!Taken(target[j], Nickname[j])
    BY <1>0, <1>4, <1>9 DEF CommitPlayer, Holding, JoinSound, Seated, Taken, Book!Seated, Book!Taken
  <2>2. UNCHANGED answer \/ answer' = [answer EXCEPT ![j] = "error"]
    BY <1>9 DEF CommitPlayer, Goto, ReturnSeat, Return
  <2>3. Book!Enter(j)
    <3>1. seat' = [seat EXCEPT ![j] = target[j]] /\ UNCHANGED <<status, pin, kicked>>
      BY <1>9 DEF CommitPlayer, rooms
    <3>2. UNCHANGED answer \/ Book!Answer(j, "error")
      BY <1>0, <2>2 DEF Book!Answer
    <3> QED
      BY <2>1, <3>1, <3>2, SameCount DEF Book!Enter, Book!rooms
  <2> QED
    BY <2>3 DEF Book!Next
<1>10. CASE AddPlayer(j)
  BY <1>3, <1>10 DEF AddPlayer, Book!Next
<1>11. CASE JoinFails(j)
  BY <1>2, <1>3, <1>11 DEF JoinFails, Book!Next
<1> QED
  BY <1>5, <1>6, <1>7, <1>8, <1>9, <1>10, <1>11 DEF JoinStep

LEMMA NextImplements == IInv /\ [Next]_vars => [Book!Next]_(Book!vars)
<1> SUFFICES ASSUME IInv, [Next]_vars PROVE Book!Next \/ UNCHANGED Book!vars
  OBVIOUS
<1>1. CASE UNCHANGED vars
  BY <1>1 DEF vars, rooms, seats, Book!vars, Book!rooms, Book!seats
<1>2. ASSUME NEW c \in Creations, CreateStep(c) \/ CreateFails(c)
      PROVE  Book!Next \/ UNCHANGED Book!vars
  BY <1>2, CreateImplements
<1>3. ASSUME NEW j \in Joins, JoinStep(j) \/ JoinFails(j)
      PROVE  Book!Next \/ UNCHANGED Book!vars
  BY <1>3, JoinImplements
<1>4. ASSUME NEW c \in Creations, MarkRoomEnded(c) \/ Age(c)
      PROVE  Book!Next
  <2>1. Book!End(c) \/ Book!Age(c)
    BY <1>4 DEF MarkRoomEnded, Age, Active, seats, Book!End, Book!Age, Book!Active, Book!seats
  <2> QED
    BY <2>1 DEF Book!Next
<1>5. ASSUME NEW j \in Joins, DeletePlayer(j)
      PROVE  Book!Next
  <2>1. Book!Kick(j)
    BY <1>5 DEF DeletePlayer, rooms, Book!Kick, Book!rooms
  <2> QED
    BY <2>1 DEF Book!Next
<1> QED
  BY <1>1, <1>2, <1>3, <1>4, <1>5 DEF Next

-----------------------------------------------------------------------------
(* Theorems *)

\* Everything below rests on this.
THEOREM Invariance == Spec => []IInv
BY InitIInv, NextIInv, PTL DEF Spec

\* Every variable always has its type, and no request draws too many PINs.
THEOREM TypeCorrect == Spec => []TypeOK
BY Invariance, PTL DEF IInv

\* Neither cap is exceeded, whatever requests run at the same time.
THEOREM CapsHold == Spec => []WithinCaps
BY Invariance, PTL DEF IInv

\* The transactions of store.go are as good as requests that take effect at
\* once.
THEOREM Refinement == Spec => ImplementsRoomBook
BY InitBook, NextImplements, Invariance, PTL DEF Spec, ImplementsRoomBook, Book!Spec

-----------------------------------------------------------------------------
(* Nobody is stuck, and nobody goes on for ever *)

\* What a request can do without waiting for a lock: the guards of CreateStep
\* and JoinStep.
CanCreate(c) ==
  \/ pc[c] \in {"begin", "count", "insert", "commit"}
  \/ pc[c] = "lock" /\ advisory = None

CanJoin(j) ==
  \/ pc[j] \in {"find", "seats", "enter", "save", "add"}
  \/ pc[j] = "open" /\ rowLock[target[j]] = None

\* Whoever has not returned can go on, or waits for a lock whose holder can.
NobodyIsStuck ==
  /\ \A c \in Creations : pc[c] # "returned" =>
       CanCreate(c) \/ (advisory # None /\ CanCreate(advisory))
  /\ \A j \in Joins : pc[j] # "returned" =>
       CanJoin(j) \/ (rowLock[target[j]] # None /\ CanJoin(rowLock[target[j]]))

\* The steps a request has left at most: four for each PIN it may still try.
Left(r) ==
  CASE pc[r] = "returned" -> 0
    [] pc[r] \in {"begin", "commit"} -> 4 * (PinAttempts - tries[r]) + 1
    [] pc[r] = "insert" -> 4 * (PinAttempts - tries[r]) + 2
    [] pc[r] = "count" -> 4 * (PinAttempts - tries[r]) + 3
    [] pc[r] = "lock" -> 4 * (PinAttempts - tries[r]) + 4
    [] pc[r] = "add" -> 1
    [] pc[r] = "save" -> 2
    [] pc[r] = "enter" -> 3
    [] pc[r] = "seats" -> 4
    [] pc[r] = "open" -> 5
    [] pc[r] = "find" -> 6

\* A request that does something has less left to do, and nobody else has more.
StepsRunOut ==
  [][\A r \in Requests : Left(r)' = Left(r) \/ (pc'[r] # pc[r] /\ Left(r)' < Left(r))]_vars

\* A lock is held by a transaction that is open.
LocksAreHeld ==
  /\ advisory # None => pc[advisory] \in {"count", "insert", "commit"}
  /\ \A c \in Creations : rowLock[c] # None =>
       Holding(rowLock[c]) /\ target[rowLock[c]] = c

LEMMA CreationKeepsLocks ==
  ASSUME IInv, LocksAreHeld, NEW c \in Creations, CreateStep(c) \/ CreateFails(c)
  PROVE  LocksAreHeld'
<1>1. /\ \A j \in Joins : pc'[j] = pc[j]
      /\ \A d \in Creations \ {c} : pc'[d] = pc[d]
      /\ UNCHANGED <<rowLock, target>>
  BY AdmissionAssumption DEF CreateStep, BeginRoom, LockCreation, CountActiveRooms, InsertRoom,
     CommitRoom, CreateFails, Goto, ReturnRoom, Return, Unlock, locks, local, IInv, TypeOK, Requests
<1>2. advisory' # None => pc'[advisory'] \in {"count", "insert", "commit"}
  <2>1. CASE BeginRoom(c)
    <3>1. advisory # c /\ UNCHANGED advisory
      BY <2>1, AdmissionAssumption DEF BeginRoom, LocksAreHeld, locks, Requests
    <3> QED
      BY <1>1, <3>1 DEF LocksAreHeld, IInv, TypeOK
  <2>2. CASE LockCreation(c)
    BY <2>2 DEF LockCreation, Goto, IInv, TypeOK, Requests
  <2>3. CASE CountActiveRooms(c)
    <3>1. advisory = c
      BY <2>3 DEF CountActiveRooms, IInv, CreationsSound
    <3> QED
      BY <2>3, <3>1 DEF CountActiveRooms, Unlock, Goto, locks, IInv, TypeOK, Requests
  <2>4. CASE InsertRoom(c)
    <3>1. advisory = c
      BY <2>4 DEF InsertRoom, IInv, CreationsSound
    <3> QED
      BY <2>4, <3>1 DEF InsertRoom, Unlock, Goto, locks, IInv, TypeOK, Requests
  <2>5. CASE CommitRoom(c)
    BY <2>5 DEF CommitRoom, Unlock
  <2>6. CASE CreateFails(c)
    <3>1. advisory' = None \/ (advisory' = advisory /\ advisory # c)
      <4>1. CASE advisory = c
        BY <2>6, <4>1 DEF CreateFails, Unlock
      <4>2. CASE advisory # c
        BY <2>6, <4>2 DEF CreateFails, locks
      <4> QED
        BY <4>1, <4>2
    <3> QED
      BY <1>1, <3>1 DEF LocksAreHeld, IInv, TypeOK
  <2> QED
    BY <2>1, <2>2, <2>3, <2>4, <2>5, <2>6 DEF CreateStep
<1>3. ASSUME NEW d \in Creations, rowLock'[d] # None
      PROVE  Holding(rowLock[d])' /\ target'[rowLock'[d]] = d
  <2>1. rowLock[d] \in Joins
    BY <1>1, <1>3 DEF IInv, TypeOK
  <2> QED
    BY <1>1, <1>3, <2>1 DEF LocksAreHeld, Holding
<1> QED
  BY <1>2, <1>3 DEF LocksAreHeld

LEMMA JoinKeepsLocks ==
  ASSUME IInv, LocksAreHeld, NEW j \in Joins, JoinStep(j) \/ JoinFails(j)
  PROVE  LocksAreHeld'
<1>1. /\ \A c \in Creations : pc'[c] = pc[c]
      /\ \A i \in Joins \ {j} : pc'[i] = pc[i] /\ target'[i] = target[i]
      /\ UNCHANGED advisory
  BY AdmissionAssumption DEF JoinStep, FindRoom, LockRoomForJoin, CountRoomPlayers, InsertPlayer,
     CommitPlayer, AddPlayer, JoinFails, Goto, ReturnSeat, Return, Release, locks, local,
     IInv, TypeOK, Requests
<1>2. advisory' # None => pc'[advisory'] \in {"count", "insert", "commit"}
  BY <1>1 DEF LocksAreHeld, IInv, TypeOK
<1>3. \/ UNCHANGED rowLock /\ ~Holding(j)
      \/ UNCHANGED rowLock /\ Holding(j)' /\ UNCHANGED target
      \/ rowLock' = [rowLock EXCEPT ![target[j]] = j] /\ Holding(j)' /\ UNCHANGED target
      \/ rowLock' = [rowLock EXCEPT ![target[j]] = None]
  BY DEF JoinStep, FindRoom, LockRoomForJoin, CountRoomPlayers, InsertPlayer,
     CommitPlayer, AddPlayer, JoinFails, Goto, Release, locks, local, Holding, IInv, TypeOK, Requests
<1>4. ASSUME NEW d \in Creations, rowLock'[d] # None
      PROVE  Holding(rowLock[d])' /\ target'[rowLock'[d]] = d
  <2>1. \/ rowLock'[d] = rowLock[d]
        \/ rowLock'[d] = j /\ d = target[j] /\ Holding(j)' /\ UNCHANGED target
    <3>1. CASE rowLock' = [rowLock EXCEPT ![target[j]] = j] /\ Holding(j)' /\ UNCHANGED target
      BY <3>1 DEF IInv, TypeOK
    <3>2. CASE rowLock' = [rowLock EXCEPT ![target[j]] = None]
      BY <1>4, <3>2 DEF IInv, TypeOK
    <3> QED
      BY <1>3, <3>1, <3>2
  <2>2. CASE rowLock'[d] = rowLock[d] /\ rowLock[d] # j
    <3>1. rowLock[d] \in Joins \ {j}
      BY <1>4, <2>2 DEF IInv, TypeOK
    <3> QED
      BY <1>1, <1>4, <2>2, <3>1 DEF LocksAreHeld, Holding
  <2>3. CASE rowLock'[d] = rowLock[d] /\ rowLock[d] = j
    <3>1. Holding(j) /\ target[j] = d
      BY <1>4, <2>3 DEF LocksAreHeld
    <3>2. Holding(j)' /\ UNCHANGED target
      BY <1>3, <1>4, <2>3, <3>1 DEF IInv, TypeOK
    <3> QED
      BY <2>3, <3>1, <3>2 DEF Holding
  <2>4. CASE rowLock'[d] = j /\ d = target[j] /\ Holding(j)' /\ UNCHANGED target
    BY <2>4 DEF Holding
  <2> QED
    BY <2>1, <2>2, <2>3, <2>4
<1> QED
  BY <1>2, <1>4 DEF LocksAreHeld

LEMMA LocksInvariance == Spec => [](IInv /\ LocksAreHeld)
<1>1. Init => IInv /\ LocksAreHeld
  BY InitIInv DEF Init, LocksAreHeld
<1>2. (IInv /\ LocksAreHeld) /\ [Next]_vars => (IInv /\ LocksAreHeld)'
  <2> SUFFICES ASSUME IInv, LocksAreHeld, [Next]_vars PROVE LocksAreHeld'
    BY NextIInv
  <2>1. ASSUME UNCHANGED <<pc, advisory, rowLock, target>> PROVE LocksAreHeld'
    BY <2>1 DEF LocksAreHeld, Holding
  <2>2. ASSUME NEW c \in Creations, MarkRoomEnded(c) \/ Age(c) PROVE LocksAreHeld'
    BY <2>1, <2>2 DEF MarkRoomEnded, Age, locks, local
  <2>3. ASSUME NEW j \in Joins, DeletePlayer(j) PROVE LocksAreHeld'
    BY <2>1, <2>3 DEF DeletePlayer, locks, local
  <2>4. CASE UNCHANGED vars
    BY <2>1, <2>4 DEF vars, locks, local
  <2> QED
    BY <2>2, <2>3, <2>4, CreationKeepsLocks, JoinKeepsLocks DEF Next
<1> QED
  BY <1>1, <1>2, PTL DEF Spec

\* Whoever waits for the advisory lock or for a room's row waits for a
\* transaction that can go on: transactions cannot wait for one another in a
\* circle, as none takes a second lock.
THEOREM NoneIsStuck == Spec => []NobodyIsStuck
<1>1. IInv /\ LocksAreHeld => NobodyIsStuck
  <2> SUFFICES ASSUME IInv, LocksAreHeld PROVE NobodyIsStuck
    OBVIOUS
  <2>1. ASSUME NEW c \in Creations, pc[c] # "returned"
        PROVE  CanCreate(c) \/ (advisory # None /\ CanCreate(advisory))
    <3>1. pc[c] \in {"begin", "lock", "count", "insert", "commit"}
      BY <2>1 DEF IInv, TypeOK, CreatePCs
    <3>2. advisory # None => CanCreate(advisory)
      BY DEF LocksAreHeld, CanCreate
    <3> QED
      BY <3>1, <3>2 DEF CanCreate
  <2>2. ASSUME NEW j \in Joins, pc[j] # "returned", ~CanJoin(j)
        PROVE  rowLock[target[j]] # None /\ CanJoin(rowLock[target[j]])
    <3>1. pc[j] = "open" /\ rowLock[target[j]] # None
      BY <2>2 DEF IInv, TypeOK, CanJoin, JoinPCs
    <3>2. target[j] \in Creations
      BY <3>1 DEF IInv, JoinsSound, JoinSound
    <3> QED
      BY <3>1, <3>2 DEF LocksAreHeld, Holding, CanJoin
  <2> QED
    BY <2>1, <2>2 DEF NobodyIsStuck
<1> QED
  BY <1>1, LocksInvariance, PTL

\* A creation takes at most 4 * PinAttempts + 1 steps and a join six: drawing
\* PINs comes to an end even if all of them are taken for ever.
THEOREM RequestsRunOut == Spec => StepsRunOut
<1>1. IInv /\ [Next]_vars =>
        [\A r \in Requests : Left(r)' = Left(r) \/ (pc'[r] # pc[r] /\ Left(r)' < Left(r))]_vars
  <2> SUFFICES ASSUME IInv, [Next]_vars, NEW r \in Requests
               PROVE  Left(r)' = Left(r) \/ (pc'[r] # pc[r] /\ Left(r)' < Left(r))
    OBVIOUS
  <2>1. CASE r \in Creations /\ (CreateStep(r) \/ CreateFails(r))
    <3>1. /\ tries[r] \in 0..PinAttempts /\ tries'[r] \in 0..PinAttempts /\ PinAttempts \in Nat
          /\ pc[r] \in CreatePCs
      BY <2>1, AdmissionAssumption, NextIInv DEF IInv, TypeOK
    <3>2. \/ pc[r] = "begin" /\ pc'[r] = "lock" /\ tries'[r] = tries[r] + 1
          \/ pc[r] = "lock" /\ pc'[r] = "count" /\ tries'[r] = tries[r]
          \/ pc[r] = "count" /\ pc'[r] = "insert" /\ tries'[r] = tries[r]
          \/ pc[r] = "insert" /\ pc'[r] \in {"begin", "commit"} /\ tries'[r] = tries[r]
          \/ pc[r] # "returned" /\ pc'[r] = "returned"
      BY <2>1 DEF CreateStep, BeginRoom, LockCreation, CountActiveRooms, InsertRoom, CommitRoom,
         CreateFails, Goto, ReturnRoom, Return, local, IInv, TypeOK
    <3>3. Left(r) = CASE pc[r] = "returned" -> 0
                      [] pc[r] \in {"begin", "commit"} -> 4 * (PinAttempts - tries[r]) + 1
                      [] pc[r] = "insert" -> 4 * (PinAttempts - tries[r]) + 2
                      [] pc[r] = "count" -> 4 * (PinAttempts - tries[r]) + 3
                      [] pc[r] = "lock" -> 4 * (PinAttempts - tries[r]) + 4
      BY <3>1 DEF Left, CreatePCs
    <3> QED
      BY <3>1, <3>2, <3>3 DEF Left, CreatePCs
  <2>2. CASE r \in Joins /\ (JoinStep(r) \/ JoinFails(r))
    <3>1. \/ pc[r] = "find" /\ pc'[r] = "open"
          \/ pc[r] = "open" /\ pc'[r] = "seats"
          \/ pc[r] = "seats" /\ pc'[r] = "enter"
          \/ pc[r] = "enter" /\ pc'[r] = "save"
          \/ pc[r] = "save" /\ pc'[r] = "add"
          \/ pc[r] # "returned" /\ pc'[r] = "returned"
      BY <2>2 DEF JoinStep, FindRoom, LockRoomForJoin, CountRoomPlayers, InsertPlayer, CommitPlayer,
         AddPlayer, JoinFails, Goto, ReturnSeat, Return, IInv, TypeOK
    <3>2. pc[r] \in JoinPCs
      BY <2>2 DEF IInv, TypeOK
    <3> QED
      BY <3>1, <3>2 DEF Left, JoinPCs
  <2>3. ASSUME pc'[r] = pc[r], r \in Creations => tries'[r] = tries[r]
        PROVE  Left(r)' = Left(r)
    BY <2>3 DEF Left, IInv, TypeOK, JoinPCs, Requests
  <2>4. ASSUME NEW c \in Creations, c # r, CreateStep(c) \/ CreateFails(c)
        PROVE  pc'[r] = pc[r] /\ (r \in Creations => tries'[r] = tries[r])
    BY <2>4 DEF CreateStep, BeginRoom, LockCreation, CountActiveRooms, InsertRoom, CommitRoom,
       CreateFails, Goto, ReturnRoom, Return, local, IInv, TypeOK
  <2>5. ASSUME NEW j \in Joins, j # r, JoinStep(j) \/ JoinFails(j)
        PROVE  pc'[r] = pc[r] /\ (r \in Creations => tries'[r] = tries[r])
    BY <2>5 DEF JoinStep, FindRoom, LockRoomForJoin, CountRoomPlayers, InsertPlayer, CommitPlayer,
       AddPlayer, JoinFails, Goto, ReturnSeat, Return, local, IInv, TypeOK
  <2>6. ASSUME pc' = pc, tries' = tries
        PROVE  Left(r)' = Left(r)
    BY <2>3, <2>6
  <2>7. CASE \E c \in Creations : CreateStep(c) \/ CreateFails(c)
    <3>1. PICK c \in Creations : CreateStep(c) \/ CreateFails(c)
      BY <2>7
    <3> QED
      BY <2>1, <2>3, <2>4, <3>1
  <2>8. CASE \E j \in Joins : JoinStep(j) \/ JoinFails(j)
    <3>1. PICK j \in Joins : JoinStep(j) \/ JoinFails(j)
      BY <2>8
    <3> QED
      BY <2>2, <2>3, <2>5, <3>1
  <2>9. CASE \E c \in Creations : MarkRoomEnded(c) \/ Age(c)
    BY <2>6, <2>9 DEF MarkRoomEnded, Age, local
  <2>10. CASE \E j \in Joins : DeletePlayer(j)
    BY <2>6, <2>10 DEF DeletePlayer, local
  <2>11. CASE UNCHANGED vars
    BY <2>6, <2>11 DEF vars, local
  <2> QED
    BY <2>7, <2>8, <2>9, <2>10, <2>11 DEF Next
<1> QED
  BY <1>1, Invariance, PTL DEF Spec, StepsRunOut

=============================================================================
