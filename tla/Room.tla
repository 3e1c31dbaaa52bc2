-------------------------------- MODULE Room --------------------------------
(***************************************************************************)
(* One game room: the goroutine of internal/game/room.go and play.go, the  *)
(* rows Postgres keeps for it (internal/store), and the HTTP join handler  *)
(* that feeds it.                                                          *)
(*                                                                         *)
(* The room goroutine runs one queued closure at a time, so every handler  *)
(* is one action. What can happen between two closures is another actor's  *)
(* step: a join committed by an HTTP handler, the clock, a crash of the    *)
(* process, a client that brings the room back from Postgres.              *)
(*                                                                         *)
(* A call to the store ends in one of three ways:                          *)
(*   "ok"    the transaction committed and the caller knows it;            *)
(*   "fail"  nothing was written and the caller gets an error;             *)
(*   "lost"  the transaction committed but the caller gets an error, as    *)
(*           when the 5 s of withStoreTimeout expire during the commit.    *)
(*                                                                         *)
(* Time advances in ticks. A served question has an age, which saturates   *)
(* one tick past its answer window; a session has the age of its           *)
(* started_at, which saturates at RoomDuration. No clock is unbounded.     *)
(*                                                                         *)
(* Registry.Get brings a room back from rows it reads without a lock and   *)
(* does not read again. Load is a Get nothing comes between; a handler     *)
(* of Loaders is overtaken: it reads the row, then the players, and spawns *)
(* the room from both any time later, whatever they have become.           *)
(*                                                                         *)
(* A handler that only rejects the command changes no state: it is a       *)
(* stuttering step and has no action here.                                 *)
(***************************************************************************)
EXTENDS Integers, Sums

CONSTANTS
  Players,       \* ids of room_players rows; a join creates a fresh one
  NumQuestions,  \* questions of the session, asked in order 1..NumQuestions
  Awards,        \* what Score may give a correct answer
  AnswerWindow,  \* ticks an answer is accepted: timer plus network tolerance
  RoomDuration,  \* ticks a session may last: MaxRoomDuration, 12 minutes
  Loaders,       \* handlers that are overtaken inside Registry.Get
  SaveOutcomes,  \* the outcomes SaveResult may have
  Outcomes       \* the outcomes every other call of the store may have

ASSUME RoomAssumption ==
  /\ NumQuestions \in Nat \ {0}
  /\ Awards \subseteq Nat \ {0}
  /\ AnswerWindow \in Nat
  /\ RoomDuration \in Nat \ {0}
  /\ SaveOutcomes \subseteq {"ok", "fail", "lost"}
  /\ Outcomes \subseteq {"ok", "fail", "lost"}

Questions == 1..NumQuestions
NoQuestion == 0
NoAnswer == -1
NoTimer == -1
NotStarted == -1

VARIABLES
  \* Postgres
  dbStatus,   \* rooms.status
  dbAge,      \* ticks since rooms.started_at, NotStarted when null
  rows,       \* ids of the room_players rows
  progress,   \* score, streak and current_index of each row
  answers,    \* answers.points by player and question, NoAnswer: no row
  fresh,      \* ids no row has used yet
  \* the process
  joining,    \* rows whose HTTP handler has not yet run room.AddPlayer
  get,        \* what each handler inside Get has read so far
  status,     \* Room.status, "off" when no goroutine serves the room
  members,    \* keys of Room.players
  mem,        \* score, streak and resolved of each playerState
  shown,      \* question of playerState.active, NoQuestion when nil
  age,        \* ticks since active.servedAt
  timer,      \* ticks left on Room.deadline, NoTimer when not armed
  \* what clients were told
  acked       \* points of the q.result sent for each player and question

db == <<dbStatus, dbAge, rows, progress, answers, fresh>>
room == <<status, members, mem, shown, age, timer>>
vars == <<db, joining, get, room, acked>>

ZeroProgress == [score |-> 0, streak |-> 0, resolved |-> 0]
NothingRecorded == [q \in Questions |-> NoAnswer]
Idle == [stage |-> "idle", status |-> "lobby", rows |-> {},
         progress |-> [p \in Players |-> ZeroProgress]]

Init ==
  /\ dbStatus = "lobby"
  /\ dbAge = NotStarted
  /\ rows = {}
  /\ progress = [p \in Players |-> ZeroProgress]
  /\ answers = [p \in Players |-> NothingRecorded]
  /\ fresh = Players
  /\ joining = {}
  /\ get = [g \in Loaders |-> Idle]
  /\ status = "off"
  /\ members = {}
  /\ mem = [p \in Players |-> ZeroProgress]
  /\ shown = [p \in Players |-> NoQuestion]
  /\ age = [p \in Players |-> 0]
  /\ timer = NoTimer
  /\ acked = [p \in Players |-> NothingRecorded]

-----------------------------------------------------------------------------
(* Time *)

Expired(p) == age[p] >= AnswerWindow   \* not clock().Before(deadline)
TooLate(p) == age[p] > AnswerWindow    \* clock().After(deadline)
SessionAges == dbAge # NotStarted /\ dbAge < RoomDuration

Tick ==
  /\ \/ SessionAges
     \/ \E p \in members : shown[p] # NoQuestion /\ ~TooLate(p)
  /\ dbAge' = IF SessionAges THEN dbAge + 1 ELSE dbAge
  /\ age' = [p \in Players |-> IF shown[p] # NoQuestion /\ ~TooLate(p)
                               THEN age[p] + 1 ELSE age[p]]
  /\ timer' = IF timer > 0 THEN timer - 1 ELSE timer
  /\ UNCHANGED <<dbStatus, rows, progress, answers, fresh, joining, get,
                 status, members, mem, shown, acked>>

-----------------------------------------------------------------------------
(* The end of a room goroutine: its memory is gone, the timer is stopped    *)
(* and the registry forgets it.                                             *)

Stop ==
  /\ status' = "off"
  /\ members' = {}
  /\ mem' = [p \in Players |-> ZeroProgress]
  /\ shown' = [p \in Players |-> NoQuestion]
  /\ age' = [p \in Players |-> 0]
  /\ timer' = NoTimer

\* The error of MarkRoomEnded is only logged: the goroutine ends regardless.
EndSession ==
  /\ \E e \in Outcomes : dbStatus' = IF e = "fail" THEN dbStatus ELSE "ended"
  /\ Stop

AllFinished(ps, now) ==
  ps # {} /\ \A p \in ps : now[p].resolved >= NumQuestions

-----------------------------------------------------------------------------
(* Recording the outcome of a question *)

AdvanceKeepingStreak(r, points) ==   \* mutant: a wrong answer keeps the streak
  [score |-> r.score + points, streak |-> r.streak + 1, resolved |-> r.resolved + 1]

\* SaveResult writes the totals the room computed from its own memory.
Advance(r, points) ==
  [score    |-> r.score + points,
   streak   |-> IF points > 0 THEN r.streak + 1 ELSE 0,
   resolved |-> r.resolved + 1]

CanSaveAgain(p) ==   \* mutant: ON CONFLICT DO UPDATE, when a timeout follows points
  p \in rows /\ (answers[p][shown[p]] = NoAnswer \/ (TooLate(p) /\ answers[p][shown[p]] > 0))

\* InsertAnswer inserts a row: the player exists and the answer does not.
CanSave(p) == p \in rows /\ answers[p][shown[p]] = NoAnswer

SaveResultInTwoSteps(p, points) ==   \* mutant: no transaction
  /\ answers' = [answers EXCEPT ![p][shown[p]] = points]
  /\ progress' \in {progress, [progress EXCEPT ![p] = Advance(mem[p], points)]}
  /\ UNCHANGED <<dbAge, rows, fresh>>

SaveResult(p, points) ==
  /\ answers' = [answers EXCEPT ![p][shown[p]] = points]
  /\ progress' = [progress EXCEPT ![p] = Advance(mem[p], points)]
  /\ UNCHANGED <<dbAge, rows, fresh>>

ResolveUnsaved(p, points) ==   \* mutant: q.result is sent before the save
  /\ acked' = [acked EXCEPT ![p][shown[p]] = points]
  /\ UNCHANGED <<db, joining, get, room>>

\* The result was saved but the room saw an error: memory stays as it was.
ResolveLost(p, points) ==
  /\ CanSave(p)
  /\ SaveResult(p, points)
  /\ UNCHANGED <<dbStatus, joining, get, room, acked>>

ShowOver(p, q) ==   \* mutant: a resolved question stays active
  IF q = NoQuestion THEN UNCHANGED <<shown, age>>
  ELSE shown' = [shown EXCEPT ![p] = q] /\ age' = [age EXCEPT ![p] = 0]

\* playerState.active becomes question q, NoQuestion for nil.
Show(p, q) ==
  /\ shown' = [shown EXCEPT ![p] = q]
  /\ age' = [age EXCEPT ![p] = 0]

\* next is the question served in the same handler, NoQuestion for none.
Resolve(p, points, announce, next) ==
  LET after == [mem EXCEPT ![p] = Advance(@, points)] IN
  /\ CanSave(p)
  /\ SaveResult(p, points)
  /\ acked' = IF announce THEN [acked EXCEPT ![p][shown[p]] = points]
                          ELSE acked
  /\ \/ /\ AllFinished(members, after)
        /\ EndSession
     \/ /\ ~AllFinished(members, after)
        /\ mem' = after
        /\ Show(p, next)
        /\ UNCHANGED <<dbStatus, status, members, timer>>
  /\ UNCHANGED <<joining, get>>

NextAfterLast(p) == mem[p].resolved + 2   \* mutant: no check for the last question

\* The question a player is on after one more is resolved.
NextAfter(p) ==
  IF mem[p].resolved + 1 < NumQuestions THEN mem[p].resolved + 2 ELSE NoQuestion

-----------------------------------------------------------------------------
(* Player commands *)

\* Its token comes after the join handler has handed the player to the room.
Playing(p) == status = "running" /\ p \in members /\ p \notin joining

\* q.next with no question on air.
ServeNext(p) ==
  /\ Playing(p)
  /\ shown[p] = NoQuestion
  /\ mem[p].resolved < NumQuestions
  /\ Show(p, mem[p].resolved + 1)
  /\ UNCHANGED <<db, joining, get, status, members, mem, timer, acked>>

\* q.next after the deadline: a timeout is recorded, then the next is served.
SettleThenServe(p, o) ==
  /\ Playing(p)
  /\ shown[p] # NoQuestion
  /\ Expired(p)
  /\ \/ o = "ok" /\ Resolve(p, 0, FALSE, NextAfter(p))
     \/ o = "lost" /\ ResolveLost(p, 0)

NextQuestion(p, o) == ServeNext(p) \/ SettleThenServe(p, o)

PointsForAnyTime(p, choice) ==   \* mutant: the deadline is not checked
  IF choice = "right" THEN Awards ELSE {0}

\* q.answer names an option that is right or wrong, or null.
PointsFor(p, choice) ==
  IF choice = "right" /\ ~TooLate(p) THEN Awards ELSE {0}

Answer(p, o) ==
  /\ Playing(p)
  /\ shown[p] # NoQuestion
  /\ \E choice \in {"right", "wrong", "none"} :
       \E points \in PointsFor(p, choice) :
         \/ o = "ok" /\ Resolve(p, points, TRUE, NoQuestion)
         \/ o = "lost" /\ ResolveLost(p, points)

\* A (re)connecting player: an expired question is settled, the rest resent.
AttachPlayer(p, o) ==
  /\ Playing(p)
  /\ shown[p] # NoQuestion
  /\ Expired(p)
  /\ \/ o = "ok" /\ Resolve(p, 0, FALSE, NoQuestion)
     \/ o = "lost" /\ ResolveLost(p, 0)

-----------------------------------------------------------------------------
(* Host commands and the room's own deadline *)

StartSession(o) ==
  /\ status = "lobby"
  /\ dbStatus = "lobby"
  /\ o # "fail"
  /\ dbStatus' = "running"
  /\ dbAge' = 0
  /\ \/ o = "ok" /\ status' = "running" /\ timer' = RoomDuration
     \/ o = "lost" /\ UNCHANGED <<status, timer>>
  /\ UNCHANGED <<rows, progress, answers, fresh, joining, get, members, mem,
                 shown, age, acked>>

HostEnds ==
  /\ status # "off"
  /\ EndSession
  /\ UNCHANGED <<dbAge, rows, progress, answers, fresh, joining, get, acked>>

DeadlineEnds ==
  /\ timer = 0
  /\ EndSession
  /\ UNCHANGED <<dbAge, rows, progress, answers, fresh, joining, get, acked>>

\* Deleting the row cascades to the player's answers.
DeletePlayer(p) ==
  /\ rows' = rows \ {p}
  /\ progress' = [progress EXCEPT ![p] = ZeroProgress]
  /\ answers' = [answers EXCEPT ![p] = NothingRecorded]
  /\ acked' = [acked EXCEPT ![p] = NothingRecorded]
  /\ UNCHANGED <<dbAge, fresh, joining, get>>

KickNeverEnds(p) == FALSE   \* mutant: kick does not call endIfAllFinished

\* endIfAllFinished, once the player is gone.
KickEnds(p) == status = "running" /\ AllFinished(members \ {p}, mem)

Kick(p, o) ==
  /\ status # "off"
  /\ p \in members
  /\ o # "fail"
  /\ DeletePlayer(p)
  /\ \/ /\ o = "lost"
        /\ UNCHANGED <<dbStatus, room>>
     \/ /\ o = "ok"
        /\ KickEnds(p)
        /\ EndSession
     \/ /\ o = "ok"
        /\ ~KickEnds(p)
        /\ members' = members \ {p}
        /\ mem' = [mem EXCEPT ![p] = ZeroProgress]
        /\ Show(p, NoQuestion)
        /\ UNCHANGED <<dbStatus, status, timer>>

-----------------------------------------------------------------------------
(* Joining: the HTTP handler commits the row, then hands it to the room *)

AlwaysOpen == TRUE   \* mutant: LockRoomForJoin does not look at the status

OpenForJoin == dbStatus # "ended"

JoinRoom(p, o) ==
  /\ p \in fresh
  /\ OpenForJoin
  /\ o # "fail"
  /\ fresh' = fresh \ {p}
  /\ rows' = rows \cup {p}
  /\ joining' = IF o = "ok" THEN joining \cup {p} ELSE joining
  /\ UNCHANGED <<dbStatus, dbAge, progress, answers, get, room, acked>>

\* addPlayer keeps an existing player and adds a new one with no progress.
AddPlayer(p) ==
  /\ p \in joining
  /\ status # "off"
  /\ joining' = joining \ {p}
  /\ members' = members \cup {p}
  /\ UNCHANGED <<db, get, status, mem, shown, age, timer, acked>>

\* The handler finds no room, because Get failed or the session is over, or
\* hands the player to a room that stops before it runs the closure.
JoinTooLate(p) ==
  /\ p \in joining
  /\ status = "off"
  /\ joining' = joining \ {p}
  /\ UNCHANGED <<db, get, room, acked>>

-----------------------------------------------------------------------------
(* Registry.Get and the process *)

RestoredNoStreak(seen) ==   \* mutant: the streak is not restored
  [p \in Players |-> [seen[p] EXCEPT !.streak = 0]]
RestoredTimerFull(st) ==   \* mutant: every restart grants 12 minutes
  IF st = "running" THEN RoomDuration ELSE NoTimer

\* What newRoom makes of the columns of the players and of started_at.
Restored(seen) == seen
RestoredTimer(st) == IF st = "running" THEN RoomDuration - dbAge ELSE NoTimer

\* newRoom: the room as its rows were seen, with no question on air.
Serve(st, known, seen) ==
  /\ status = "off"
  /\ status' = st
  /\ members' = known
  /\ mem' = Restored(seen)
  /\ timer' = RestoredTimer(st)
  /\ UNCHANGED <<db, joining, shown, age, acked>>

\* Get brings back rooms that are not over.
MayBeLoaded ==
  \/ dbStatus = "lobby"
  \/ dbStatus = "running" /\ dbAge < RoomDuration

\* A Get that nothing comes between.
Load ==
  /\ MayBeLoaded
  /\ Serve(dbStatus, rows, progress)
  /\ UNCHANGED get

\* A Get that is overtaken: RoomByID, after a lookup that found no room.
ReadRoom(g) ==
  /\ get[g].stage = "idle"
  /\ MayBeLoaded
  /\ get' = [get EXCEPT ![g].stage = "room", ![g].status = dbStatus]
  /\ UNCHANGED <<db, joining, room, acked>>

\* PlayersOfRoom.
ReadPlayers(g) ==
  /\ get[g].stage = "room"
  /\ get' = [get EXCEPT ![g].stage = "players", ![g].rows = rows,
                        ![g].progress = progress]
  /\ UNCHANGED <<db, joining, room, acked>>

\* spawn, if there is still no room when it looks again under the lock.
Spawn(g) ==
  /\ get[g].stage = "players"
  /\ Serve(get[g].status, get[g].rows, get[g].progress)
  /\ get' = [get EXCEPT ![g] = Idle]

\* Get fails, or spawn finds a room: what was read is dropped.
GiveUp(g) ==
  /\ get[g].stage # "idle"
  /\ get' = [get EXCEPT ![g] = Idle]
  /\ UNCHANGED <<db, joining, room, acked>>

LoadExpiredUnrecorded(o) ==   \* mutant: MarkRoomEnded is not called
  /\ status = "off"
  /\ dbStatus = "running"
  /\ dbAge = RoomDuration
  /\ UNCHANGED vars

\* A running room past its 12 minutes is ended instead of loaded; by a handler
\* that was overtaken, even if a goroutine serves the room by now.
LoadExpired(o) ==
  /\ status = "off" \/ Loaders # {}
  /\ dbStatus = "running"
  /\ dbAge = RoomDuration
  /\ o # "fail"
  /\ dbStatus' = "ended"
  /\ UNCHANGED <<dbAge, rows, progress, answers, fresh, joining, get, room, acked>>

\* The process stops: room goroutine and HTTP handlers are gone.
Crash ==
  /\ status # "off" \/ joining # {} \/ \E g \in Loaders : get[g] # Idle
  /\ joining' = {}
  /\ get' = [g \in Loaders |-> Idle]
  /\ Stop
  /\ UNCHANGED <<db, acked>>

-----------------------------------------------------------------------------
Next ==
  \/ Tick
  \/ \E p \in Players, o \in SaveOutcomes :
       NextQuestion(p, o) \/ Answer(p, o) \/ AttachPlayer(p, o)
  \/ \E p \in Players, o \in Outcomes : Kick(p, o) \/ JoinRoom(p, o)
  \/ \E p \in Players : AddPlayer(p) \/ JoinTooLate(p)
  \/ \E o \in Outcomes : StartSession(o) \/ LoadExpired(o)
  \/ HostEnds
  \/ DeadlineEnds
  \/ Load
  \/ \E g \in Loaders : ReadRoom(g) \/ ReadPlayers(g) \/ Spawn(g) \/ GiveUp(g)
  \/ Crash

Spec == Init /\ [][Next]_vars

\* Time passes and the timer goroutine runs; some client keeps reaching for
\* the room while no goroutine serves it, and Postgres lets it end an expired
\* one. No command of a player or of the host is ever owed.
Fairness ==
  /\ WF_vars(Tick)
  /\ WF_vars(DeadlineEnds)
  /\ WF_vars(Load)
  /\ WF_vars(status = "off" /\ LoadExpired("ok"))

FairSpec == Spec /\ Fairness

-----------------------------------------------------------------------------
(* Types *)

Progress == [score : Nat, streak : Nat, resolved : Nat]
Recorded == [Questions -> Awards \cup {0, NoAnswer}]
Reading == [stage : {"idle", "room", "players"}, status : {"lobby", "running"},
            rows : SUBSET Players, progress : [Players -> Progress]]

\* Every variable has its type: the columns of the tables, the fields of Room
\* and playerState, and what clients were told.
TypeOK ==
  /\ dbStatus \in {"lobby", "running", "ended"}
  /\ dbAge \in 0..RoomDuration \cup {NotStarted}
  /\ rows \subseteq Players
  /\ progress \in [Players -> Progress]
  /\ answers \in [Players -> Recorded]
  /\ fresh \subseteq Players
  /\ joining \subseteq Players
  /\ get \in [Loaders -> Reading]
  /\ status \in {"off", "lobby", "running"}
  /\ members \subseteq Players
  /\ mem \in [Players -> Progress]
  /\ shown \in [Players -> Questions \cup {NoQuestion}]
  /\ age \in [Players -> 0..(AnswerWindow + 1)]
  /\ timer \in 0..RoomDuration \cup {NoTimer}
  /\ acked \in [Players -> Recorded]

-----------------------------------------------------------------------------
(* Safety, whatever the store does *)

\* Postgres holds an answer for exactly the first current_index questions of a
\* player: no question is skipped, answered ahead or answered twice, even when
\* a result is saved behind the room's back or the room is rebuilt mid-quiz.
AnswersInOrder ==
  \A p \in Players :
    /\ progress[p].resolved <= NumQuestions
    /\ \A q \in Questions :
         answers[p][q] # NoAnswer <=> q <= progress[p].resolved

StreakOf(a, n) ==
  LET upTo[k \in 0..n] ==
        IF k = 0 \/ a[k] = 0 THEN 0 ELSE upTo[k - 1] + 1
  IN upTo[n]

AddsUp(r, a) ==
  /\ r.score = SumOf(a, r.resolved)
  /\ r.streak = StreakOf(a, r.resolved)

\* The score and streak columns, written from totals the room keeps in memory,
\* equal what the answers table adds up to: the sum of the points and the
\* number of correct answers at the end.
TotalsMatchAnswers == \A p \in Players : AddsUp(progress[p], answers[p])

IsPast(r, p) == r.resolved <= progress[p].resolved /\ AddsUp(r, answers[p])

\* What the room remembers of a player is what the row once was: the totals of
\* the first so many of its answers. A lost reply leaves memory one answer
\* behind, a room spawned from rows read long ago any number of them; nothing
\* puts it ahead of Postgres or makes up progress that never was.
MemoryIsThePast == \A p \in members \cap rows : IsPast(mem[p], p)

\* A q.result a player has been sent is in Postgres with the same points, and
\* stays there through timeouts of the store, crashes and reloads.
AcknowledgedIsDurable ==
  \A p \in Players, q \in Questions :
    acked[p][q] # NoAnswer => answers[p][q] = acked[p][q]

\* A room that runs in memory was started in Postgres, and its timer fires
\* exactly 12 minutes after started_at: no restart, and no rows read earlier,
\* give a session more time.
TimerTracksSession ==
  /\ status = "running" => dbAge # NotStarted /\ timer = RoomDuration - dbAge
  /\ status # "running" => timer = NoTimer

\* The first answer is kept: once recorded, the points of a question never
\* change while the player's row exists.
AnswersAreFinal ==
  [][\A p \in rows \cap rows', q \in Questions :
       answers[p][q] # NoAnswer => answers'[p][q] = answers[p][q]]_vars

\* Points are only given once the session was started, by a room that runs it,
\* to the question on air and no later than its deadline. The row may say it is
\* over: SaveResult does not look.
PointsOnlyInTime ==
  [][\A p \in Players, q \in Questions :
       answers[p][q] = NoAnswer /\ answers'[p][q] > 0 =>
         /\ dbStatus # "lobby" /\ status = "running"
         /\ shown[p] = q
         /\ age[p] <= AnswerWindow]_vars

\* No handler leaves a running room behind whose players have all finished,
\* whether the last one answered, timed out, reconnected or was kicked.
HandlersEndFinishedRoom ==
  [][status # "off" /\ status' = "running" /\ AllFinished(members', mem') =>
       AllFinished(members, mem)]_vars

\* The room implements the abstract session, whatever the store does and
\* however often the process stops.
Session == INSTANCE QuizSession WITH
  phase <- dbStatus, unused <- fresh, roster <- rows, sheet <- answers,
  results <- acked

ImplementsSession == Session!Spec

-----------------------------------------------------------------------------
(* Safety under some of the store outcomes *)

\* The question on air can still be recorded, so a retry after INTERNAL or a
\* q.next after the deadline moves the player on. Not so after a lost reply,
\* nor in a room spawned from rows that have moved on.
QuestionOnAirIsOpen ==
  \A p \in members \cap rows :
    shown[p] # NoQuestion => answers[p][shown[p]] = NoAnswer

\* Everyone the room counts as a player has a row: a kicked player is out.
\* Not so if a kick overtakes the join handler's AddPlayer.
KickedPlayerIsOut == members \subseteq rows

-----------------------------------------------------------------------------
(* Liveness, under FairSpec *)

\* A session that its room runs is eventually recorded as ended, whatever the
\* store answers and whenever the process stops, unless a room spawned from a
\* row read before the start sits in the lobby in its place. A session whose
\* start lost its reply is left out: its room is still in the lobby.
SessionEnds == (status = "running") ~> (dbStatus = "ended" \/ status = "lobby")

=============================================================================
