# Verification of the Jejak Indera Sakti game server

A TLA+ development kept beside the Go server in `src/api`. It models the part of the server that
decides what a player's score is, who is in which room and what reaches whose screen, checks it with
TLC on small instances, and proves most of the safety properties with TLAPS for every value of the
constants.

- [1. The system](#1-the-system): components, state, interactions, what makes them correct
- [2. The modules](#2-the-modules): what models what
- [3. The runs](#3-the-runs): what is checked, on which bounds
- [4. Fairness](#4-fairness)
- [5. What is proved](#5-what-is-proved)
- [6. Disagreements between code and documents](#6-disagreements-between-code-and-documents)
- [7. What is not modelled](#7-what-is-not-modelled)
- [8. How it was built, and what could follow](#8-how-it-was-built-and-what-could-follow)

Run `tlc -config X.cfg M` on a line of the table in section 3, and `tlapm M.tla` on the proof modules.

## 1. The system

A host creates a quiz room and starts it; up to 15 pupils join with a PIN, answer 10 or 15 questions
at their own pace over a WebSocket, and see rankings. Everything permanent is in Postgres. Each live
room is one goroutine that owns its memory and takes closures from a bounded queue (ADR-003).
Redis keeps only rankings and rate-limit counters and may lose them at any time.

| Component | State | Operations | Talks to |
|---|---|---|---|
| Room goroutine (`game/room.go`) | status, players in join order, deadline timer, sinks | start, end, kick, add a player, attach, detach, stop; rebuilt from rows by `newRoom` | store (synchronously, 5 s limit), registry (`onStop`), sinks |
| Quiz play (`game/play.go`) | per player: score, streak, correct, time, questions resolved, the question on air | `q.next`, `q.answer`, settling an expired question, saving a result, ending when all have finished | gameplay store, rankings, sinks |
| Gameplay store (`store/gameplay.go`) | `answers`, the totals in `room_players` | `SaveResult`: one transaction | Postgres |
| Registry and room queue (`game/registry.go`, `game/room.go`) | map from id to live room, its lock, `Room.events`, `Room.done` | `Get` (lookup, read, spawn), `AddPlayer`, `forget`; `run`, `call`, `loop` | store, rooms, HTTP and WebSocket handlers |
| Room and player store (`store/store.go`) | `rooms`, `room_players` | create a room, join, start, end, delete a player | Postgres |
| Rankings (`game/play.go`, `leaderboard/redis.go`) | `lbDirty`, `lbWaiting`, `lbTimer`, `lbLast`; a sorted set in Redis | mark dirty, send, save, forget, order, restore | Redis, sinks |
| Ranking order (`rank/rank.go`, `results.sql`) | none | key of a standing, stable sort | |
| Scoring (`game/scoring.go`), selection (`game/selector.go`) | none | points of an answer; questions of a session | |
| WebSocket client and handler (`ws/`) | send buffer, closed flag | two pumps, dispatch, attach | room, registry |
| HTTP handlers (`http/`) | none | create and look up rooms, join, results | store, registry, limiter |
| Rate limiter (`ratelimit/`) | counter in Redis, counter in memory | `Allow` | Redis |
| Others | | tokens, configuration, seed data, commands, generated queries | |

What is hard, and what correctness means there:

- **A store call has three outcomes.** It succeeds, it fails, or it commits and the caller sees an
  error. The room keeps totals in memory and writes them with each answer, so memory may be behind the
  rows but must be what they once were. A result shown to a player must be on record for good.
- **The process may stop between any two steps.** Rooms are rebuilt from rows: no progress may be
  lost or invented, and no restart may give a session more than its 12 minutes.
- **Handlers of other goroutines** commit joins, read rows and spawn rooms while the room runs.
  `Registry.Get` reads the row and the players without a lock and spawns later without reading again,
  so a room may be built from rows that have moved on, or of a session that is over. One goroutine may
  serve a room; a player whose join succeeded must be known to it; what is on record must survive.
- **Stopping**: a room ends itself from inside a closure while callers wait to send, wait for a
  reply, or hold a pointer to it. Nobody may wait for ever, and nobody who was let in may be told
  otherwise.
- **Deadlines**: an answer and the timeout of the same question meet at the deadline, where `After`
  and `Before` overlap. Exactly one may count.
- **The throttle** of rankings overlaps with its own timer and queued closure, and its order comes
  from a set that may be gone, old, or contain a kicked player.
- **Joins and creations run at the same time.** Caps, nicknames and PINs are decided by a count or a
  look-up in one statement and an insert in the next; only the locks of the transactions hold them
  together. A request may take effect and be answered with an error.
- **Connections** are replaced, kicked, too slow, or gone without a word, while two goroutines wait on
  each of them. What is written must be what was sent, and nothing may be left behind.
- **The limiter counts in two places**, whenever Redis comes and goes.
- **Number folding**: three ranking criteria are folded into one float64.

`PROJECT.json` lists each hazard at its line, with the properties that would catch it.

## 2. The modules

| Module | Models | Kind |
|---|---|---|
| `QuizSession` | what a session promises, from its permanent record and what players were told | abstract specification |
| `Room` | one room: goroutine, rows, join handlers, clock, stop and reload | refines `QuizSession` |
| `MCRoom` | instance of `Room` with symmetric players | for TLC |
| `RoomProofs` | invariance and refinement of `Room` | proofs |
| `Registry` | one room id: handlers, lock, queue, goroutine life, server stop, step by step | more detailed view of loading and stopping |
| `RegistryProofs` | invariance of `Registry`, and that it cannot deadlock | proofs |
| `Rank` | key, order, stable sort | operators |
| `Leaderboard` | throttle, timer, sorted set | extends `Rank` |
| `LeaderboardProofs` | the key stands for the order; the throttle; what clients are shown is current and ranked | proofs |
| `Sums` | a sum of the first numbers of a function | operator |
| `SumsProofs` | induction on a set, recursive sums and tallies, their bounds | proofs |
| `Composition` | the table of levels of `selector.go` | constants |
| `Selector` | `SelectQuestions` | extends `Composition` |
| `Scoring` | the points of an answer, the totals of a player's session, over a selection | extends `Selector` |
| `ScoringProofs` | the selection, the points of an answer, the totals of a session and their key | proofs |
| `RoomBook` | what the HTTP API promises about rooms and seats: one step per request | abstract specification |
| `Admission` | creating and joining rooms, statement by statement | refines `RoomBook` |
| `MCAdmission` | instance of `Admission` with two joins of one nickname | for TLC |
| `AdmissionProofs` | types, caps and refinement of `Admission`; no deadlock, and a bound on the steps of a request | proofs |
| `Client` | the connections of one player: pumps, buffers, the seat in the room | |
| `ClientProofs` | invariance of `Client` | proofs |
| `RateLimiter` | `Limiter.Allow`, its two counters | |
| `RateLimiterProofs` | invariance of `RateLimiter` | proofs |

The modules meet at what is named in the source: `Room` has the effect of a closure, `Registry` the queue
that brings it there, `Admission` the transaction that comes before `Room!JoinRoom`, `Client` what
becomes of a message a closure sends, `Scoring` the points that are `Awards` in `Room`, `Leaderboard` the
rankings that follow a result.

### Room

One closure of the room's goroutine is one action, because closures run one at a time. Between two of
them anything else may happen: `Tick`, `JoinRoom` (an HTTP handler commits a row), `AddPlayer` (its
closure arrives), `JoinTooLate`, `Load` and `LoadExpired` (some client makes the registry bring the
room back), `Crash`. A handler that only rejects a command changes no state and is a stuttering step.

`Load` is a `Get` that nothing comes between. A handler of `Loaders` is overtaken: `ReadRoom`,
`ReadPlayers` and `Spawn` are steps of their own, and between them other handlers may serve the room,
answer, end it and stop. What it spawns from is what it read, however old; `GiveUp` is a `Get` that fails
or finds a room when it looks again under the lock. Where the code itself goes wrong from there, section 6
says so and the properties claim no more: a stale room may serve and record after the end, may offer
questions that are answered, and may sit in a lobby the session has left.

| TLA+ | Go |
|---|---|
| `dbStatus`, `dbAge`, `rows`, `progress`, `answers` | `rooms.status`, time since `started_at`, `room_players`, its totals, `answers.points` |
| `status`, `members`, `mem` | `Room.status` (`"off"`: no goroutine), keys of `Room.players`, `playerState` totals |
| `shown`, `age` | `playerState.active`, time since `servedAt` |
| `timer` | `Room.deadline` |
| `joining` | join handlers between their commit and their `AddPlayer` |
| `get` | what each overtaken handler inside `Registry.Get` has read |
| `acked` | `q.result` sent |
| `NextQuestion`, `Answer`, `AttachPlayer` | the closures of the same name, with `settleExpired`, `resolve`, `SaveResult`, `endIfAllFinished` inside |
| `StartSession`, `HostEnds`, `DeadlineEnds`, `Kick` | `startSession`, `endSession` (from the host, from the timer), `kick` |

`Expired` is `!Before(deadline)` and `TooLate` is `After(deadline)`: at one instant both an answer and
a timeout are possible, as in the code. `correct` and `total_ms` move with `score` in the code and are
left to `Leaderboard`; points are any of `Awards`.

### Registry

Here the atomic steps of `Room` are taken apart: `Lookup`, the two reads of `Get`, `Spawn` under the
lock, `Restore` (the closure `newRoom` queues before the lock is released), a send on the queue, the
wait of `call`, and the deferred calls of `loop` (`Forget`, `CloseDone`) are separate steps of
separate goroutines. Of a closure it keeps what it replies and whether it ends the room. A room value
is named by the handler that spawned it, as a handler calls `Get` once. A call of the store may fail, with
its update committed or not (`StoreMayFail`): `EndSession` then stops the goroutine with the row still
running, `RunStart` leaves the room in its lobby, `EndExpired` answers with an error.

| TLA+ | Go |
|---|---|
| `mu`, `registered`, `ctxDone` | `Registry.mu`, `Registry.rooms[id]`, `Registry.ctx` |
| `pc`, `seen`, `ref`, `reply`, `result` | where a handler is, what it read, its `*Room`, the reply channel, how it was answered |
| `life` | `Room.loop`: serving, leaving (deferred calls pending), forgotten, `done` closed |
| `members`, `events`, `armed` | `Room.players`, `Room.events`, the deadline timer |

### Rank and Leaderboard

`Better` is the order of `GetRoomLeaderboard`; `Key` is `Standing.Key`. In `Leaderboard` each Redis
call may succeed, fail, or be carried out with an error; `RedisForgets` is an expired or restarted
Redis. A handler passes on the players, standings and set as it left them, so that
`markLeaderboardDirty` is one operator used by `Resolve` and `Kick`. Time is counted up to one
interval.

### Selector and Scoring

`Selector` takes one question per step, as the two loops do. Which question of a bucket comes first is
the shuffle's choice and no property tells them apart, so a question is named by its bucket and its
place after the shuffle. `Demand` says by arithmetic what each level needs, as a reference.

`Scoring` lets a player play what `Selector` kept, with the real constants and milliseconds. The result
of `math.Round` is computed exactly; at a tie, where the float may fall on either side, both results are
possible (`Rounded`). Where `Room` treats points as any of `Awards`, `Scoring` says which they are, and
where `Leaderboard` needs bounds on standings, it gives them.

### Admission and RoomBook

A statement of a transaction is one action and sees what was committed before it (READ COMMITTED). A row
that is not committed is not in the tables: that a creation has inserted its row shows in `pc = "commit"`
and `drawn`. An error of a statement, a client that goes away and a stop of the process are all a
rollback (`CreateFails`, `JoinFails`); a COMMIT whose reply is lost leaves its row and answers with an
error.

| TLA+ | Go and SQL |
|---|---|
| `status`, `pin` | `rooms.status` with the age of `created_at` (`"old"`: over two hours), `rooms.pin` |
| `seat`, `kicked` | `room_players`, the deleted rows |
| `advisory`, `rowLock` | `pg_advisory_xact_lock(4201)`, `SELECT ... FOR UPDATE` of `LockRoomForJoin` |
| `BeginRoom`, `LockCreation`, `CountActiveRooms`, `InsertRoom`, `CommitRoom` | `CreateRoom` and `insertRoom`; `old` is `NOW() - 2 hours` of its transaction |
| `FindRoom`, `LockRoomForJoin`, `CountRoomPlayers`, `InsertPlayer`, `CommitPlayer`, `AddPlayer` | `joinRoom`, `JoinRoom`, `insertPlayer`, `Rooms.AddPlayer` |
| `MarkRoomEnded`, `DeletePlayer`, `Age` | what rooms and time do to the rows meanwhile |

`RoomBook` has the same tables and answers and nothing else: `Create` and `Enter` change the tables and
may answer with an error, `Reply` answers a player who has a seat, `RefuseRoom` and `RefuseSeat` answer
the others, with a reason that is true when it is given. The refinement is the identity on these.

### Client

Between two closures of the room and two steps of the pumps anything may happen; `Client.mu` makes `Send`
and `Close` one step each. Messages are numbered as they are sent to a connection, so that order and gaps
can be seen; of their contents only `room.ended` is told apart.

| TLA+ | Go |
|---|---|
| `seat` | `playerState.sink` |
| `client` | `Client.closed`, `Client.send`; `said` and `ended` count what it was sent |
| `handler` | where `ServeHTTP` is |
| `writer`, `inflight`, `reader` | `writePump` and the message it writes, `readPump` |
| `open`, `peer` | the connection: closed by the server; read, or gone for longer than `writeWait` and `pongWait` |
| `AttachPlayer`, `Detach`, `Say`, `Kick`, `EndSession`, `Shutdown` | what `room.go` does to sinks |

A frame above the read limit (`FrameTooLong`) ends the reader as a failed read does, but no player has to
send one. The host's sink is handled by the same lines, with one seat and no kick.

### RateLimiter

A call either counts in Redis and is decided there, or falls back to memory; a lost reply has counted in
both. `counted`, `allowed` and `lost` are not in the code: they are the history of the last window that the
properties speak of. A restart of Redis or of the server takes a counter's values, never anything off this
history: attempts let through before it count against the bound after it, and `lost` says how many losses
there were.

## 3. The runs

| Run | Module, configuration | Shows |
|---|---|---|
| `room_faults` | `MCRoom`, `MCRoomFaults.cfg` | with every outcome of every store call, a stop at any point and a room spawned from rows of any age: answers in order (`AnswersInOrder`), totals equal to the answers (`TotalsMatchAnswers`), memory never ahead of the rows, only behind (`MemoryIsThePast`), results that last (`AcknowledgedIsDurable`, `AnswersAreFinal`), an exact session timer (`TimerTracksSession`), points only in time and from a room that runs (`PointsOnlyInTime`), no finished room left running by a handler (`HandlersEndFinishedRoom`), the refinement `ImplementsSession`, and under fairness that a session that runs is eventually recorded as ended, unless a stale lobby takes its place (`SessionEnds`) |
| `room_stuck` | `MCRoom`, `MCRoomStuck.cfg` | violation: a lost reply of `SaveResult` leaves the question on air unanswerable |
| `room_kick_race` | `MCRoom`, `MCRoomKick.cfg` | violation: a kick that overtakes the join handler is undone in memory |
| `registry_safety` | `Registry`, `Registry.cfg` | one goroutine per room, no closed room handed out twice, no attach carried out and reported as refused, no joined player forgotten before the session was ended; also when the store fails |
| `registry_liveness` | `Registry`, `RegistryLive.cfg` | every request returns, every stopping room is forgotten and closed |
| `registry_after_end` | `Registry`, `RegistryAfterEnd.cfg` | violation: a handler spawns an ended room from a row it read earlier |
| `leaderboard` | `Leaderboard`, `Leaderboard.cfg` | one update per interval, no change forgotten, standings and order as they are |
| `leaderboard_stale` | `Leaderboard`, `LeaderboardStale.cfg` | violation: after a failed save Redis gives an old order |
| `scoring` | `Scoring`, `Scoring.cfg` | a selection follows the composition without repetition, or a bucket is short; a later answer never earns more; correct exactly if it earns; totals fit columns and key |
| `admission` | `MCAdmission`, `MCAdmission.cfg` | the caps hold, the transactions implement `RoomBook`, and every request is answered: no lock outlives its transaction |
| `client` | `Client`, `Client.cfg` | the room knows every open connection, messages are written in order and without a gap, a closed or deserted connection leaves nothing behind, `room.ended` is not cut off by the close that follows it |
| `limiter` | `RateLimiter`, `RateLimiter.cfg` | nobody is refused who has not tried as often in the last window; fewer than two windows' worth get through a counter in one window, as its windows are fixed, and one more for each loss of the counter in that window |

Deadlock checking is on for `limiter`, which never stops, and off in the others: a session ends, handlers
return, a selection is played, connections go, and then nothing is left to do.

**Bounds, and why they suffice.**

- `Room`: two players and two questions. Whatever relates players (ending when all have finished,
  kicking the last one, one finished and one not) needs two; whatever relates questions (order, streak,
  last question) needs two. One award beside the 0 of a wrong or late answer tells points apart, also in
  sums; the theorems hold for any set of awards. `AnswerWindow = 1` gives an answer
  before, at and after the deadline; `RoomDuration = 2` lets a question expire within a session and the
  session itself, and lets a session expire between two loads or while a handler is inside `Get`. One
  handler (`Loaders`) may be overtaken, as often as it likes; two of them differ in nothing but what they
  have read, and only one can spawn. `FewAnswersInGet` is a constraint: while that handler is inside `Get`
  the players have at most two answers between them, so that it may fall behind by two answers of one
  player or one of each, among them those with which a player alone in the room finishes and the room ends; the
  other answers come after it has left. States
  beyond it are not explored, for safety as for `SessionEnds`; outside of `Get` there is no such limit, and
  the theorems of section 5 have no bound at all. Liveness is checked
  on the same instance, so the run uses no symmetry; the two violation runs do, and have no overtaken
  handler, which their finding does not need. An id is used by one row, as UUIDs are, so two ids also
  bound the joins. The clocks saturate and nothing else grows.
- `Registry`: one join, one attach of a player, one host command, which is one of every kind of
  closure; three handlers are enough for two that load at once while a third uses the room. `Buffer =
  2` is the smallest the assumption allows (64 in the code): `newRoom` queues one closure itself with
  the lock held, and the deadline may queue another. With two slots the queue does fill up. Nothing reads
  the players of a room that has left its loop, so the model forgets them; this saves most of the states.
- `Leaderboard`: two players, scores to 2, one unit of time, an interval of two ticks. `ScoreUnit = 6`,
  `CorrectUnit = 2` and `MaxCorrect = 2` leave each place just wide enough, so that an overflowing place
  shows.
- `Scoring`: all three jenjangs and both lengths. A site asks for at most two questions of a level, so
  buckets of zero, one and two questions are all that can matter (`Plenty = 2`); two of the 15 buckets
  may be short at once (`MaxShort = 2`), at different sites or at the same one. A player is brought back
  after any number of the questions, all of them answered at once (the highest score) or all timed out
  (the longest time), and takes one more (`MoreQuestions = 1`) with a look at the clock every 10 ms, at
  the deadline and a millisecond after it. Every level and every streak from 0 to 14 meets every such
  time.
- `Admission`: two creations under a cap of one, so that both count at once, and three joins of a room
  with two seats, two of them under one nickname, so that the last seat and the name are both raced for.
  Two PINs and two attempts make a PIN of an ended room come up again, and the attempts run out. All
  joins name the PIN `"p1"`: it belongs to no room, to an open one or to an ended one, and joins of two
  rooms have nothing in common but the nickname and the answers.
- `Client`: two connections are a replaced one and its successor; the theorems need no such bound.
  A buffer of two (32 in the code) is full, half full and empty; with
  two messages (`MaxSaid`) and those of the room's own steps it overflows. The messages of `AttachPlayer`, `Kick` and `EndSession` are not
  limited by `MaxSaid`: each happens once per connection.
- `RateLimiter`: a limit of two and a window of two ticks, so that attempts fall on both sides of a
  window's end and three of them, more than the limit, get through within one; two keys over a threshold of
  one, so that memory is pruned; five attempts of all keys and counters per window (`MaxAttempts`), enough for
  a counter to let five through with a loss in between; one loss per counter and window (`MaxLosses`). The bound is
  tight: with one attempt less in it TLC finds it violated.

## 4. Fairness

- `Room!FairSpec`: time passes; the deadline's closure runs when it is due; *some client keeps reaching
  for the room*, so that a room that is off is loaded, or ended if it is overdue, and the store
  lets it do so eventually. No player or host owes anything. The third assumption is about the environment and is
  needed: after a restart only `Registry.Get` ends an overdue session. `SessionEnds` speaks of a room
  that runs: one whose start lost its reply is left out, as section 6 tells. Nothing is asked of an overtaken
  handler. If it spawns a room from a row read before the start, that room is in its lobby while Postgres
  runs the session, and no timer is armed; `SessionEnds` therefore allows `status = "lobby"` besides the
  end.
- `Registry!FairSpec`: every goroutine that can run eventually does, handlers and rooms alike. The Go
  scheduler gives that; `mu` is a `sync.Mutex`, which is starvation-free.
- `Admission!FairSpec`: a request goes on while it can. For a request that waits for a lock this asks that
  Postgres grants a lock that stays free, not that it is fair between those who wait: each request takes
  a lock finitely often. Failures are not assumed to happen.
- `Client!FairSpec`: the handler, the writer and the reader of a connection go on. Waiting on a peer that
  is gone ends by `writeWait` and `pongWait`. The room owes nothing: it need not say anything or end.
- `Leaderboard!FairSpec`: time passes, a timer that is due queues its closure and the loop takes it.

## 5. What is proved

All proofs are checked by TLAPS to the last leaf, from the named assumptions on the constants alone
(`RoomAssumption`, `RegistryAssumption`, `RankAssumption`, `LeaderboardAssumption`,
`AdmissionAssumption`, `ClientAssumption`, `SelectorAssumption`, `ScoringAssumption`,
`RateLimiterAssumption`).

**Sums** (`SumsProofs`). Totals, the time of a session and the attempts in a window are all sums of a
recursive function. Induction is the library's least element of a nonempty set of naturals
(`NatLessThanWellFounded`, `WFMin`), used on a set in place of a predicate (`Induction`); the library's own
induction rules take an operator and cannot be used. From it, a function defined by recursion on `0..n`
exists and is unique (`TallyExists`, `TalliesAgree`), so that `SumOf(f, n + 1)` is `SumOf(f, n) + f[n + 1]`
(`SumOfNext`), and then sums grow, shift, compare and have bounds (`SumGrows`, `SumOfShifted`,
`SumsCompare`, `SumIsBounded`). A tally may start again at some places: with the places of wrong answers it
is the streak.

**Room** (`RoomProofs`). `IInv` is inductive. It consists of the checked properties `TypeOK`,
`AnswersInOrder`, `TotalsMatchAnswers`, `MemoryIsThePast`, `AcknowledgedIsDurable`, `TimerTracksSession`
and of five facts they lean on: a question on air is the one after those resolved, in a running room
(`OnAirIsNext`); what has no row has no record and what is no member has no memory (`AbsentIsBlank`);
`started_at` is written with the status (`StartIsDated`); what an overtaken handler has read was once so
(`ReadIsPast`), which is what makes a room spawned from it safe; an id is used once (`FreshIsUnused`). A
late `AddPlayer` is harmless because it puts zero totals in memory, and those of no answers are always
the past of a row. The key is that a result is saved for the question after those in memory: if memory
is behind the rows, that question is answered and the save a duplicate; if it is not, the question is the
next on record. From `IInv` follow the theorems `TypeCorrect`,
`AnsweredInOrder`, `TotalsAreExact`, `MemoryIsPast`, `AcknowledgedSurvives`, `TimerIsExact`, the action properties
`FirstAnswerIsKept` and `PointsAreInTime`, and `Implementation`: every behaviour of `Room` is one of
`QuizSession`. `TotalsAreExact` and `MemoryIsPast` rest on the recursion of sums: the totals on record are
the sum of the recorded points and the streak their tally since the last wrong answer, because a save adds
one answer after those there and never changes an earlier one; the totals in memory are those of an earlier
moment, and stay so. `FinishedRoomsEnd` is `HandlersEndFinishedRoom`: a handler that lets the
last unfinished player finish, or kicks that player, ends the room in the same step.
Three theorems are about what the code does not guarantee, and name what it takes to break it; none of
them has an assumption that could be dropped. `RetriesAreOpen`: if no save loses its reply and no `Get` is
overtaken, the question on air has no answer yet, and a failed save can be retried. `StartsAreSeen`: if no
reply of `MarkRoomStarted` is lost and no `Get` is overtaken, a room in memory has the status of its row,
so none waits in a lobby that Postgres has left. `EndedRoomsStayEnded`: if no `Get` is overtaken, no
goroutine serves a room whose row says ended, whatever the store answers. (After a failed `MarkRoomEnded`
the row does not say so.)

**Registry** (`RegistryProofs`), for any sets of handlers and any buffer of at least two. The invariant
adds to the properties: who holds the lock and what it holds (`LockInv`), that a handler's reference is
to a spawned room (`RefInv`), that a refused handler's room is done (`AnswerInv`), that an attach waits
at one place of one queue (`QueueInv`), that a room leaves its loop only when it ended the session or
the server stops (`StopInv`), whatever its row says then, and that a serving room knows those handed to it (`KnownInv`). Theorems:
`TypeCorrect`, `OneRoom`, `DoneForgotten`, `AttachTold`, `PlayerKnown`. `AttachTold` is the reason for
the second `select` in `Room.call`; `DoneForgotten` for the order of the deferred calls in `loop`.
`NoneIsStuck` excludes a deadlock: `NobodyIsStuck` spells out the guards of a handler's and of a goroutine's
steps, and says that whoever has not finished can go on, or waits for a holder of the lock or a goroutine
that can. Its invariant adds that a room is used only once its spawner has put it into the registry
(`UnsharedInv`), that the queue of a room being spawned has a slot left for the closure `newRoom` puts there
with the lock held, which is why `Buffer` must be at least two (`FreshInv`), and what a handler that waits
for its reply has in which queue (`WaitInv`).

**Rank and Leaderboard** (`LeaderboardProofs`). `KeyIsOrder`: the key orders two standings as the three
criteria do while correct answers and milliseconds fit their places, and `KeyIsExact`: with the units of
`rank.go` it stays below 2^53. `AtMostOncePerInterval`: the throttle, from the invariant that a running
timer and its queued closure exclude each other and neither comes before the interval is over.
The two sources of the order are then shown to sort: a stable sort by counting gives every position one
place (`PlacesRise`, `PlacesAreTaken`), so `Order` lists the players of the room, best key first
(`OrderSorts`), and so does a set in Redis that covers the room (`RedisSorts`). From this follow
`TypeCorrect` and `ScreenCurrent`, with the invariant that a change which is not shown yet waits for a
timer or its closure (`OnItsWay`, by itself the theorem `ChangesHaveAFlush`), and `ScreenRanked`, with the invariant that the set holds the key of
the standing of each of its members (`RankInv`). `ScreenRanked` assumes `KeysKeepUp`: no Save fails (the
run `leaderboard_stale` shows what happens otherwise), and scores are too small for more right answers
than the key has room for; with 300 points at least for a right answer, 18750 at most for a session and
room for 99, the real numbers satisfy it.

**Admission** (`AdmissionProofs`), for any number of requests, PINs, rooms and seats. The invariant says
what a transaction relies on between two of its statements. A creation holds the advisory lock from its
count to its commit, so that the number of young rooms it has counted and the PIN it has found unused
stay so (`CreationsSound`); rooms that are old by its clock stay old or end, so its count is never below
the true one. A join holds its room's row, so that the room stays open and the seats and names it has seen
are the ones it adds to (`JoinsSound`); a kick, which takes no lock, only makes room. Requests are
answered when they return (`AnsweredOnce`). Theorems: `TypeCorrect`, `CapsHold`, and `Refinement`: every
behaviour of `Admission` is one of `RoomBook`.
Two more come as near to `RequestsAnswered` as safety can. `NoneIsStuck`: whoever waits for the advisory
lock or a room's row waits for a transaction that can go on (`LocksAreHeld`: a lock's holder is between
taking it and its end, and no transaction takes a second). `RequestsRunOut`: every step of a request brings
it nearer to its end by the measure `Left`, at most `4 * PinAttempts + 1` steps for a creation and six for a
join, whatever the others do. What they leave to fairness is only that a step which stays possible is
taken, and that a lock is granted in the end.

**Client** (`ClientProofs`), for any number of connections and messages and any buffer. Lemmas say that
whatever is sent to a client or closes it keeps what is queued in order (`SendGrows`, `CloseGrows`,
`SendEndedGrows`), so that the room's steps need one argument; the invariant adds that pumps run only for
connections that were let in, and that a reader closes its client before it asks to be detached
(`DetachedIsClosed`), which is what makes a late `Detach` harmless. Theorems: `TypeCorrect`,
`OpenIsSeated`, `InOrderWritten`.

**Selection and Scoring** (`ScoringProofs`), for every bank, every moment an answer may come at and both
results of a tie. While it runs, the selection has, in order, a question for each cell passed
(`SelectedSoFar`), and from each bucket as many as the cells passed have asked of it, which are its first;
so what is taken twice from one bucket is never the same question, and an empty bucket has fewer than its
`Demand`: `SelectionsAreExact`. The points of an answer rest on lemmas about `Rounded`: the nearest
integers of a larger fraction are not smaller (`RoundedGrows`), and bounds that are integers survive
rounding (`RoundedBetween`). Base points are multiples of five, so that 60% of them is an integer; hence
`ScoreBounds` and `ScoreFalls`. The invariant of a session bounds its score and its time by what the
questions settled are worth and allow. Theorems: `TypeCorrect`, `SelectionsAreExact`,
`TotalsAlwaysFit` (at most 15 questions, 18 750 points, 468 750 ms), `SlowerNeverEarnsMore`,
`CorrectAlwaysMeansPoints`. `TotalsAlwaysFit` is what `KeyIsOrder` and `KeyIsExact` assume of a standing;
`SessionsRankByKey` puts them together for the units of `rank.go`: in every reachable state the key of the
session is an integer below 2^53, and above the key of any other such session exactly if the player
ranks above its player.

**RateLimiter** (`RateLimiterProofs`), for any keys, limit, window and pruning threshold. `RefusedOnlyIfBusy`
and `BurstsAreBounded` are not inductive: they say nothing of which attempts belong to the running window.
The invariant does (`WindowHolds`): what a counter has counted is no more than the attempts of the ticks its
window has run; of what it has allowed in the last so many ticks, those of its window are at most
`Limit`, and all are fewer than one more `Limit` and another for each loss in those ticks (`Allowance`). Theorems: `TypeCorrect`, `OnlyTheBusyAreRefused`, `BurstsHaveABound`.

**Only model-checked**: liveness under fairness, which these provers do not reach (`SessionEnds`,
`RequestsReturn`, `StoppedRoomsClose`, `ChangesAreShown`, `RequestsAnswered`, `ClosedConnectionsGo`,
`LastWordsArrive`), within the bounds of section 3. For `RequestsReturn`, `StoppedRoomsClose` and
`RequestsAnswered` the absence of deadlock is proved (`NoneIsStuck`), and for `ChangesAreShown` that a flush
is on its way (`ChangesHaveAFlush`). That the guards `NobodyIsStuck` spells out are those of the steps, which
only `ENABLED` could state, TLC has confirmed on small instances.

## 6. Disagreements between code and documents

Four have a run that shows them (`room_stuck`, `room_kick_race`, `registry_after_end`,
`leaderboard_stale`); `PROJECT.json` quotes the lines. These were met as well and have no run of their
own:

- A room spawned from a row read before the end (`registry.go:66`, the run `registry_after_end`) is a full
  room: players go on answering, points are recorded and told, players can be kicked, although everyone was
  told `room.ended`. It ends once more, by its timer or when all have finished. What is on record stays in order
  and exact (`room_faults`).
- A room spawned from players read before their latest answers serves questions that are answered. Every
  answer and every timeout is then a duplicate, as after a lost reply (`room_stuck`), against
  `contracts/ws.md:60`, until the process restarts.
- A room spawned from a row read in the lobby may take the place of a session that has started since, if the
  goroutine that started it has stopped. It stays in the lobby: `host.start` updates no row, and no timer
  ends the session while that goroutine lives, against FR-02.4 (`docs/01_PRD_BRD.md:282`).
- If `MarkRoomEnded` fails, a handler that has read the players before a join spawns the room again without
  the player who joined, who was handed to the goroutine that has stopped and holds a token. The row still says running;
  the player is not known to the room before a restart.
- `docs/05_NFR_Security.md:57` asks for 10 join attempts per minute and address (also lines 100, 110, 152). The
  limiter's windows are fixed: in a minute that spans two of them one counter lets up to 19 through
  (`BurstsAreBounded` with a limit of 10), up to 10 more for each time the counter was lost in that minute,
  and the counter in memory as many again while Redis comes and goes.
- If `MarkRoomEnded` fails, `endSession` (`room.go:292`) logs it and tells everyone the room ended; the
  row still says running, and the next `Get` serves the room again, against `registry.go:40`.
- If the process stops between the last saved result and `MarkRoomEnded`, the room is reloaded with every
  player finished and nothing ends it before 12 minutes, against `contracts/ws.md:62`.
- If `MarkRoomStarted` commits and reports an error, the room stays in its lobby in memory, a second
  start updates no row and returns, and no timer ends the session while the process lives, against FR-02.4
  (`docs/01_PRD_BRD.md:282`).
- After a restart an overdue session nobody asks for stays running in Postgres.
- A member whose room closes between `Get` and `attach` is closed with 4401 like a stranger
  (`ws/handler.go:80`, `contracts/ws.md:6`).
- A failed read in `Rooms.AddPlayer` is answered 404 after the player's row was committed
  (`http/handlers.go:177`).
- `contracts/ws.md:17` says an answer past the deadline is rejected, `contracts/ws.md:59` that it is
  stored as a timeout; the code does the latter.

## 7. What is not modelled

- The text of messages, languages, option order and the shuffle of a bucket: no property depends on
  them.
- Tokens, configuration, password hashing: stateless library calls.
- The seeding of questions and schools and the other commands: an operator runs them, one transaction
  each, while nothing else writes those tables. That the questions a seed loads are enough for a
  selection is what `SelectionIsExact` leaves open: a short bank is refused.
- The set-up of the connection pool, and its limit: a request that waits for a connection waits as it
  does for a lock. Generated queries are modelled where they are used.
- Results export: read-only queries; only their order is modelled, as `Better`.
- The pumps' end when the process stops: the connections end with it.
- Several server processes on one database: the registry is in one process's memory,
  and the deployment runs one.

## 8. How it was built, and what could follow

The order was: `QuizSession` and `Room`, `Registry`, `Rank` and `Leaderboard`, `Selector` and `Scoring`, then
`RoomBook` and `Admission`, `Client`, `RateLimiter`; the proofs came after each had passed TLC, and every
inductive invariant was checked with TLC before it was proved.

Every component with state that several goroutines or requests share is modelled, and every safety property
and action property of a run that passes is a theorem. What could follow: a measure like `Left` for the
handlers and goroutines of `Registry`, and the same support for the liveness of `Client`.
