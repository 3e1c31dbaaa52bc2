----------------------------- MODULE Leaderboard -----------------------------
(***************************************************************************)
(* The rankings of one room: the throttle of lb.update in                  *)
(* internal/game/play.go and the sorted set of internal/leaderboard that   *)
(* it asks for the order.                                                  *)
(*                                                                         *)
(* Redis is disposable: every call may fail, a call may have had its       *)
(* effect although the room sees an error ("lost"), and the set may vanish *)
(* at any time. The room keeps the standings and rebuilds the set when it  *)
(* does not hold exactly the players of the room.                          *)
(*                                                                         *)
(* Time is counted in ticks up to lbInterval.                              *)
(***************************************************************************)
EXTENDS Rank, SequencesExt

CONSTANTS
  Players,        \* player ids, each used by one row
  Points,         \* what an answer may score, 0 when wrong or too late
  Times,          \* what an answer may add to total_ms
  MaxScore,       \* bound on scores
  MaxMs,          \* bound on total_ms
  Interval,       \* ticks of lbInterval
  SaveOutcomes,   \* outcomes of Board.Save: "ok", "fail", "lost"
  ForgetOutcomes, \* outcomes of Board.Forget
  ReadMayFail     \* Board.Order may return an error

ASSUME LeaderboardAssumption ==
  /\ Points \subseteq Nat
  /\ Times \subseteq Nat
  /\ MaxScore \in Nat
  /\ MaxMs \in 0..maxTotalMs
  /\ Interval \in Nat \ {0}
  /\ SaveOutcomes \subseteq {"ok", "fail", "lost"}
  /\ ForgetOutcomes \subseteq {"ok", "fail", "lost"}
  /\ ReadMayFail \in BOOLEAN

NoTimer == -1
NoAnswers == [score |-> 0, correct |-> 0, totalMs |-> 0]

VARIABLES
  serving,  \* the room's goroutine runs
  unused,   \* ids no row has used yet
  order,    \* Room.order, which lists the keys of Room.players
  standing, \* score, correct answers and time of each player
  board,    \* room:{id}:lb in Redis: key by member
  dirty,    \* lbDirty
  waiting,  \* lbWaiting
  timer,    \* ticks left on lbTimer
  queued,   \* the closure of lbTimer waits in Room.events
  since,    \* ticks since lbLast, at most Interval
  screen    \* rankings of the last lb.update to the connected clients

players == <<unused, order, standing>>
throttle == <<dirty, waiting, timer, queued, since>>
vars == <<serving, players, board, throttle, screen>>

NoBoard == [p \in {} |-> 0]

Init ==
  /\ serving = TRUE
  /\ unused = Players
  /\ order = <<>>
  /\ standing = [p \in Players |-> NoAnswers]
  /\ board = NoBoard
  /\ dirty = FALSE
  /\ waiting = FALSE
  /\ timer = NoTimer
  /\ queued = FALSE
  /\ since = Interval
  /\ screen = <<>>

-----------------------------------------------------------------------------
(* The sorted set *)

SavedOnlyNew(b, ps, st, o) ==   \* mutant: ZADD NX
  IF o = "fail" THEN b
  ELSE [p \in DOMAIN b \cup ps |-> IF p \in DOMAIN b THEN b[p] ELSE Key(st[p])]

\* The set once Save has written the standings of ps.
Saved(b, ps, st, o) ==
  IF o = "fail" THEN b
  ELSE [p \in DOMAIN b \cup ps |-> IF p \in ps THEN Key(st[p]) ELSE b[p]]

Forgotten(b, p, o) ==
  IF o = "fail" THEN b ELSE [q \in DOMAIN b \ {p} |-> b[q]]

\* ZRANGE REV: the members, best first; equal keys in some order of the ids.
RedisOrders(b) ==
  {s \in [1..Cardinality(DOMAIN b) -> DOMAIN b] :
     /\ ToSet(s) = DOMAIN b
     /\ \A i, j \in DOMAIN s : i < j => b[s[i]] >= b[s[j]]}

MemoryOrder(ord, st) == Order(ord, [p \in ToSet(ord) |-> Key(st[p])])

CoversSome(b, ord) == ToSet(ord) \subseteq DOMAIN b   \* mutant: members are not compared

\* coversAllPlayers
Covers(b, ord) == ToSet(ord) = DOMAIN b

-----------------------------------------------------------------------------
(* The throttle. The handlers below pass on the players, the standings and  *)
(* the set as they left them.                                               *)

Show(ids, st) ==
  screen' = [i \in DOMAIN ids |-> [id |-> ids[i], standing |-> st[ids[i]]]]

\* rankedIDs: the order of Redis if it lists the players of the room, however
\* old its scores; else that of memory, which is written to Redis.
SendLeaderboard(ord, st, b) ==
  /\ \/ /\ Covers(b, ord)
        /\ \E ids \in RedisOrders(b) : Show(ids, st)
        /\ board' = b
     \/ /\ ReadMayFail \/ ~Covers(b, ord)
        /\ Show(MemoryOrder(ord, st), st)
        /\ \E o \in SaveOutcomes : board' = Saved(b, ToSet(ord), st, o)
  /\ dirty' = FALSE
  /\ since' = 0

MarkAtOnce(ord, st, b) ==   \* mutant: lbLast is not looked at
  IF waiting THEN dirty' = TRUE /\ board' = b /\ UNCHANGED <<waiting, timer, queued, since, screen>>
  ELSE SendLeaderboard(ord, st, b) /\ UNCHANGED <<waiting, timer, queued>>

MarkLeaderboardDirty(ord, st, b) ==
  \/ /\ ~waiting
     /\ since >= Interval
     /\ SendLeaderboard(ord, st, b)
     /\ UNCHANGED <<waiting, timer, queued>>
  \/ /\ ~waiting
     /\ since < Interval
     /\ dirty' = TRUE
     /\ waiting' = TRUE
     /\ timer' = Interval - since
     /\ board' = b
     /\ UNCHANGED <<queued, since, screen>>
  \/ /\ waiting
     /\ dirty' = TRUE
     /\ board' = b
     /\ UNCHANGED <<waiting, timer, queued, since, screen>>

-----------------------------------------------------------------------------
(* Handlers *)

AddPlayerTwice(p) ==   \* mutant: a player who is known is added again
  /\ serving
  /\ Len(order) < 3
  /\ unused' = unused \ {p}
  /\ order' = Append(order, p)
  /\ UNCHANGED <<serving, standing, board, throttle, screen>>

\* A new player is in no ranking until the next lb.update.
AddPlayer(p) ==
  /\ serving
  /\ p \in unused
  /\ unused' = unused \ {p}
  /\ order' = Append(order, p)
  /\ UNCHANGED <<serving, standing, board, throttle, screen>>

\* Every result counts its time; the last one may end the session.
Resolve(p, points, spent) ==
  /\ serving
  /\ p \in ToSet(order)
  /\ standing[p].score + points <= MaxScore
  /\ standing[p].totalMs + spent <= MaxMs
  /\ standing' = [standing EXCEPT ![p] =
       [score   |-> @.score + points,
        correct |-> IF points > 0 THEN @.correct + 1 ELSE @.correct,
        totalMs |-> @.totalMs + spent]]
  /\ \E o \in SaveOutcomes :
       MarkLeaderboardDirty(order, standing', Saved(board, {p}, standing', o))
  /\ serving' \in BOOLEAN
  /\ UNCHANGED <<unused, order>>

\* Kicking the last unfinished player may end the session.
Kick(p) ==
  /\ serving
  /\ p \in ToSet(order)
  /\ order' = RemoveFirst(order, p)
  /\ \E o \in ForgetOutcomes :
       MarkLeaderboardDirty(order', standing, Forgotten(board, p, o))
  /\ \/ serving' = TRUE
     \/ serving' = FALSE /\ order' # <<>>
  /\ UNCHANGED <<unused, standing>>

\* host.end or the deadline: stopTimers, and nothing runs any more.
EndSession ==
  /\ serving
  /\ serving' = FALSE
  /\ UNCHANGED <<players, board, throttle, screen>>

\* The goroutine of lbTimer queues its closure.
TimerFires ==
  /\ serving
  /\ timer = 0
  /\ timer' = NoTimer
  /\ queued' = TRUE
  /\ UNCHANGED <<serving, players, board, dirty, waiting, since, screen>>

FlushStaysWaiting ==   \* mutant: lbWaiting is not reset
  /\ serving
  /\ queued
  /\ queued' = FALSE
  /\ \/ dirty /\ SendLeaderboard(order, standing, board)
     \/ ~dirty /\ UNCHANGED <<board, dirty, since, screen>>
  /\ UNCHANGED <<serving, players, waiting, timer>>

\* The closure of lbTimer.
Flush ==
  /\ serving
  /\ queued
  /\ queued' = FALSE
  /\ waiting' = FALSE
  /\ \/ dirty /\ SendLeaderboard(order, standing, board)
     \/ ~dirty /\ UNCHANGED <<board, dirty, since, screen>>
  /\ UNCHANGED <<serving, players, timer>>

\* The process stops; newRoom rebuilds the room from its rows and restoreBoard,
\* the first closure it queues, writes every standing. Clients connect anew.
Reload ==
  /\ serving
  /\ \E o \in SaveOutcomes : board' = Saved(board, ToSet(order), standing, o)
  /\ dirty' = FALSE
  /\ waiting' = FALSE
  /\ timer' = NoTimer
  /\ queued' = FALSE
  /\ since' = Interval
  /\ screen' = <<>>
  /\ UNCHANGED <<serving, players>>

-----------------------------------------------------------------------------
(* The outside *)

Tick ==
  /\ serving
  /\ since < Interval \/ timer > 0
  /\ since' = IF since < Interval THEN since + 1 ELSE since
  /\ timer' = IF timer > 0 THEN timer - 1 ELSE timer
  /\ UNCHANGED <<serving, players, board, dirty, waiting, queued, screen>>

\* Redis restarts, or the two hours of keyTTL are over.
RedisForgets ==
  /\ serving
  /\ board # NoBoard
  /\ board' = NoBoard
  /\ UNCHANGED <<serving, players, throttle, screen>>

Next ==
  \/ \E p \in Players : AddPlayer(p) \/ Kick(p)
  \/ \E p \in Players, points \in Points, spent \in Times : Resolve(p, points, spent)
  \/ EndSession \/ TimerFires \/ Flush \/ Reload \/ Tick \/ RedisForgets

Spec == Init /\ [][Next]_vars

\* Time passes, a timer that is due fires and the loop takes its closure.
FairSpec == Spec /\ WF_vars(Tick) /\ WF_vars(TimerFires) /\ WF_vars(Flush)

-----------------------------------------------------------------------------
(* Types *)

Standings == [score : 0..MaxScore, correct : 0..MaxScore, totalMs : 0..MaxMs]

\* Every variable has its type; the sorted set holds ids that were players.
TypeOK ==
  /\ serving \in BOOLEAN
  /\ unused \subseteq Players
  /\ order \in Seq(Players \ unused)
  /\ IsInjective(order)
  /\ standing \in [Players -> Standings]
  /\ DOMAIN board \subseteq Players \ unused
  /\ \A p \in DOMAIN board : board[p] \in Nat
  /\ dirty \in BOOLEAN
  /\ waiting \in BOOLEAN
  /\ timer \in 0..Interval \cup {NoTimer}
  /\ queued \in BOOLEAN
  /\ since \in 0..Interval
  /\ screen \in Seq([id : Players, standing : Standings])

-----------------------------------------------------------------------------
(* Safety *)

\* Clients are sent at most one lb.update per interval, whatever results,
\* kicks and late timers come together.
OncePerInterval ==
  [][screen' \notin {screen, <<>>} => since >= Interval]_vars

\* Between two handlers, either an update is on its way or the clients have
\* the standings as they are: no change is forgotten, no kicked player stays.
ScreenIsCurrent ==
  serving =>
    \/ dirty /\ waiting /\ (timer # NoTimer \/ queued)
    \/ \A i \in 1..Len(screen) :
         /\ screen[i].id \in ToSet(order)
         /\ screen[i].standing = standing[screen[i].id]

\* The rankings are ordered by score, then correct answers, then time, as the
\* final results are, although they come from a set of single numbers that may
\* be lost, or may still hold a player who was kicked.
\* Not so if a Save may fail: the set then covers the players with old scores.
ScreenIsRanked ==
  \A i, j \in 1..Len(screen) :
    i < j => ~Better(screen[j].standing, screen[i].standing)

-----------------------------------------------------------------------------
(* Liveness, under FairSpec *)

\* A change is shown to the clients unless the room ends or stops first.
ChangesAreShown == dirty ~> ~dirty \/ ~serving

=============================================================================
