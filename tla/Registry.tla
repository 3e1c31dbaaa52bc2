------------------------------ MODULE Registry ------------------------------
(***************************************************************************)
(* The registry of internal/game/registry.go for one room id: concurrent   *)
(* HTTP and WebSocket handlers that look the room up, load it from         *)
(* Postgres, spawn its goroutine and queue closures on it, and the life of *)
(* that goroutine from spawn to close(done).                               *)
(*                                                                         *)
(* Room takes loading and stopping as one step each. Here every read of    *)
(* Postgres, every critical section of Registry.mu, every channel          *)
(* operation and every deferred call of Room.loop is a step of its own.    *)
(* What a room does with a question is left to Room: of its closures this  *)
(* module keeps what they reply and whether they end the room.             *)
(*                                                                         *)
(* A handler calls Get once, so it spawns at most one room: a Room value   *)
(* is named by the handler that spawned it.                                *)
(***************************************************************************)
EXTENDS Naturals, Sequences

CONSTANTS
  Joins,        \* join requests, each for a player of its own
  Attaches,     \* WebSocket requests of players
  Hosts,        \* WebSocket requests of the host, each sends one command
  Buffer,       \* capacity of Room.events
  StoreMayFail, \* a call of the store by Get or by a room may return an
                \* error, its update committed or not
  None

Handlers == Joins \cup Attaches \cup Hosts

ASSUME RegistryAssumption ==
  /\ Buffer \in Nat /\ Buffer >= 2   \* newRoom and its timer each queue one
  /\ StoreMayFail \in BOOLEAN
  /\ None \notin Handlers
  /\ Joins \cap Attaches = {} /\ Joins \cap Hosts = {} /\ Attaches \cap Hosts = {}

NothingSeen == [status |-> "lobby", players |-> {}]

VARIABLES
  \* Postgres
  dbStatus,    \* rooms.status
  overdue,     \* MaxRoomDuration has passed since rooms.started_at
  rows,        \* players with a row in room_players
  \* Registry
  mu,          \* the handler or room that holds Registry.mu
  registered,  \* Registry.rooms[id]
  ctxDone,     \* Registry.ctx is done: the server shuts down
  \* handlers
  pc,          \* what the handler does next
  seen,        \* what Get has read so far: the status and the players
  ref,         \* the *Room the handler holds
  reply,       \* the reply channel of call
  result,      \* how the request was answered
  \* rooms
  life,        \* where Room.loop is
  status,      \* Room.status
  members,     \* keys of Room.players
  events,      \* Room.events
  armed        \* the deadline timer is running

db == <<dbStatus, overdue, rows>>
handlers == <<pc, seen, ref, reply, result>>
room == <<life, status, members, events, armed>>
vars == <<db, mu, registered, ctxDone, handlers, room>>

Rooms == Handlers

Init ==
  /\ dbStatus \in {"lobby", "running"}
  /\ overdue = FALSE
  /\ rows \in SUBSET Attaches
  /\ mu = None
  /\ registered = None
  /\ ctxDone = FALSE
  /\ pc = [h \in Handlers |-> IF h \in Joins THEN "join" ELSE "lookup"]
  /\ seen = [h \in Handlers |-> NothingSeen]
  /\ ref = [h \in Handlers |-> None]
  /\ reply = [h \in Handlers |-> "none"]
  /\ result = [h \in Handlers |-> "none"]
  /\ life = [r \in Rooms |-> "unborn"]
  /\ status = [r \in Rooms |-> "lobby"]
  /\ members = [r \in Rooms |-> {}]
  /\ events = [r \in Rooms |-> <<>>]
  /\ armed = [r \in Rooms |-> FALSE]

-----------------------------------------------------------------------------
(* Handlers *)

Goto(h, l) == pc' = [pc EXCEPT ![h] = l]

Return(h, answer) ==
  /\ pc' = [pc EXCEPT ![h] = "returned"]
  /\ result' = [result EXCEPT ![h] = answer]

\* An error of Get: a WebSocket handler tells a missing room (404) from a
\* failure (500), the join handler answers 404 either way.
ReturnError(h, notFound) ==
  Return(h, IF notFound \/ h \in Joins THEN "notfound" ELSE "internal")

JoinRoom(h) ==
  /\ pc[h] = "join"
  /\ \/ /\ dbStatus # "ended"
        /\ rows' = rows \cup {h}
        /\ Goto(h, "lookup")
        /\ UNCHANGED result
     \/ /\ dbStatus = "ended"
        /\ ReturnError(h, TRUE)
        /\ UNCHANGED rows
  /\ UNCHANGED <<dbStatus, overdue, mu, registered, ctxDone, seen, ref, reply, room>>

Lookup(h) ==
  /\ pc[h] = "lookup"
  /\ mu = None
  /\ ref' = [ref EXCEPT ![h] = registered]
  /\ Goto(h, IF registered # None THEN "post" ELSE "room")
  /\ UNCHANGED <<db, mu, registered, ctxDone, seen, reply, result, room>>

\* RoomByID; time.Since(StartedAt) is taken on the row just read.
RoomByID(h) ==
  /\ pc[h] = "room"
  /\ \/ /\ dbStatus = "ended"
        /\ ReturnError(h, TRUE)
        /\ UNCHANGED seen
     \/ /\ dbStatus # "ended"
        /\ seen' = [seen EXCEPT ![h].status = dbStatus]
        /\ Goto(h, IF dbStatus = "running" /\ overdue THEN "expire" ELSE "players")
        /\ UNCHANGED result
  /\ UNCHANGED <<db, mu, registered, ctxDone, ref, reply, room>>

EndExpired(h) ==
  /\ pc[h] = "expire"
  /\ dbStatus' = "ended"
  /\ ReturnError(h, TRUE) \/ (StoreMayFail /\ ReturnError(h, FALSE))
  /\ UNCHANGED <<overdue, rows, mu, registered, ctxDone, seen, ref, reply, room>>

PlayersOfRoom(h) ==
  /\ pc[h] = "players"
  /\ seen' = [seen EXCEPT ![h].players = rows]
  /\ Goto(h, "spawn")
  /\ UNCHANGED <<db, mu, registered, ctxDone, ref, reply, result, room>>

\* Any of the four calls of the store returns an error and has no effect.
GetFails(h) ==
  /\ StoreMayFail
  /\ pc[h] \in {"room", "expire", "players"}
  /\ ReturnError(h, FALSE)
  /\ UNCHANGED <<db, mu, registered, ctxDone, seen, ref, reply, room>>

SpawnAlways(h) == mu = None /\ pc[h] = "spawn"   \* mutant: no second look

\* The second look under the lock: a room another handler spawned wins.
MustSpawn(h) == mu = None /\ pc[h] = "spawn" /\ registered = None

SpawnExisting(h) ==
  /\ pc[h] = "spawn"
  /\ mu = None
  /\ ~MustSpawn(h)
  /\ ref' = [ref EXCEPT ![h] = registered]
  /\ seen' = [seen EXCEPT ![h] = NothingSeen]
  /\ Goto(h, "post")
  /\ UNCHANGED <<db, mu, registered, ctxDone, reply, result, room>>

\* spawn keeps the lock while newRoom queues restoreBoard.
Spawn(h) ==
  /\ MustSpawn(h)
  /\ mu' = h
  /\ ref' = [ref EXCEPT ![h] = h]
  /\ Goto(h, "restore")
  /\ life' = [life EXCEPT ![h] = "serving"]
  /\ status' = [status EXCEPT ![h] = seen[h].status]
  /\ members' = [members EXCEPT ![h] = seen[h].players]
  /\ armed' = [armed EXCEPT ![h] = seen[h].status = "running"]
  /\ seen' = [seen EXCEPT ![h] = NothingSeen]
  /\ UNCHANGED <<db, registered, ctxDone, reply, result, events>>

-----------------------------------------------------------------------------
(* Room.run: the send and the closed done channel are alternatives of one   *)
(* select, so a room that has stopped may still take an event it never runs *)

SendUnbounded(r, e) ==   \* mutant: the queue has no limit
  events' = [events EXCEPT ![r] = Append(@, e)]

SendOneSlot(r, e) ==   \* mutant: a buffer of one
  events[r] = <<>> /\ events' = [events EXCEPT ![r] = <<e>>]

SendOrDrop(r, e) ==   \* mutant: a full queue drops the closure
  events' = [events EXCEPT ![r] = IF Len(@) < Buffer THEN Append(@, e) ELSE @]

Send(r, e) ==
  /\ Len(events[r]) < Buffer
  /\ events' = [events EXCEPT ![r] = Append(@, e)]

NeverClosed(r) == FALSE   \* mutant: run waits for the queue alone

Closed(r) == life[r] = "done"

\* newRoom queues restoreBoard, then spawn registers the room and unlocks.
Restore(h) ==
  /\ pc[h] = "restore"
  /\ \/ Send(h, <<"restore", h>>)
     \/ Closed(h) /\ UNCHANGED events
  /\ registered' = h
  /\ mu' = None
  /\ Goto(h, "post")
  /\ UNCHANGED <<db, ctxDone, seen, ref, reply, result, life, status, members, armed>>

\* AddPlayer does not look at run's answer: the player gets a token anyway.
PostJoin(h) ==
  /\ pc[h] = "post"
  /\ h \in Joins
  /\ \/ Send(ref[h], <<"add", h>>)
     \/ Closed(ref[h]) /\ UNCHANGED events
  /\ Return(h, "joined")
  /\ UNCHANGED <<db, mu, registered, ctxDone, seen, ref, reply, life, status, members, armed>>

\* AttachPlayer and AttachHost: the first half of call.
PostAttach(h) ==
  /\ pc[h] = "post"
  /\ h \notin Joins
  /\ \/ Send(ref[h], <<"attach", h>>) /\ Goto(h, "wait") /\ UNCHANGED result
     \/ Closed(ref[h]) /\ Return(h, "unauthorized") /\ UNCHANGED events
  /\ UNCHANGED <<db, mu, registered, ctxDone, seen, ref, reply, life, status, members, armed>>

ClosedFirst(h) == Closed(ref[h])   \* mutant: done wins over a reply

\* The second half of call: a reply that is there wins over a closed room.
Unanswered(h) == Closed(ref[h]) /\ reply[h] = "none"

\* Every error of attach closes the connection with 4401.
Await(h) ==
  /\ pc[h] = "wait"
  /\ \/ /\ reply[h] = "ok"
        /\ IF h \in Hosts THEN Goto(h, "command") /\ UNCHANGED result
                          ELSE Return(h, "open")
     \/ reply[h] = "unknown" /\ Return(h, "unauthorized")
     \/ Unanswered(h) /\ Return(h, "unauthorized")
  /\ UNCHANGED <<db, mu, registered, ctxDone, seen, ref, reply, room>>

\* host.start or host.end on the connection just opened.
Command(h) ==
  /\ pc[h] = "command"
  /\ \/ \E c \in {"start", "end"} : Send(ref[h], <<c, h>>)
     \/ Closed(ref[h]) /\ UNCHANGED events
  /\ Return(h, "open")
  /\ UNCHANGED <<db, mu, registered, ctxDone, seen, ref, reply, life, status, members, armed>>

-----------------------------------------------------------------------------
(* Rooms *)

\* The loop ends: stopTimers is the first deferred call. Nobody reads the
\* players of a room that runs no more closures: the model forgets them.
LeaveLoop(r) ==
  /\ life' = [life EXCEPT ![r] = "stopping"]
  /\ members' = [members EXCEPT ![r] = {}]
  /\ armed' = [armed EXCEPT ![r] = FALSE]

\* An error of MarkRoomEnded is only logged: the goroutine ends regardless.
EndSession(r) ==
  /\ dbStatus' = "ended" \/ (StoreMayFail /\ UNCHANGED dbStatus)
  /\ status' = [status EXCEPT ![r] = "ended"]
  /\ LeaveLoop(r)

\* addPlayerAndNotify, or restoreBoard, which leaves this state alone.
RunAdd(r, kind, h) ==
  /\ kind \in {"add", "restore"}
  /\ members' = [members EXCEPT ![r] = IF kind = "add" THEN @ \cup {h} ELSE @]
  /\ UNCHANGED <<dbStatus, overdue, status, reply, life, armed>>

\* The attach of a player may settle the last question and end the room.
RunAttach(r, kind, h) ==
  /\ kind = "attach"
  /\ IF h \in Hosts \cup members[r]
     THEN /\ reply' = [reply EXCEPT ![h] = "ok"]
          /\ \/ UNCHANGED <<dbStatus, status, life, members, armed>>
             \/ h \notin Hosts /\ status[r] = "running" /\ EndSession(r)
     ELSE /\ reply' = [reply EXCEPT ![h] = "unknown"]
          /\ UNCHANGED <<dbStatus, status, life, members, armed>>
  /\ UNCHANGED overdue

MayStart(r) == status[r] = "lobby" /\ dbStatus = "lobby"

\* After an error of MarkRoomStarted the room stays in the lobby, although the
\* row may say running.
RunStart(r, kind) ==
  /\ kind = "start"
  /\ \/ /\ MayStart(r)
        /\ dbStatus' = "running"
        /\ overdue' = FALSE
        /\ \/ /\ status' = [status EXCEPT ![r] = "running"]
              /\ armed' = [armed EXCEPT ![r] = TRUE]
           \/ StoreMayFail /\ UNCHANGED <<status, armed>>
     \/ /\ ~MayStart(r) \/ StoreMayFail
        /\ UNCHANGED <<dbStatus, overdue, status, armed>>
  /\ UNCHANGED <<members, reply, life>>

RunEnd(r, kind) ==
  /\ kind = "end"
  /\ EndSession(r)
  /\ UNCHANGED <<overdue, reply>>

\* The loop takes the next closure and runs it.
RunNext(r) ==
  /\ life[r] = "serving"
  /\ events[r] # <<>>
  /\ LET e == Head(events[r]) IN
       \/ RunAdd(r, e[1], e[2])
       \/ RunAttach(r, e[1], e[2])
       \/ RunStart(r, e[1])
       \/ RunEnd(r, e[1])
  /\ events' = [events EXCEPT ![r] = Tail(@)]
  /\ UNCHANGED <<rows, mu, registered, ctxDone, pc, seen, ref, result>>

\* The other case of the loop's select, whatever is queued.
Cancelled(r) ==
  /\ life[r] = "serving"
  /\ ctxDone
  /\ LeaveLoop(r)
  /\ UNCHANGED <<db, mu, registered, ctxDone, handlers, status, events>>

\* onStop, the second deferred call.
Forget(r) ==
  /\ life[r] = "stopping"
  /\ mu = None
  /\ registered' = IF registered = r THEN None ELSE registered
  /\ life' = [life EXCEPT ![r] = "forgotten"]
  /\ UNCHANGED <<db, mu, ctxDone, handlers, status, members, events, armed>>

DoneBeforeForget(r) ==   \* mutant: done is closed before onStop
  /\ life[r] = "stopping"
  /\ life' = [life EXCEPT ![r] = "done"]
  /\ UNCHANGED <<db, mu, registered, ctxDone, handlers, status, members, events, armed>>

\* close(done), the last.
CloseDone(r) ==
  /\ life[r] = "forgotten"
  /\ life' = [life EXCEPT ![r] = "done"]
  /\ UNCHANGED <<db, mu, registered, ctxDone, handlers, status, members, events, armed>>

\* The goroutine of time.AfterFunc queues endSession.
DeadlineFires(r) ==
  /\ armed[r]
  /\ overdue
  /\ Send(r, <<"end", r>>)
  /\ armed' = [armed EXCEPT ![r] = FALSE]
  /\ UNCHANGED <<db, mu, registered, ctxDone, handlers, life, status, members>>

-----------------------------------------------------------------------------
(* The outside *)

TimePasses ==
  /\ dbStatus = "running"
  /\ ~overdue
  /\ overdue' = TRUE
  /\ UNCHANGED <<dbStatus, rows, mu, registered, ctxDone, handlers, room>>

Shutdown ==
  /\ ~ctxDone
  /\ ctxDone' = TRUE
  /\ UNCHANGED <<db, mu, registered, handlers, room>>

HandlerStep(h) ==
  \/ JoinRoom(h) \/ Lookup(h) \/ RoomByID(h) \/ EndExpired(h)
  \/ PlayersOfRoom(h) \/ GetFails(h)
  \/ SpawnExisting(h) \/ Spawn(h) \/ Restore(h)
  \/ PostJoin(h) \/ PostAttach(h) \/ Await(h) \/ Command(h)

LoopStep(r) == RunNext(r) \/ Cancelled(r) \/ Forget(r) \/ CloseDone(r)

Next ==
  \/ \E h \in Handlers : HandlerStep(h)
  \/ \E r \in Rooms : LoopStep(r) \/ DeadlineFires(r)
  \/ TimePasses
  \/ Shutdown

Spec == Init /\ [][Next]_vars

\* Every goroutine that can take a step is eventually scheduled. Nothing is
\* asked of the host, of the clock or of a shutdown.
FairSpec ==
  /\ Spec
  /\ \A h \in Handlers : WF_vars(HandlerStep(h))
  /\ \A r \in Rooms : WF_vars(LoopStep(r))

-----------------------------------------------------------------------------
(* Types *)

PCs == {"join", "lookup", "room", "expire", "players", "spawn", "restore",
        "post", "wait", "command", "returned"}
Kinds == {"restore", "add", "attach", "start", "end"}

\* Every variable has its type; the queue of a room never exceeds its buffer.
TypeOK ==
  /\ dbStatus \in {"lobby", "running", "ended"}
  /\ overdue \in BOOLEAN
  /\ rows \subseteq Joins \cup Attaches
  /\ mu \in Handlers \cup {None}
  /\ registered \in Rooms \cup {None}
  /\ ctxDone \in BOOLEAN
  /\ pc \in [Handlers -> PCs]
  /\ seen \in [Handlers -> [status : {"lobby", "running"},
                            players : SUBSET (Joins \cup Attaches)]]
  /\ ref \in [Handlers -> Rooms \cup {None}]
  /\ reply \in [Handlers -> {"none", "ok", "unknown"}]
  /\ result \in [Handlers -> {"none", "notfound", "internal", "joined", "open",
                              "unauthorized"}]
  /\ life \in [Rooms -> {"unborn", "serving", "stopping", "forgotten", "done"}]
  /\ status \in [Rooms -> {"lobby", "running", "ended"}]
  /\ members \in [Rooms -> SUBSET (Joins \cup Attaches)]
  /\ events \in [Rooms -> Seq(Kinds \X Handlers)]
  /\ \A r \in Rooms : Len(events[r]) <= Buffer
  /\ armed \in [Rooms -> BOOLEAN]

-----------------------------------------------------------------------------
(* Safety *)

\* At most one goroutine owns the room's state at a time: one that has not
\* been forgotten is the registered one, or is being registered under the
\* lock. Two handlers that load the room at once end up with the same one.
OneRoomServes ==
  \A r \in Rooms : life[r] \in {"serving", "stopping"} => r \in {registered, mu}

\* A handler that is told its room is closed does not get the same room from
\* the registry again: once done is closed the room is out of it.
DoneIsForgotten == \A r \in Rooms : life[r] = "done" => registered # r

\* A client is turned away only if the room has not let it in: the closure of
\* an attach that ran is always reported, even when it ended the room.
AttachedIsTold ==
  \A h \in Handlers : reply[h] = "ok" => result[h] # "unauthorized"

\* Unless the server shuts down, a player whose join was answered is one of
\* the players of whatever goroutine serves the room, or about to be, however
\* stale the rows were it was spawned from: until one has ended the session.
\* After that, even if MarkRoomEnded failed and the row says running, a room
\* spawned from players read before the join does not know the player.
Knows(r, p) == p \in members[r] \/ \E i \in 1..Len(events[r]) : events[r][i] = <<"add", p>>

JoinedPlayerIsKnown ==
  \A h \in Joins, r \in Rooms :
    /\ result[h] = "joined"
    /\ life[r] = "serving"
    /\ \A q \in Rooms : status[q] # "ended"
    /\ ~ctxDone
    => Knows(r, h)

-----------------------------------------------------------------------------
(* Safety the code does not have *)

\* No goroutine serves a room that has ended, save one whose own timer ends it
\* at once. Not so if a handler spawns it from a row it read before another
\* goroutine ended the room.
NoRoomAfterEnd ==
  \A r \in Rooms : life[r] = "serving" => dbStatus # "ended" \/ overdue

-----------------------------------------------------------------------------
(* Liveness, under FairSpec *)

\* Every request is answered and every lock released, whatever stops when: no
\* handler waits for ever on a full queue, a lock or a room that is gone.
RequestsReturn == \A h \in Handlers : <>(pc[h] = "returned")

\* A room that leaves its loop is taken out of the registry and closed.
StoppedRoomsClose ==
  \A r \in Rooms : life[r] = "stopping" ~> life[r] = "done"

=============================================================================
