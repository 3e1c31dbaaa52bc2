--------------------------- MODULE RegistryProofs ---------------------------
(***************************************************************************)
(* What Registry guarantees for any number of concurrent requests and any  *)
(* buffer of at least two events.                                          *)
(***************************************************************************)
EXTENDS Registry, SequenceTheorems, TLAPS

-----------------------------------------------------------------------------
(* The inductive invariant *)

\* What a handler does before it may spawn a room, and with the room it holds.
Loading == {"join", "lookup", "room", "expire", "players", "spawn"}
Holding == {"post", "wait", "command"}

\* The lock is held by the handler that spawns, whose room nobody else knows;
\* the registry holds a room that has not been forgotten.
LockInv ==
  /\ \A h \in Handlers : pc[h] = "restore" => mu = h
  /\ mu # None => pc[mu] = "restore" /\ registered = None
                  /\ life[mu] \in {"serving", "stopping"}
  /\ registered # None => life[registered] \in {"serving", "stopping"}
  /\ \A h \in Handlers : pc[h] \in Loading => life[h] = "unborn"
  /\ \A h \in Handlers : pc[h] = "join" => h \in Joins

\* A handler that uses a room has one, which has been spawned.
RefInv ==
  /\ \A h \in Handlers : pc[h] = "restore" => ref[h] = h
  /\ \A h \in Handlers : pc[h] \in Holding => ref[h] # None
  /\ \A h \in Handlers : result[h] \in {"joined", "open", "unauthorized"} => ref[h] # None
  /\ \A h \in Handlers : ref[h] # None => life[ref[h]] # "unborn"

\* A handler that gave up on a room was refused, or the room runs nothing more.
AnswerInv ==
  /\ \A h \in Handlers : result[h] # "none" => pc[h] = "returned"
  /\ \A h \in Handlers : reply[h] # "none" => pc[h] \in {"wait", "command", "returned"}
  /\ \A h \in Handlers : result[h] = "unauthorized" =>
       reply[h] = "unknown" \/ life[ref[h]] = "done"

Queued(r, i, e) == i \in 1..Len(events[r]) /\ events[r][i] = e

\* An attach waits at one place of one queue, that of the handler's room, and
\* is not replied to while it does.
QueueInv ==
  \A r \in Rooms, h \in Handlers, i \in Nat : Queued(r, i, <<"attach", h>>) =>
    /\ ref[h] = r
    /\ reply[h] = "none"
    /\ pc[h] \in {"wait", "returned"}
    /\ \A j \in Nat : Queued(r, j, <<"attach", h>>) => j = i

\* A room leaves its loop only when it ended the session or the server shuts
\* down.
StopInv ==
  \A r \in Rooms : life[r] \in {"stopping", "forgotten", "done"} =>
    ctxDone \/ status[r] = "ended"

\* Only players are added, and a room that runs knows those handed to it.
KnownInv ==
  /\ \A r \in Rooms, h \in Handlers, i \in Nat : Queued(r, i, <<"add", h>>) => h \in Joins
  /\ \A h \in Joins : result[h] = "joined" /\ life[ref[h]] = "serving" => Knows(ref[h], h)

IInv == /\ TypeOK /\ OneRoomServes /\ LockInv /\ RefInv
        /\ AnswerInv /\ AttachedIsTold /\ QueueInv /\ StopInv /\ KnownInv

-----------------------------------------------------------------------------
(* Queues *)

\* What is known of a queue that does not change.
LEMMA SameQueue ==
  ASSUME UNCHANGED events
  PROVE  \A r, i, e : Queued(r, i, e)' <=> Queued(r, i, e)
BY DEF Queued

\* A send adds one event at the end of one queue.
LEMMA SendQueue ==
  ASSUME TypeOK, NEW r \in Rooms, NEW e \in Kinds \X Handlers, Send(r, e)
  PROVE  /\ events' \in [Rooms -> Seq(Kinds \X Handlers)]
         /\ \A s \in Rooms : Len(events'[s]) <= Buffer
         /\ \A s \in Rooms, i \in Nat : \A f :
              Queued(s, i, f)' <=>
                Queued(s, i, f) \/ (s = r /\ i = Len(events[r]) + 1 /\ f = e)
<1> DEFINE q == events[r]
<1>1. q \in Seq(Kinds \X Handlers) /\ Len(q) < Buffer /\ Len(q) \in Nat
  BY DEF TypeOK, Send
<1>2. events' = [events EXCEPT ![r] = Append(q, e)]
  BY DEF Send
<1>3. /\ Append(q, e) \in Seq(Kinds \X Handlers)
      /\ Len(Append(q, e)) = Len(q) + 1
      /\ \A i \in 1..Len(q) : Append(q, e)[i] = q[i]
      /\ Append(q, e)[Len(q) + 1] = e
  BY <1>1, AppendProperties
<1> HIDE DEF q
<1>4. events'[r] = Append(q, e) /\ \A s \in Rooms \ {r} : events'[s] = events[s]
  BY <1>2 DEF TypeOK
<1>5. events' \in [Rooms -> Seq(Kinds \X Handlers)]
  BY <1>2, <1>3 DEF TypeOK
<1>6. ASSUME NEW s \in Rooms PROVE Len(events'[s]) <= Buffer
  <2>1. CASE s # r
    BY <2>1, <1>4 DEF TypeOK
  <2>2. CASE s = r
    <3>1. Len(q) + 1 <= Buffer
      BY <1>1, RegistryAssumption
    <3> QED
      BY <2>2, <3>1, <1>3, <1>4
  <2> QED
    BY <2>1, <2>2
<1>7. ASSUME NEW s \in Rooms, NEW i \in Nat, NEW f
      PROVE  Queued(s, i, f)' <=>
               Queued(s, i, f) \/ (s = r /\ i = Len(events[r]) + 1 /\ f = e)
  <2>1. CASE s # r
    BY <2>1, <1>4 DEF Queued
  <2>2. CASE s = r
    BY <2>2, <1>1, <1>3, <1>4 DEF Queued, q
  <2> QED
    BY <2>1, <2>2
<1> QED
  BY <1>5, <1>6, <1>7

\* Taking the next event shifts the others one place forward.
LEMMA PopQueue ==
  ASSUME TypeOK, NEW r \in Rooms, events[r] # <<>>,
         events' = [events EXCEPT ![r] = Tail(@)]
  PROVE  /\ events' \in [Rooms -> Seq(Kinds \X Handlers)]
         /\ \A s \in Rooms : Len(events'[s]) <= Buffer
         /\ Head(events[r]) \in Kinds \X Handlers
         /\ Queued(r, 1, Head(events[r]))
         /\ \A s \in Rooms \ {r}, i \in Nat : \A f : Queued(s, i, f)' <=> Queued(s, i, f)
         /\ \A i \in Nat : \A f : Queued(r, i, f)' <=> i # 0 /\ Queued(r, i + 1, f)
<1> DEFINE q == events[r]
<1>1. q \in Seq(Kinds \X Handlers) /\ q # <<>> /\ Len(q) \in Nat
  BY DEF TypeOK
<1>2. /\ Head(q) \in Kinds \X Handlers
      /\ Head(q) = q[1]
      /\ Len(q) > 0
      /\ Tail(q) \in Seq(Kinds \X Handlers)
      /\ Len(Tail(q)) = Len(q) - 1
      /\ \A i \in 1..Len(Tail(q)) : Tail(q)[i] = q[i + 1]
  BY <1>1, HeadTailProperties, EmptySeq
<1> HIDE DEF q
<1>3. events'[r] = Tail(q) /\ \A s \in Rooms \ {r} : events'[s] = events[s]
  BY DEF TypeOK, q
<1>4. events' \in [Rooms -> Seq(Kinds \X Handlers)]
  BY <1>2 DEF TypeOK, q
<1>5. \A s \in Rooms : Len(events'[s]) <= Buffer
  BY <1>1, <1>2, <1>3, RegistryAssumption DEF TypeOK, q
<1>6. Queued(r, 1, Head(events[r]))
  BY <1>1, <1>2 DEF Queued, q
<1>7. \A s \in Rooms \ {r}, i \in Nat : \A f : Queued(s, i, f)' <=> Queued(s, i, f)
  BY <1>3 DEF Queued
<1>8. ASSUME NEW i \in Nat, NEW f
      PROVE  Queued(r, i, f)' <=> i # 0 /\ Queued(r, i + 1, f)
  <2>1. Queued(r, i, f)' <=> i \in 1..Len(Tail(q)) /\ Tail(q)[i] = f
    BY <1>3 DEF Queued
  <2>2. Queued(r, i + 1, f) <=> i + 1 \in 1..Len(q) /\ q[i + 1] = f
    BY DEF Queued, q
  <2>3. i # 0 /\ i + 1 \in 1..Len(q) <=> i \in 1..Len(Tail(q))
    BY <1>1, <1>2
  <2> QED
    BY <2>1, <2>2, <2>3, <1>2
<1> QED
  BY <1>2, <1>4, <1>5, <1>6, <1>7, <1>8 DEF q

\* Knows, in terms of places in the queue, now and after a step.
LEMMA KnowsQueued ==
  /\ \A r, p : Knows(r, p) <=> p \in members[r] \/ \E i \in Nat : Queued(r, i, <<"add", p>>)
  /\ \A r, p : Knows(r, p)' <=> p \in members'[r] \/ \E i \in Nat : Queued(r, i, <<"add", p>>)'
BY DEF Knows, Queued

-----------------------------------------------------------------------------
(* Steps that leave the queues alone *)

\* A step of one handler leaves the others alone.
Others(h) ==
  \A k \in Handlers \ {h} :
    pc'[k] = pc[k] /\ ref'[k] = ref[k] /\ reply'[k] = reply[k] /\ result'[k] = result[k]

\* A handler that waits for nothing has no attach queued, nor has it after.
LEMMA KeepsQueueInv ==
  ASSUME IInv, NEW h \in Handlers, Others(h), UNCHANGED events,
         pc[h] \notin {"wait", "returned"}
  PROVE  QueueInv'
<1>1. \A r, i, e : Queued(r, i, e)' <=> Queued(r, i, e)
  BY SameQueue
<1> QED
  BY <1>1 DEF IInv, QueueInv, Others

\* Rooms know whom they knew while no join is answered.
LEMMA KeepsKnownInv ==
  ASSUME IInv, NEW h \in Handlers, Others(h), UNCHANGED <<events, members, life>>,
         result'[h] # "joined"
  PROVE  KnownInv'
<1>1. \A r, i, e : Queued(r, i, e)' <=> Queued(r, i, e)
  BY SameQueue
<1>2. \A r, p : Knows(r, p)' <=> Knows(r, p)
  BY <1>1, KnowsQueued
<1> QED
  BY <1>1, <1>2 DEF IInv, KnownInv, Others, Handlers

\* A step of Get neither touches a room nor waits for one: it ends the request,
\* goes on reading, or takes the registered room.
LEMMA QuietStep ==
  ASSUME IInv, TypeOK', NEW h \in Handlers, Others(h), pc[h] \in Loading,
         UNCHANGED <<mu, registered, ctxDone, reply, life, status, members, events>>,
         \/ pc'[h] \in Loading \ {"join"} /\ ref'[h] \in {ref[h], None} /\ result'[h] = result[h]
         \/ pc'[h] = "returned" /\ ref'[h] = ref[h] /\ result'[h] \in {"notfound", "internal"}
         \/ pc'[h] = "post" /\ registered # None /\ ref'[h] = registered /\ result'[h] = result[h]
  PROVE  IInv'
<1>1. result[h] = "none" /\ reply[h] = "none" /\ life[h] = "unborn"
  BY DEF IInv, AnswerInv, LockInv, Loading
<1>2. OneRoomServes' /\ StopInv'
  BY DEF IInv, OneRoomServes, StopInv
<1>3. LockInv'
  <2>1. mu # h
    BY RegistryAssumption DEF IInv, LockInv, Loading
  <2> QED
    BY <1>1, <2>1 DEF IInv, TypeOK, LockInv, Loading, Others
<1>4. RefInv'
  <2>1. registered # None => registered \in Rooms /\ life[registered] # "unborn"
    BY DEF IInv, TypeOK, LockInv
  <2>2. ASSUME NEW k \in Handlers
        PROVE  /\ pc'[k] = "restore" => ref'[k] = k
               /\ pc'[k] \in Holding => ref'[k] # None
               /\ result'[k] \in {"joined", "open", "unauthorized"} => ref'[k] # None
               /\ ref'[k] # None => life'[ref'[k]] # "unborn"
    <3>1. CASE k # h
      BY <3>1 DEF IInv, RefInv, Others
    <3>2. CASE k = h
      BY <1>1, <2>1, <3>2 DEF IInv, RefInv, Holding, Loading
    <3> QED
      BY <3>1, <3>2
  <2> QED
    BY <2>2 DEF RefInv
<1>5. AnswerInv' /\ AttachedIsTold'
  BY <1>1 DEF IInv, AnswerInv, AttachedIsTold, Others
<1>6. QueueInv'
  BY KeepsQueueInv DEF Loading
<1>7. KnownInv'
  BY <1>1, KeepsKnownInv
<1> QED
  BY <1>2, <1>3, <1>4, <1>5, <1>6, <1>7 DEF IInv

-----------------------------------------------------------------------------
(* Steps that send *)

\* What one step may add to the queues.
LEMMA SendFacts ==
  ASSUME IInv, NEW r \in Rooms, NEW e \in Kinds \X Handlers,
         Send(r, e) \/ UNCHANGED events
  PROVE  /\ events' \in [Rooms -> Seq(Kinds \X Handlers)]
         /\ \A s \in Rooms : Len(events'[s]) <= Buffer
         /\ \A s \in Rooms, i \in Nat : \A f : Queued(s, i, f) => Queued(s, i, f)'
         /\ \A s \in Rooms, i \in Nat : \A f :
              Queued(s, i, f)' => Queued(s, i, f) \/ (s = r /\ i = Len(events[r]) + 1 /\ f = e)
<1>1. CASE Send(r, e)
  BY <1>1, SendQueue DEF IInv
<1>2. CASE UNCHANGED events
  <2>1. \A s, i, f : Queued(s, i, f)' <=> Queued(s, i, f)
    BY <1>2, SameQueue
  <2> QED
    BY <1>2, <2>1 DEF IInv, TypeOK
<1> QED
  BY <1>1, <1>2

\* Every event a handler or a timer sends is one.
LEMMA EventType ==
  \A h \in Handlers, k \in {"restore", "add", "attach", "start", "end"} :
    <<k, h>> \in Kinds \X Handlers
BY DEF Kinds

\* A room knows whom it knew when nothing but an event is added.
LEMMA SendKeepsKnown ==
  ASSUME IInv, UNCHANGED members,
         \A s \in Rooms, i \in Nat : \A f : Queued(s, i, f) => Queued(s, i, f)'
  PROVE  \A s \in Rooms : \A p : Knows(s, p) => Knows(s, p)'
BY KnowsQueued

\* An event that is no attach is queued by a handler that waits for none.
LEMMA SendKeepsQueueInv ==
  ASSUME IInv, NEW h \in Handlers, Others(h), UNCHANGED <<ref, reply>>,
         pc[h] \notin {"wait", "returned"},
         \A s \in Rooms, k \in Handlers, i \in Nat :
           Queued(s, i, <<"attach", k>>)' => Queued(s, i, <<"attach", k>>)
  PROVE  QueueInv'
<1>1. ASSUME NEW s \in Rooms, NEW k \in Handlers, NEW i \in Nat,
             Queued(s, i, <<"attach", k>>)'
      PROVE  /\ ref'[k] = s
             /\ reply'[k] = "none"
             /\ pc'[k] \in {"wait", "returned"}
             /\ \A j \in Nat : Queued(s, j, <<"attach", k>>)' => j = i
  <2>1. Queued(s, i, <<"attach", k>>)
    BY <1>1
  <2>2. k # h
    BY <2>1 DEF IInv, QueueInv
  <2> QED
    BY <2>1, <2>2 DEF IInv, QueueInv, Others
<1> QED
  BY <1>1 DEF QueueInv

-----------------------------------------------------------------------------
\* JoinRoom writes a row and no room.
LEMMA JoinRoomInv == ASSUME IInv, NEW h \in Handlers, JoinRoom(h) PROVE IInv'
<1>a. /\ Others(h) /\ pc[h] = "join"
      /\ UNCHANGED <<mu, registered, ctxDone, reply, life, status, members, events>>
      /\ \/ pc'[h] = "lookup" /\ ref'[h] = ref[h] /\ result'[h] = result[h]
         \/ pc'[h] = "returned" /\ ref'[h] = ref[h] /\ result'[h] = "notfound"
  BY RegistryAssumption DEF IInv, TypeOK, Others, JoinRoom, Goto, ReturnError, Return, db, handlers, room, Rooms, Handlers
<1>1. TypeOK'
  <2>1. h \in Joins
    BY <1>a DEF IInv, LockInv
  <2>2. rows' \subseteq Joins \cup Attaches
    BY <2>1 DEF IInv, TypeOK, JoinRoom, Goto, ReturnError, Return, db, handlers, room, Rooms, Handlers
  <2>3. pc' \in [Handlers -> PCs]
    <3>1. {"lookup", "returned"} \subseteq PCs
      BY DEF PCs
    <3> QED
      BY <3>1 DEF IInv, TypeOK, JoinRoom, Goto, ReturnError, Return
  <2>4. result' \in [Handlers -> {"none", "notfound", "internal", "joined", "open",
                                "unauthorized"}]
    BY DEF IInv, TypeOK, JoinRoom, Goto, ReturnError, Return, db, handlers, room, Rooms, Handlers
  <2> QED
    BY <2>2, <2>3, <2>4 DEF IInv, TypeOK, JoinRoom, db, handlers, room
<1> QED
  BY <1>a, <1>1, QuietStep DEF Loading

\* Lookup hands out the registered room, which runs.
LEMMA LookupInv == ASSUME IInv, NEW h \in Handlers, Lookup(h) PROVE IInv'
<1>a. /\ Others(h) /\ pc[h] = "lookup"
      /\ UNCHANGED <<mu, registered, ctxDone, reply, life, status, members, events>>
      /\ \/ pc'[h] = "post" /\ registered # None /\ ref'[h] = registered /\ result'[h] = result[h]
         \/ pc'[h] = "room" /\ ref'[h] = None /\ result'[h] = result[h]
  BY RegistryAssumption DEF IInv, TypeOK, Others, Lookup, Goto, db, handlers, room, Rooms, Handlers
<1>1. TypeOK'
  BY RegistryAssumption DEF IInv, TypeOK, PCs, Lookup, Goto, db, handlers, room, Rooms
<1> QED
  BY <1>a, <1>1, QuietStep DEF Loading

\* RoomByID only reads.
LEMMA RoomByIDInv == ASSUME IInv, NEW h \in Handlers, RoomByID(h) PROVE IInv'
<1>a. /\ Others(h) /\ pc[h] = "room"
      /\ UNCHANGED <<mu, registered, ctxDone, reply, life, status, members, events>>
      /\ \/ pc'[h] \in {"expire", "players"} /\ ref'[h] = ref[h] /\ result'[h] = result[h]
         \/ pc'[h] = "returned" /\ ref'[h] = ref[h] /\ result'[h] = "notfound"
  BY RegistryAssumption DEF IInv, TypeOK, Others, RoomByID, ReturnError, Return, Goto, db, handlers, room, Rooms, Handlers
<1>1. TypeOK'
  <2>1. CASE dbStatus = "ended"
    <3>1. UNCHANGED seen
      BY <2>1 DEF RoomByID
    <3>2. pc' \in [Handlers -> PCs]
      <4>1. "returned" \in PCs
        BY DEF PCs
      <4> QED
        BY <2>1, <4>1 DEF IInv, TypeOK, RoomByID, ReturnError, Return
    <3>3. result' \in [Handlers -> {"none", "notfound", "internal", "joined", "open",
                                  "unauthorized"}]
      BY <2>1 DEF IInv, TypeOK, RoomByID, ReturnError, Return
    <3> QED
      BY <3>1, <3>2, <3>3 DEF IInv, TypeOK, RoomByID, db, handlers, room
  <2>2. CASE dbStatus # "ended"
    <3>1. seen' = [seen EXCEPT ![h].status = dbStatus] /\ UNCHANGED result
      BY <2>2 DEF RoomByID
    <3>2. dbStatus \in {"lobby", "running"}
      BY <2>2 DEF IInv, TypeOK
    <3>3. seen[h] \in [status : {"lobby", "running"}, players : SUBSET (Joins \cup Attaches)]
      BY DEF IInv, TypeOK
    <3>4. [seen[h] EXCEPT !.status = dbStatus]
            \in [status : {"lobby", "running"}, players : SUBSET (Joins \cup Attaches)]
      BY <3>2, <3>3
    <3>5. seen' \in [Handlers -> [status : {"lobby", "running"},
                                  players : SUBSET (Joins \cup Attaches)]]
      BY <3>1, <3>4 DEF IInv, TypeOK
    <3>6. pc' \in [Handlers -> PCs]
      <4>1. {"expire", "players"} \subseteq PCs
        BY DEF PCs
      <4> QED
        BY <2>2, <4>1 DEF IInv, TypeOK, RoomByID, Goto
    <3> QED
      BY <3>1, <3>5, <3>6 DEF IInv, TypeOK, RoomByID, db, handlers, room
  <2> QED
    BY <2>1, <2>2
<1> QED
  BY <1>a, <1>1, QuietStep DEF Loading

\* EndExpired writes the row alone.
LEMMA EndExpiredInv == ASSUME IInv, NEW h \in Handlers, EndExpired(h) PROVE IInv'
<1>a. /\ Others(h) /\ pc[h] = "expire"
      /\ UNCHANGED <<mu, registered, ctxDone, reply, life, status, members, events>>
      /\ pc'[h] = "returned" /\ ref'[h] = ref[h] /\ result'[h] \in {"notfound", "internal"}
  BY RegistryAssumption DEF IInv, TypeOK, Others, EndExpired, ReturnError, Return, db, handlers, room, Rooms, Handlers
<1>1. TypeOK'
  BY RegistryAssumption DEF IInv, TypeOK, PCs, EndExpired, ReturnError, Return, db, handlers, room, Rooms
<1> QED
  BY <1>a, <1>1, QuietStep DEF Loading

\* PlayersOfRoom only reads.
LEMMA PlayersOfRoomInv == ASSUME IInv, NEW h \in Handlers, PlayersOfRoom(h) PROVE IInv'
<1>a. /\ Others(h) /\ pc[h] = "players"
      /\ UNCHANGED <<mu, registered, ctxDone, reply, life, status, members, events>>
      /\ pc'[h] = "spawn" /\ ref'[h] = ref[h] /\ result'[h] = result[h]
  BY RegistryAssumption DEF IInv, TypeOK, Others, PlayersOfRoom, Goto, db, handlers, room, Rooms, Handlers
<1>1. TypeOK'
  <2> DEFINE r == seen[h]
  <2>0. /\ r \in [status : {"lobby", "running"}, players : SUBSET (Joins \cup Attaches)]
        /\ rows \in SUBSET (Joins \cup Attaches)
    BY DEF IInv, TypeOK
  <2> HIDE DEF r
  <2>1. [r EXCEPT !.players = rows]
          \in [status : {"lobby", "running"}, players : SUBSET (Joins \cup Attaches)]
    BY <2>0
  <2>2. seen' \in [Handlers -> [status : {"lobby", "running"},
                                players : SUBSET (Joins \cup Attaches)]]
    BY <2>1 DEF r, IInv, TypeOK, PlayersOfRoom
  <2>3. pc' \in [Handlers -> PCs]
    BY DEF IInv, TypeOK, PCs, PlayersOfRoom, Goto
  <2> QED
    BY <2>2, <2>3 DEF IInv, TypeOK, PlayersOfRoom, db, handlers, room
<1> QED
  BY <1>a, <1>1, QuietStep DEF Loading

\* A failed read ends the request with no room.
LEMMA GetFailsInv == ASSUME IInv, NEW h \in Handlers, GetFails(h) PROVE IInv'
<1>a. /\ Others(h) /\ pc[h] \in {"room", "expire", "players"}
      /\ UNCHANGED <<mu, registered, ctxDone, reply, life, status, members, events>>
      /\ pc'[h] = "returned" /\ ref'[h] = ref[h] /\ result'[h] \in {"notfound", "internal"}
  BY RegistryAssumption DEF IInv, TypeOK, Others, GetFails, ReturnError, Return, db, handlers, room, Rooms, Handlers
<1>1. TypeOK'
  BY RegistryAssumption DEF IInv, TypeOK, PCs, GetFails, ReturnError, Return, db, handlers, room, Rooms
<1> QED
  BY <1>a, <1>1, QuietStep DEF Loading

\* The second look hands out the registered room.
LEMMA SpawnExistingInv == ASSUME IInv, NEW h \in Handlers, SpawnExisting(h) PROVE IInv'
<1>a. /\ Others(h) /\ pc[h] = "spawn"
      /\ UNCHANGED <<mu, registered, ctxDone, reply, life, status, members, events>>
      /\ pc'[h] = "post" /\ registered # None /\ ref'[h] = registered /\ result'[h] = result[h]
  BY RegistryAssumption DEF IInv, TypeOK, Others, SpawnExisting, MustSpawn, Goto, db, handlers, room, Rooms, Handlers
<1>1. TypeOK'
  BY RegistryAssumption DEF IInv, TypeOK, PCs, NothingSeen, SpawnExisting, MustSpawn, Goto, db, handlers, room, Rooms
<1> QED
  BY <1>a, <1>1, QuietStep DEF Loading

\* A room is spawned under the lock, where no other is registered.
LEMMA SpawnInv == ASSUME IInv, NEW h \in Handlers, Spawn(h) PROVE IInv'
<1>a. /\ Others(h) /\ pc[h] = "spawn" /\ reply' = reply /\ result' = result
      /\ UNCHANGED events
      /\ \A r \in Rooms \ {h} : life'[r] = life[r] /\ members'[r] = members[r]
      /\ life'[h] = "serving" /\ ref'[h] = h
      /\ pc'[h] = "restore"
  BY RegistryAssumption DEF IInv, TypeOK, Others, Spawn, MustSpawn, Goto, db, handlers, room, Rooms, Handlers
<1>1. TypeOK'
  BY RegistryAssumption DEF IInv, TypeOK, PCs, Kinds, NothingSeen, Spawn, MustSpawn, Goto, db, handlers, room, Rooms, Handlers
<1>2. OneRoomServes'
  BY RegistryAssumption DEF IInv, TypeOK, LockInv, OneRoomServes, Spawn, MustSpawn, Goto, db, handlers, room, Rooms, Handlers
<1>3. LockInv'
  BY RegistryAssumption DEF IInv, TypeOK, OneRoomServes, LockInv, Loading, Spawn, MustSpawn, Goto, db, handlers, room, Rooms, Handlers
<1>4. RefInv'
  <2>1. result[h] = "none" /\ life[h] = "unborn"
    BY <1>a DEF IInv, AnswerInv, LockInv, Loading
  <2>2. ASSUME NEW k \in Handlers
        PROVE  /\ pc'[k] = "restore" => ref'[k] = k
               /\ pc'[k] \in Holding => ref'[k] # None
               /\ result'[k] \in {"joined", "open", "unauthorized"} => ref'[k] # None
               /\ ref'[k] # None => life'[ref'[k]] # "unborn"
    <3>1. CASE k # h
      <4>1. ref'[k] # None => ref'[k] \in Rooms \ {h}
        BY <1>a, <2>1, <3>1 DEF IInv, RefInv, TypeOK, Others
      <4> QED
        BY <1>a, <3>1, <4>1 DEF IInv, RefInv, Others
    <3>2. CASE k = h
      <4>1. /\ pc'[k] = "restore" /\ ref'[k] = k
            /\ result'[k] = "none" /\ life'[k] = "serving"
        BY <1>a, <2>1, <3>2
      <4> QED
        BY <4>1, RegistryAssumption DEF Holding
    <3> QED
      BY <3>1, <3>2
  <2> QED
    BY <2>2 DEF RefInv
<1>5. AnswerInv'
  <2>1. result[h] = "none" /\ life[h] = "unborn"
    BY <1>a DEF IInv, AnswerInv, LockInv, Loading
  <2>2. ASSUME NEW k \in Handlers, result[k] = "unauthorized"
        PROVE  reply'[k] = "unknown" \/ life'[ref'[k]] = "done"
    <3>1. k # h /\ ref[k] \in Rooms \ {h}
      BY <2>1, <2>2 DEF IInv, RefInv, TypeOK
    <3> QED
      BY <1>a, <2>2, <3>1 DEF IInv, AnswerInv, Others
  <2> QED
    BY <1>a, <2>1, <2>2 DEF IInv, AnswerInv, Others
<1>6. AttachedIsTold'
  BY <1>a DEF IInv, Others, TypeOK, AnswerInv, AttachedIsTold
<1>7. QueueInv'
  BY <1>a, KeepsQueueInv
<1>8. StopInv'
  BY RegistryAssumption DEF IInv, TypeOK, StopInv, Spawn, MustSpawn, Goto, db, handlers, room, Rooms, Handlers
<1>9. KnownInv'
  <2>1. \A r, i, e : Queued(r, i, e)' <=> Queued(r, i, e)
    BY <1>a, SameQueue
  <2>2. \A r \in Rooms \ {h} : \A p : Knows(r, p)' <=> Knows(r, p)
    BY <1>a, <2>1, KnowsQueued
  <2>3. result[h] = "none" /\ life[h] = "unborn"
    BY <1>a DEF IInv, AnswerInv, LockInv, Loading
  <2>4. ASSUME NEW k \in Joins, result'[k] = "joined", life'[ref'[k]] = "serving"
        PROVE  Knows(ref[k], k)'
    <3>1. k # h /\ ref'[k] = ref[k] /\ result[k] = "joined"
      BY <1>a, <2>3, <2>4, RegistryAssumption DEF Others, Handlers
    <3>2. ref[k] \in Rooms \ {h}
      BY <2>3, <3>1 DEF IInv, RefInv, TypeOK, Handlers, Rooms
    <3>3. life[ref[k]] = "serving"
      BY <1>a, <2>4, <3>1, <3>2
    <3> QED
      BY <2>2, <2>4, <3>1, <3>2, <3>3 DEF IInv, KnownInv
  <2> QED
    BY <2>1, <2>4 DEF IInv, KnownInv
<1> QED
  BY <1>1, <1>2, <1>3, <1>4, <1>5, <1>6, <1>7, <1>8, <1>9 DEF IInv

\* The spawned room is registered as the lock is released.
LEMMA RestoreInv == ASSUME IInv, NEW h \in Handlers, Restore(h) PROVE IInv'
<1>a. /\ Others(h) /\ pc[h] = "restore" /\ UNCHANGED <<ref, reply, result, members, life>>
      /\ pc'[h] = "post"
      /\ \/ Send(h, <<"restore", h>>)
         \/ UNCHANGED events
  BY RegistryAssumption DEF IInv, TypeOK, Others, Restore, Closed, Goto, db, handlers, room, Rooms, Handlers
<1>b. /\ h \in Rooms /\ <<"restore", h>> \in Kinds \X Handlers
      /\ events' \in [Rooms -> Seq(Kinds \X Handlers)]
      /\ \A s \in Rooms : Len(events'[s]) <= Buffer
      /\ \A s \in Rooms, i \in Nat : \A f : Queued(s, i, f) => Queued(s, i, f)'
      /\ \A s \in Rooms, i \in Nat : \A f : Queued(s, i, f)' =>
           Queued(s, i, f) \/ (s = h /\ i = Len(events[h]) + 1 /\ f = <<"restore", h>>)
  <2>1. h \in Rooms
    BY DEF Rooms
  <2>2. <<"restore", h>> \in Kinds \X Handlers
    BY EventType
  <2> QED
    BY <1>a, <2>1, <2>2, SendFacts
<1>1. TypeOK'
  <2>1. pc' \in [Handlers -> PCs]
    <3>1. {"post"} \subseteq PCs
      BY DEF PCs
    <3> QED
      BY <3>1 DEF IInv, TypeOK, Restore, Closed, Goto
  <2>2. result' \in [Handlers -> {"none", "notfound", "internal", "joined", "open",
                                "unauthorized"}]
    BY DEF IInv, TypeOK, Restore, Closed, Goto
  <2> QED
    BY <1>b, <2>1, <2>2 DEF IInv, TypeOK, Restore, db, handlers, room, Rooms
<1>2. OneRoomServes'
  BY RegistryAssumption DEF IInv, TypeOK, LockInv, OneRoomServes, Restore, Closed, Goto, db, handlers, room, Rooms, Handlers
<1>3. LockInv'
  BY RegistryAssumption DEF IInv, TypeOK, OneRoomServes, LockInv, Loading, Restore, Closed, Goto, db, handlers, room, Rooms, Handlers
<1>4. RefInv'
  <2>1. result[h] = "none" /\ ref[h] = h
    BY <1>a DEF IInv, AnswerInv, RefInv
  <2>2. h # None /\ life[h] # "unborn"
    BY <2>1, RegistryAssumption DEF IInv, RefInv
  <2>3. ASSUME NEW k \in Handlers
        PROVE  /\ pc'[k] = "restore" => ref'[k] = k
               /\ pc'[k] \in Holding => ref'[k] # None
               /\ result'[k] \in {"joined", "open", "unauthorized"} => ref'[k] # None
               /\ ref'[k] # None => life'[ref'[k]] # "unborn"
    <3>1. CASE k # h
      BY <1>a, <3>1 DEF IInv, RefInv, Others
    <3>2. CASE k = h
      BY <1>a, <2>1, <2>2, <3>2 DEF Holding
    <3> QED
      BY <3>1, <3>2
  <2> QED
    BY <2>3 DEF RefInv
<1>5. AnswerInv'
  BY <1>a DEF IInv, Others, AnswerInv
<1>6. AttachedIsTold'
  BY <1>a DEF IInv, Others, TypeOK, AnswerInv, AttachedIsTold
<1>7. QueueInv'
  <2>1. \A k \in Handlers : <<"attach", k>> # <<"restore", h>>
    BY <1>a
  <2>2. \A s \in Rooms, k \in Handlers, i \in Nat :
          Queued(s, i, <<"attach", k>>)' => Queued(s, i, <<"attach", k>>)
    BY <1>b, <2>1
  <2> QED
    BY <1>a, <2>2, SendKeepsQueueInv
<1>8. StopInv'
  BY RegistryAssumption DEF IInv, TypeOK, StopInv, Restore, Closed, Goto, db, handlers, room, Rooms, Handlers
<1>9. KnownInv'
  <2>1. \A s \in Rooms : \A p : Knows(s, p) => Knows(s, p)'
    BY <1>a, <1>b, SendKeepsKnown
  <2>2. \A k \in Joins : ref[k] # None => ref[k] \in Rooms
    BY DEF IInv, TypeOK, Handlers
  <2>3. \A k \in Joins : result[k] = "joined" => ref[k] # None
    BY DEF IInv, RefInv, Handlers
  <2> QED
    BY <1>a, <1>b, <2>1, <2>2, <2>3 DEF IInv, KnownInv, Others, Handlers
<1> QED
  BY <1>1, <1>2, <1>3, <1>4, <1>5, <1>6, <1>7, <1>8, <1>9 DEF IInv

\* A join is answered once its player is queued, or the room is gone.
LEMMA PostJoinInv == ASSUME IInv, NEW h \in Handlers, PostJoin(h) PROVE IInv'
<1>a. /\ Others(h) /\ pc[h] = "post" /\ h \in Joins /\ UNCHANGED <<ref, reply, members, life>>
      /\ pc'[h] = "returned" /\ result'[h] = "joined"
      /\ \/ Send(ref[h], <<"add", h>>)
         \/ life[ref[h]] = "done" /\ UNCHANGED events
  BY RegistryAssumption DEF IInv, TypeOK, Others, PostJoin, Closed, Return, db, handlers, room, Rooms, Handlers
<1>b. /\ ref[h] \in Rooms /\ <<"add", h>> \in Kinds \X Handlers
      /\ events' \in [Rooms -> Seq(Kinds \X Handlers)]
      /\ \A s \in Rooms : Len(events'[s]) <= Buffer
      /\ \A s \in Rooms, i \in Nat : \A f : Queued(s, i, f) => Queued(s, i, f)'
      /\ \A s \in Rooms, i \in Nat : \A f : Queued(s, i, f)' =>
           Queued(s, i, f) \/ (s = ref[h] /\ i = Len(events[ref[h]]) + 1 /\ f = <<"add", h>>)
  <2>1. ref[h] \in Rooms
    BY <1>a DEF IInv, RefInv, TypeOK, Holding, Rooms
  <2>2. <<"add", h>> \in Kinds \X Handlers
    BY EventType
  <2> QED
    BY <1>a, <2>1, <2>2, SendFacts
<1>1. TypeOK'
  <2>1. pc' \in [Handlers -> PCs]
    <3>1. {"returned"} \subseteq PCs
      BY DEF PCs
    <3> QED
      BY <3>1 DEF IInv, TypeOK, PostJoin, Closed, Return
  <2>2. result' \in [Handlers -> {"none", "notfound", "internal", "joined", "open",
                                "unauthorized"}]
    BY DEF IInv, TypeOK, PostJoin, Closed, Return
  <2> QED
    BY <1>b, <2>1, <2>2 DEF IInv, TypeOK, PostJoin, db, handlers, room, Rooms
<1>2. OneRoomServes'
  BY RegistryAssumption DEF IInv, TypeOK, LockInv, OneRoomServes, PostJoin, Closed, Return, db, handlers, room, Rooms, Handlers
<1>3. LockInv'
  BY RegistryAssumption DEF IInv, TypeOK, OneRoomServes, LockInv, Loading, PostJoin, Closed, Return, db, handlers, room, Rooms, Handlers
<1>4. RefInv'
  BY <1>a DEF IInv, Others, TypeOK, LockInv, RefInv, AnswerInv, Holding, Loading
<1>5. AnswerInv'
  BY <1>a DEF IInv, Others, AnswerInv
<1>6. AttachedIsTold'
  BY <1>a DEF IInv, Others, TypeOK, AnswerInv, AttachedIsTold
<1>7. QueueInv'
  <2>1. \A k \in Handlers : <<"attach", k>> # <<"add", h>>
    BY <1>a
  <2>2. \A s \in Rooms, k \in Handlers, i \in Nat :
          Queued(s, i, <<"attach", k>>)' => Queued(s, i, <<"attach", k>>)
    BY <1>b, <2>1
  <2> QED
    BY <1>a, <2>2, SendKeepsQueueInv
<1>8. StopInv'
  BY RegistryAssumption DEF IInv, TypeOK, StopInv, PostJoin, Closed, Return, db, handlers, room, Rooms, Handlers
<1>9. KnownInv'
  <2>1. \A s \in Rooms : \A p : Knows(s, p) => Knows(s, p)'
    BY <1>a, <1>b, SendKeepsKnown
  <2>2. ASSUME NEW k \in Joins, result'[k] = "joined", life'[ref'[k]] = "serving"
        PROVE  Knows(ref[k], k)'
    <3>1. CASE k = h
      <4>1. Send(ref[h], <<"add", h>>)
        BY <1>a, <2>2, <3>1
      <4>2. PICK s \in Rooms, n \in Nat : s = ref[h] /\ n = Len(events[ref[h]]) + 1
        BY <1>b DEF IInv, TypeOK
      <4>3. Queued(s, n, <<"add", h>>)'
        BY <1>b, <4>1, <4>2, SendQueue DEF IInv
      <4>4. Knows(s, h)'
        BY <4>3, KnowsQueued
      <4> QED
        BY <1>a, <3>1, <4>2, <4>4
    <3>2. CASE k # h
      <4>1. result[k] = "joined" /\ ref'[k] = ref[k] /\ life[ref[k]] = "serving"
        BY <1>a, <2>2, <3>2 DEF Others, Handlers
      <4>2. ref[k] \in Rooms
        BY <4>1 DEF IInv, RefInv, TypeOK, Handlers
      <4> QED
        BY <2>1, <4>1, <4>2 DEF IInv, KnownInv
    <3> QED
      BY <3>1, <3>2
  <2>3. \A s \in Rooms, k \in Handlers, i \in Nat : Queued(s, i, <<"add", k>>)' => k \in Joins
    BY <1>a, <1>b DEF IInv, KnownInv
  <2> QED
    BY <1>a, <2>2, <2>3 DEF KnownInv
<1> QED
  BY <1>1, <1>2, <1>3, <1>4, <1>5, <1>6, <1>7, <1>8, <1>9 DEF IInv

\* An attach is queued once, by a handler that then waits.
LEMMA PostAttachInv == ASSUME IInv, NEW h \in Handlers, PostAttach(h) PROVE IInv'
<1>a. /\ Others(h) /\ pc[h] = "post" /\ UNCHANGED <<ref, reply, members, life>>
      /\ \/ Send(ref[h], <<"attach", h>>) /\ pc'[h] = "wait" /\ result'[h] = result[h]
         \/ life[ref[h]] = "done" /\ UNCHANGED events
            /\ pc'[h] = "returned" /\ result'[h] = "unauthorized"
  BY RegistryAssumption DEF IInv, TypeOK, Others, PostAttach, Closed, Return, Goto, db, handlers, room, Rooms, Handlers
<1>b. /\ ref[h] \in Rooms /\ <<"attach", h>> \in Kinds \X Handlers
      /\ events' \in [Rooms -> Seq(Kinds \X Handlers)]
      /\ \A s \in Rooms : Len(events'[s]) <= Buffer
      /\ \A s \in Rooms, i \in Nat : \A f : Queued(s, i, f) => Queued(s, i, f)'
      /\ \A s \in Rooms, i \in Nat : \A f : Queued(s, i, f)' =>
           Queued(s, i, f) \/ (s = ref[h] /\ i = Len(events[ref[h]]) + 1 /\ f = <<"attach", h>>)
  <2>1. ref[h] \in Rooms
    BY <1>a DEF IInv, RefInv, TypeOK, Holding, Rooms
  <2>2. <<"attach", h>> \in Kinds \X Handlers
    BY EventType
  <2> QED
    BY <1>a, <2>1, <2>2, SendFacts
<1>1. TypeOK'
  <2>1. pc' \in [Handlers -> PCs]
    <3>1. "wait" \in PCs /\ "returned" \in PCs
      BY DEF PCs
    <3>2. pc' = [pc EXCEPT ![h] = "wait"] \/ pc' = [pc EXCEPT ![h] = "returned"]
      BY DEF PostAttach, Return, Goto
    <3>3. pc \in [Handlers -> PCs]
      BY DEF IInv, TypeOK
    <3> QED
      BY ONLY <3>1, <3>2, <3>3
  <2>2. result' \in [Handlers -> {"none", "notfound", "internal", "joined", "open",
                                "unauthorized"}]
    BY DEF IInv, TypeOK, PostAttach, Closed, Return, Goto
  <2> QED
    BY <1>b, <2>1, <2>2 DEF IInv, TypeOK, PostAttach, db, handlers, room, Rooms
<1>2. OneRoomServes'
  BY RegistryAssumption DEF IInv, TypeOK, LockInv, OneRoomServes, PostAttach, Closed, Return, Goto, db, handlers, room, Rooms, Handlers
<1>3. LockInv'
  BY RegistryAssumption DEF IInv, TypeOK, OneRoomServes, LockInv, Loading, PostAttach, Closed, Return, Goto, db, handlers, room, Rooms, Handlers
<1>4. RefInv'
  BY <1>a DEF IInv, Others, TypeOK, LockInv, RefInv, AnswerInv, Holding, Loading
<1>5. AnswerInv'
  BY <1>a DEF IInv, Others, AnswerInv
<1>6. AttachedIsTold'
  BY <1>a DEF IInv, Others, TypeOK, AnswerInv, AttachedIsTold
<1>7. QueueInv'
  <2>1. ASSUME NEW s \in Rooms, NEW k \in Handlers, NEW i \in Nat,
               Queued(s, i, <<"attach", k>>)'
        PROVE  /\ ref'[k] = s
               /\ reply'[k] = "none"
               /\ pc'[k] \in {"wait", "returned"}
               /\ \A j \in Nat : Queued(s, j, <<"attach", k>>)' => j = i
    <3>1. CASE Queued(s, i, <<"attach", k>>)
      <4>1. k # h
        BY <1>a, <3>1 DEF IInv, QueueInv
      <4> QED
        BY <1>a, <1>b, <3>1, <4>1 DEF IInv, QueueInv, Others
    <3>2. CASE ~Queued(s, i, <<"attach", k>>)
      <4>1. k = h /\ s = ref[h] /\ i = Len(events[ref[h]]) + 1
        BY <1>b, <2>1, <3>2
      <4>2. \A t \in Rooms, j \in Nat : ~Queued(t, j, <<"attach", h>>)
        BY <1>a DEF IInv, QueueInv
      <4>3. reply[h] = "none"
        BY <1>a DEF IInv, AnswerInv
      <4>4. pc'[h] = "wait"
        <5>1. CASE UNCHANGED events
          <6>1. \A t, j, f : Queued(t, j, f)' <=> Queued(t, j, f)
            BY <5>1, SameQueue
          <6> QED
            BY <2>1, <3>2, <6>1
        <5> QED
          BY <1>a, <5>1
      <4> QED
        BY <1>a, <1>b, <4>1, <4>2, <4>3, <4>4
    <3> QED
      BY <3>1, <3>2
  <2> QED
    BY <2>1 DEF QueueInv
<1>8. StopInv'
  BY RegistryAssumption DEF IInv, TypeOK, StopInv, PostAttach, Closed, Return, Goto, db, handlers, room, Rooms, Handlers
<1>9. KnownInv'
  <2>1. \A s \in Rooms : \A p : Knows(s, p) => Knows(s, p)'
    BY <1>a, <1>b, SendKeepsKnown
  <2>2. \A k \in Joins : ref[k] # None => ref[k] \in Rooms
    BY DEF IInv, TypeOK, Handlers
  <2>3. \A k \in Joins : result[k] = "joined" => ref[k] # None
    BY DEF IInv, RefInv, Handlers
  <2> QED
    BY <1>a, <1>b, <2>1, <2>2, <2>3 DEF IInv, KnownInv, Others, Handlers
<1> QED
  BY <1>1, <1>2, <1>3, <1>4, <1>5, <1>6, <1>7, <1>8, <1>9 DEF IInv

\* A reply wins over a closed room.
LEMMA AwaitInv == ASSUME IInv, NEW h \in Handlers, Await(h) PROVE IInv'
<1>a. /\ Others(h) /\ pc[h] = "wait" /\ ref' = ref /\ reply' = reply
      /\ UNCHANGED <<events, members, life>>
      /\ \/ reply[h] = "ok" /\ pc'[h] = "command" /\ result'[h] = result[h]
         \/ reply[h] = "ok" /\ pc'[h] = "returned" /\ result'[h] = "open"
         \/ reply[h] = "unknown" /\ pc'[h] = "returned" /\ result'[h] = "unauthorized"
         \/ reply[h] = "none" /\ life[ref[h]] = "done"
            /\ pc'[h] = "returned" /\ result'[h] = "unauthorized"
  BY RegistryAssumption DEF IInv, TypeOK, Others, Await, Return, Goto, Unanswered, Closed, db, handlers, room, Rooms, Handlers
<1>1. TypeOK'
  <2>1. UNCHANGED <<db, mu, registered, ctxDone, seen, ref, reply, room>>
    BY DEF Await
  <2>2. /\ pc' \in [Handlers -> PCs]
        /\ result' \in [Handlers -> {"none", "notfound", "internal", "joined", "open",
                                     "unauthorized"}]
    BY DEF IInv, TypeOK, PCs, Await, Return, Goto
  <2> QED
    BY <2>1, <2>2 DEF IInv, TypeOK, db, room
<1>2. OneRoomServes'
  BY RegistryAssumption DEF IInv, TypeOK, LockInv, OneRoomServes, Await, Return, Goto, Unanswered, Closed, db, handlers, room, Rooms, Handlers
<1>3. LockInv'
  BY RegistryAssumption DEF IInv, TypeOK, OneRoomServes, LockInv, Loading, Await, Return, Goto, Unanswered, Closed, db, handlers, room, Rooms, Handlers
<1>4. RefInv'
  BY <1>a DEF IInv, Others, TypeOK, LockInv, RefInv, AnswerInv, Holding, Loading
<1>5. AnswerInv'
  BY <1>a DEF IInv, Others, AnswerInv
<1>6. AttachedIsTold'
  BY <1>a DEF IInv, Others, TypeOK, AnswerInv, AttachedIsTold
<1>7. QueueInv'
  <2>1. \A r, i, e : Queued(r, i, e)' <=> Queued(r, i, e)
    BY <1>a, SameQueue
  <2> QED
    BY <1>a, <2>1 DEF IInv, QueueInv, Others
<1>8. StopInv'
  BY RegistryAssumption DEF IInv, TypeOK, StopInv, Await, Return, Goto, Unanswered, Closed, db, handlers, room, Rooms, Handlers
<1>9. KnownInv'
  BY <1>a, KeepsKnownInv DEF IInv, AnswerInv
<1> QED
  BY <1>1, <1>2, <1>3, <1>4, <1>5, <1>6, <1>7, <1>8, <1>9 DEF IInv

\* A command of the host adds an event that replies to nobody.
LEMMA CommandInv == ASSUME IInv, NEW h \in Handlers, Command(h) PROVE IInv'
<1>a. /\ Others(h) /\ pc[h] = "command" /\ UNCHANGED <<ref, reply, members, life>>
      /\ pc'[h] = "returned" /\ result'[h] = "open"
      /\ \E c \in {"start", "end"} : Send(ref[h], <<c, h>>) \/ UNCHANGED events
  BY RegistryAssumption DEF IInv, TypeOK, Others, Command, Closed, Return, db, handlers, room, Rooms, Handlers
<1>c. PICK c \in {"start", "end"} : Send(ref[h], <<c, h>>) \/ UNCHANGED events
  BY <1>a
<1>b. /\ ref[h] \in Rooms /\ <<c, h>> \in Kinds \X Handlers
      /\ events' \in [Rooms -> Seq(Kinds \X Handlers)]
      /\ \A s \in Rooms : Len(events'[s]) <= Buffer
      /\ \A s \in Rooms, i \in Nat : \A f : Queued(s, i, f) => Queued(s, i, f)'
      /\ \A s \in Rooms, i \in Nat : \A f : Queued(s, i, f)' =>
           Queued(s, i, f) \/ (s = ref[h] /\ i = Len(events[ref[h]]) + 1 /\ f = <<c, h>>)
  <2>1. ref[h] \in Rooms
    BY <1>a DEF IInv, RefInv, TypeOK, Holding, Rooms
  <2>2. <<c, h>> \in Kinds \X Handlers
    BY EventType
  <2> QED
    BY <1>a, <1>c, <2>1, <2>2, SendFacts
<1>1. TypeOK'
  <2>1. pc' \in [Handlers -> PCs]
    <3>1. {"returned"} \subseteq PCs
      BY DEF PCs
    <3> QED
      BY <3>1 DEF IInv, TypeOK, Command, Closed, Return
  <2>2. result' \in [Handlers -> {"none", "notfound", "internal", "joined", "open",
                                "unauthorized"}]
    BY DEF IInv, TypeOK, Command, Closed, Return
  <2> QED
    BY <1>b, <2>1, <2>2 DEF IInv, TypeOK, Command, db, handlers, room, Rooms
<1>2. OneRoomServes'
  BY RegistryAssumption DEF IInv, TypeOK, LockInv, OneRoomServes, Command, Closed, Return, db, handlers, room, Rooms, Handlers
<1>3. LockInv'
  BY RegistryAssumption DEF IInv, TypeOK, OneRoomServes, LockInv, Loading, Command, Closed, Return, db, handlers, room, Rooms, Handlers
<1>4. RefInv'
  BY <1>a DEF IInv, Others, TypeOK, LockInv, RefInv, AnswerInv, Holding, Loading
<1>5. AnswerInv'
  BY <1>a DEF IInv, Others, AnswerInv
<1>6. AttachedIsTold'
  BY <1>a DEF IInv, Others, TypeOK, AnswerInv, AttachedIsTold
<1>7. QueueInv'
  <2>1. \A k \in Handlers : <<"attach", k>> # <<c, h>>
    BY <1>a, <1>c
  <2>2. \A s \in Rooms, k \in Handlers, i \in Nat :
          Queued(s, i, <<"attach", k>>)' => Queued(s, i, <<"attach", k>>)
    BY <1>b, <2>1
  <2> QED
    BY <1>a, <2>2, SendKeepsQueueInv
<1>8. StopInv'
  BY RegistryAssumption DEF IInv, TypeOK, StopInv, Command, Closed, Return, db, handlers, room, Rooms, Handlers
<1>9. KnownInv'
  <2>1. \A s \in Rooms : \A p : Knows(s, p) => Knows(s, p)'
    BY <1>a, <1>b, SendKeepsKnown
  <2>2. \A k \in Joins : ref[k] # None => ref[k] \in Rooms
    BY DEF IInv, TypeOK, Handlers
  <2>3. \A k \in Joins : result[k] = "joined" => ref[k] # None
    BY DEF IInv, RefInv, Handlers
  <2>4. \A k \in Joins : result'[k] = "joined" => result[k] = "joined"
    BY <1>a DEF Others, Handlers
  <2>5. \A k \in Handlers : <<"add", k>> # <<c, h>>
    BY <1>c
  <2>6. \A s \in Rooms, k \in Handlers, i \in Nat : Queued(s, i, <<"add", k>>)' => k \in Joins
    BY <1>b, <2>5 DEF IInv, KnownInv
  <2>7. ASSUME NEW k \in Joins, result'[k] = "joined", life'[ref'[k]] = "serving"
        PROVE  Knows(ref[k], k)'
    BY <1>a, <2>1, <2>2, <2>3, <2>4, <2>7 DEF IInv, KnownInv
  <2> QED
    BY <2>6, <2>7 DEF KnownInv
<1> QED
  BY <1>1, <1>2, <1>3, <1>4, <1>5, <1>6, <1>7, <1>8, <1>9 DEF IInv

\* The event that runs moves from the queue into the room's state.
LEMMA RunNextInv == ASSUME IInv, NEW r \in Rooms, RunNext(r) PROVE IInv'
<1>a. /\ life[r] = "serving" /\ events[r] # <<>>
      /\ events' = [events EXCEPT ![r] = Tail(@)]
      /\ UNCHANGED <<rows, mu, registered, ctxDone, pc, seen, ref, result>>
      /\ LET e == Head(events[r]) IN
           RunAdd(r, e[1], e[2]) \/ RunAttach(r, e[1], e[2]) \/ RunStart(r, e[1]) \/ RunEnd(r, e[1])
  BY RegistryAssumption DEF IInv, TypeOK, Others, RunNext, RunAdd, RunAttach, RunStart, RunEnd, EndSession, LeaveLoop, db, handlers, room, Rooms, Handlers
<1> DEFINE e == Head(events[r])
<1>b. /\ events' \in [Rooms -> Seq(Kinds \X Handlers)]
      /\ \A s \in Rooms : Len(events'[s]) <= Buffer
      /\ e \in Kinds \X Handlers
      /\ Queued(r, 1, e)
      /\ \A s \in Rooms \ {r}, i \in Nat : \A f : Queued(s, i, f)' <=> Queued(s, i, f)
      /\ \A i \in Nat : \A f : Queued(r, i, f)' <=> i # 0 /\ Queued(r, i + 1, f)
  BY <1>a, PopQueue DEF IInv
<1>c. e = <<e[1], e[2]>> /\ e[1] \in Kinds /\ e[2] \in Handlers
  BY <1>b
<1>d. e[1] = "add" => e[2] \in Joins
  BY <1>b, <1>c DEF IInv, KnownInv
<1>e. RunAdd(r, e[1], e[2]) \/ RunAttach(r, e[1], e[2]) \/ RunStart(r, e[1]) \/ RunEnd(r, e[1])
  BY <1>a
<1> HIDE DEF e
<1>f. /\ \A s \in Rooms \ {r} : life'[s] = life[s] /\ status'[s] = status[s]
      /\ life'[r] = "serving" \/ (life'[r] = "stopping" /\ status'[r] = "ended")
  <2>1. CASE RunAdd(r, e[1], e[2]) \/ RunStart(r, e[1])
    BY <1>a, <2>1 DEF IInv, TypeOK, RunAdd, RunStart
  <2>2. CASE RunAttach(r, e[1], e[2])
    BY <1>a, <2>2 DEF IInv, TypeOK, RunAttach, EndSession, LeaveLoop
  <2>3. CASE RunEnd(r, e[1])
    BY <1>a, <2>3 DEF IInv, TypeOK, RunEnd, EndSession, LeaveLoop
  <2> QED
    BY <1>e, <2>1, <2>2, <2>3
<1>g. /\ \A s \in Rooms : life'[s] = "serving" => members[s] \subseteq members'[s]
      /\ e[1] = "add" => e[2] \in members'[r]
  <2>1. CASE RunAdd(r, e[1], e[2])
    <3>1. members' = [members EXCEPT ![r] = IF e[1] = "add" THEN @ \cup {e[2]} ELSE @]
      BY <2>1 DEF RunAdd
    <3> QED
      BY <3>1 DEF IInv, TypeOK
  <2>2. CASE RunAttach(r, e[1], e[2]) \/ RunEnd(r, e[1])
    <3>1. /\ e[1] # "add"
          /\ \/ members' = members
             \/ LeaveLoop(r)
      BY <2>2 DEF RunAttach, RunEnd, EndSession
    <3>2. LeaveLoop(r) => life'[r] = "stopping" /\ \A s \in Rooms \ {r} : members'[s] = members[s]
      BY DEF IInv, TypeOK, LeaveLoop
    <3> QED
      BY <3>1, <3>2
  <2>3. CASE RunStart(r, e[1])
    BY <2>3 DEF RunStart
  <2> QED
    BY <1>e, <2>1, <2>2, <2>3
<1>h. \A k \in Handlers :
        \/ reply'[k] = reply[k]
        \/ e = <<"attach", k>> /\ reply'[k] \in {"ok", "unknown"}
  BY <1>c, <1>e DEF IInv, TypeOK, RunAdd, RunAttach, RunStart, RunEnd
<1>i. \A k \in Handlers : e = <<"attach", k>> =>
        ref[k] = r /\ reply[k] = "none" /\ pc[k] \in {"wait", "returned"}
  BY <1>b DEF IInv, QueueInv
<1>1. TypeOK'
  <2>1. dbStatus' \in {"lobby", "running", "ended"} /\ overdue' \in BOOLEAN
    BY <1>e DEF IInv, TypeOK, RunAdd, RunAttach, RunStart, RunEnd, EndSession
  <2>2. reply' \in [Handlers -> {"none", "ok", "unknown"}]
    BY <1>e DEF IInv, TypeOK, RunAdd, RunAttach, RunStart, RunEnd
  <2>3. life' \in [Rooms -> {"unborn", "serving", "stopping", "forgotten", "done"}]
    BY <1>e DEF IInv, TypeOK, RunAdd, RunAttach, RunStart, RunEnd, EndSession, LeaveLoop
  <2>4. status' \in [Rooms -> {"lobby", "running", "ended"}]
    <3>1. CASE RunAdd(r, e[1], e[2]) \/ RunStart(r, e[1])
      BY <3>1 DEF IInv, TypeOK, RunAdd, RunStart
    <3>2. CASE RunAttach(r, e[1], e[2]) \/ RunEnd(r, e[1])
      <4>1. UNCHANGED status \/ status' = [status EXCEPT ![r] = "ended"]
        BY <3>2 DEF RunAttach, RunEnd, EndSession
      <4> QED
        BY <4>1 DEF IInv, TypeOK
    <3> QED
      BY <1>e, <3>1, <3>2
  <2>5. armed' \in [Rooms -> BOOLEAN]
    BY <1>e DEF IInv, TypeOK, RunAdd, RunAttach, RunStart, RunEnd, EndSession, LeaveLoop
  <2>6. members' \in [Rooms -> SUBSET (Joins \cup Attaches)]
    <3>1. CASE RunAdd(r, e[1], e[2])
      <4>1. members' = [members EXCEPT ![r] = IF e[1] = "add" THEN @ \cup {e[2]} ELSE @]
        BY <3>1 DEF RunAdd
      <4> QED
        BY <1>d, <4>1 DEF IInv, TypeOK
    <3>2. CASE RunAttach(r, e[1], e[2]) \/ RunStart(r, e[1]) \/ RunEnd(r, e[1])
      <4>1. members' = members \/ members' = [members EXCEPT ![r] = {}]
        BY <3>2 DEF RunAttach, RunStart, RunEnd, EndSession, LeaveLoop
      <4> QED
        BY <4>1 DEF IInv, TypeOK
    <3> QED
      BY <1>e, <3>1, <3>2
  <2> QED
    BY <1>a, <1>b, <2>1, <2>2, <2>3, <2>4, <2>5, <2>6 DEF IInv, TypeOK
<1>2. OneRoomServes'
  BY <1>a, <1>f DEF IInv, OneRoomServes
<1>3. LockInv'
  <2>1. mu' = mu /\ registered' = registered /\ pc' = pc
    BY <1>a
  <2>2. \A s \in Rooms : life[s] \in {"serving", "stopping"} => life'[s] \in {"serving", "stopping"}
    BY <1>f
  <2>3. \A s \in Rooms : life[s] = "unborn" => life'[s] = "unborn"
    BY <1>a, <1>f
  <2>4. (mu # None => mu \in Rooms) /\ (registered # None => registered \in Rooms)
    BY DEF IInv, TypeOK, Rooms
  <2> QED
    BY <2>1, <2>2, <2>3, <2>4 DEF IInv, LockInv, Rooms
<1>4. RefInv'
  BY <1>a, <1>f DEF IInv, TypeOK, RefInv
<1>5. AnswerInv'
  <2>1. \A k \in Handlers : reply'[k] # "none" => pc'[k] \in {"wait", "command", "returned"}
    BY <1>a, <1>h, <1>i DEF IInv, AnswerInv
  <2>2. ASSUME NEW k \in Handlers, result[k] = "unauthorized"
        PROVE  reply'[k] = "unknown" \/ life'[ref'[k]] = "done"
    <3>1. e # <<"attach", k>>
      BY <1>a, <1>i, <2>2 DEF IInv, AnswerInv
    <3>2. ref[k] \in Rooms
      BY <2>2 DEF IInv, RefInv, TypeOK
    <3> QED
      BY <1>a, <1>f, <1>h, <2>2, <3>1, <3>2 DEF IInv, AnswerInv
  <2> QED
    BY <1>a, <2>1, <2>2 DEF IInv, AnswerInv
<1>6. AttachedIsTold'
  <2>1. ASSUME NEW k \in Handlers, reply'[k] = "ok"
        PROVE  result[k] # "unauthorized"
    <3>1. CASE reply'[k] = reply[k]
      BY <2>1, <3>1 DEF IInv, AttachedIsTold
    <3>2. CASE e = <<"attach", k>>
      BY <1>a, <1>i, <3>2 DEF IInv, AnswerInv
    <3> QED
      BY <1>h, <3>1, <3>2
  <2> QED
    BY <1>a, <2>1 DEF AttachedIsTold
<1>7. QueueInv'
  <2>1. ASSUME NEW s \in Rooms, NEW k \in Handlers, NEW i \in Nat,
               Queued(s, i, <<"attach", k>>)'
        PROVE  /\ ref'[k] = s
               /\ reply'[k] = "none"
               /\ pc'[k] \in {"wait", "returned"}
               /\ \A j \in Nat : Queued(s, j, <<"attach", k>>)' => j = i
    <3>1. CASE s = r
      <4>1. i # 0 /\ i + 1 \in Nat /\ Queued(r, i + 1, <<"attach", k>>)
        BY <1>b, <2>1, <3>1
      <4>2. /\ ref[k] = r /\ reply[k] = "none" /\ pc[k] \in {"wait", "returned"}
            /\ \A j \in Nat : Queued(r, j, <<"attach", k>>) => j = i + 1
        BY <4>1 DEF IInv, QueueInv
      <4>3. e # <<"attach", k>>
        <5>1. Queued(r, 1, <<"attach", k>>) => 1 = i + 1
          BY <4>2
        <5>2. 1 # i + 1
          BY <4>1
        <5> QED
          BY <1>b, <5>1, <5>2
      <4>4. ASSUME NEW j \in Nat, Queued(r, j, <<"attach", k>>)'
            PROVE  j = i
        <5>1. j + 1 \in Nat /\ Queued(r, j + 1, <<"attach", k>>)
          BY <1>b, <4>4
        <5>2. j + 1 = i + 1
          BY <4>2, <5>1
        <5> QED
          BY <5>2
      <4>5. reply'[k] = "none"
        BY <1>h, <4>2, <4>3
      <4> QED
        BY <1>a, <3>1, <4>2, <4>4, <4>5
    <3>2. CASE s # r
      <4>1. Queued(s, i, <<"attach", k>>)
        BY <1>b, <2>1, <3>2
      <4>2. /\ ref[k] = s /\ reply[k] = "none" /\ pc[k] \in {"wait", "returned"}
            /\ \A j \in Nat : Queued(s, j, <<"attach", k>>) => j = i
        BY <4>1 DEF IInv, QueueInv
      <4>3. e # <<"attach", k>>
        BY <1>i, <3>2, <4>2
      <4> QED
        BY <1>a, <1>b, <1>h, <3>2, <4>2, <4>3
    <3> QED
      BY <3>1, <3>2
  <2> QED
    BY <2>1 DEF QueueInv
<1>8. StopInv'
  BY <1>a, <1>f DEF IInv, StopInv
<1>9. KnownInv'
  <2>1. ASSUME NEW s \in Rooms, NEW k \in Handlers, NEW i \in Nat, Queued(s, i, <<"add", k>>)'
        PROVE  k \in Joins
    <3>1. i + 1 \in Nat
      OBVIOUS
    <3> QED
      BY <1>b, <2>1, <3>1 DEF IInv, KnownInv
  <2>2. ASSUME NEW s \in Rooms, NEW k \in Joins, life'[s] = "serving", Knows(s, k)
        PROVE  Knows(s, k)'
    <3>1. CASE k \in members[s]
      BY <1>g, <2>2, <3>1, KnowsQueued
    <3>2. CASE \E i \in Nat : Queued(s, i, <<"add", k>>)
      <4>1. PICK i \in Nat : Queued(s, i, <<"add", k>>)
        BY <3>2
      <4>2. CASE s # r
        BY <1>b, <4>1, <4>2, KnowsQueued
      <4>3. CASE s = r /\ i = 1
        <5>1. e = <<"add", k>>
          BY <1>b, <4>1, <4>3 DEF Queued
        <5> QED
          BY <1>g, <4>3, <5>1, KnowsQueued
      <4>4. CASE s = r /\ i # 1
        <5>1. i \in Nat /\ i # 0
          BY <4>1 DEF Queued
        <5>2. i - 1 \in Nat /\ i - 1 # 0 /\ (i - 1) + 1 = i
          BY <4>4, <5>1
        <5>3. Queued(r, i - 1, <<"add", k>>)' <=> Queued(r, (i - 1) + 1, <<"add", k>>)
          BY <1>b, <5>2
        <5> QED
          BY <4>1, <4>4, <5>2, <5>3, KnowsQueued
      <4> QED
        BY <4>2, <4>3, <4>4
    <3> QED
      BY <2>2, <3>1, <3>2, KnowsQueued
  <2>3. \A s \in Rooms : life'[s] = "serving" => life[s] = "serving"
    BY <1>a, <1>f
  <2>4. \A k \in Joins : result[k] = "joined" => ref[k] \in Rooms
    BY DEF IInv, TypeOK, RefInv, Handlers
  <2>5. ASSUME NEW k \in Joins, result'[k] = "joined", life'[ref'[k]] = "serving"
        PROVE  Knows(ref[k], k)'
    BY <1>a, <2>2, <2>3, <2>4, <2>5 DEF IInv, KnownInv
  <2> QED
    BY <1>a, <2>1, <2>5 DEF KnownInv
<1> QED
  BY <1>1, <1>2, <1>3, <1>4, <1>5, <1>6, <1>7, <1>8, <1>9 DEF IInv

\* A loop is cancelled only when the server shuts down.
LEMMA CancelledInv == ASSUME IInv, NEW r \in Rooms, Cancelled(r) PROVE IInv'
<1>1. TypeOK'
  BY RegistryAssumption DEF IInv, TypeOK, PCs, Kinds, NothingSeen, Cancelled, LeaveLoop, db, handlers, room, Rooms, Handlers
<1>2. OneRoomServes'
  BY RegistryAssumption DEF IInv, TypeOK, LockInv, OneRoomServes, Cancelled, LeaveLoop, db, handlers, room, Rooms, Handlers
<1>3. LockInv'
  BY RegistryAssumption DEF IInv, TypeOK, OneRoomServes, LockInv, Loading, Cancelled, LeaveLoop, db, handlers, room, Rooms, Handlers
<1>4. RefInv'
  BY RegistryAssumption DEF IInv, TypeOK, LockInv, RefInv, AnswerInv, Holding, Loading, Cancelled, LeaveLoop, db, handlers, room, Rooms, Handlers
<1>5. AnswerInv'
  BY RegistryAssumption DEF IInv, TypeOK, AnswerInv, Cancelled, LeaveLoop, db, handlers, room, Rooms, Handlers
<1>6. AttachedIsTold'
  BY RegistryAssumption DEF IInv, TypeOK, AnswerInv, AttachedIsTold, Cancelled, LeaveLoop, db, handlers, room, Rooms, Handlers
<1>7. QueueInv'
  <2>1. \A s, i, e : Queued(s, i, e)' <=> Queued(s, i, e)
    BY SameQueue DEF Cancelled, LeaveLoop, db, handlers, room, Rooms, Handlers
  <2> QED
    BY <2>1 DEF IInv, QueueInv, Cancelled, LeaveLoop, db, handlers, room, Rooms, Handlers
<1>8. StopInv'
  BY RegistryAssumption DEF IInv, TypeOK, StopInv, Cancelled, LeaveLoop, db, handlers, room, Rooms, Handlers
<1>9. KnownInv'
  <2>1. \A s, i, e : Queued(s, i, e)' <=> Queued(s, i, e)
    BY SameQueue DEF Cancelled, LeaveLoop, db, handlers, room, Rooms, Handlers
  <2>2. ASSUME NEW s \in Rooms \ {r}, NEW p
        PROVE  Knows(s, p)' <=> Knows(s, p)
    <3>1. members'[s] = members[s]
      BY DEF IInv, TypeOK, Cancelled, LeaveLoop
    <3> QED
      BY <2>1, <3>1, KnowsQueued
  <2>3. \A s \in Rooms : life'[s] = "serving" => life[s] = "serving" /\ s # r
    BY DEF IInv, TypeOK, Cancelled, LeaveLoop, db, handlers, room, Rooms, Handlers
  <2>4. \A k \in Joins : result[k] = "joined" => ref[k] \in Rooms
    BY DEF IInv, TypeOK, RefInv, Handlers
  <2>5. UNCHANGED <<ref, result>>
    BY DEF Cancelled, LeaveLoop, db, handlers, room, Rooms, Handlers
  <2> QED
    BY <2>1, <2>2, <2>3, <2>4, <2>5 DEF IInv, KnownInv
<1> QED
  BY <1>1, <1>2, <1>3, <1>4, <1>5, <1>6, <1>7, <1>8, <1>9 DEF IInv

\* A room is forgotten once it has left its loop.
LEMMA ForgetInv == ASSUME IInv, NEW r \in Rooms, Forget(r) PROVE IInv'
<1>1. TypeOK'
  BY RegistryAssumption DEF IInv, TypeOK, PCs, Kinds, NothingSeen, Forget, db, handlers, room, Rooms, Handlers
<1>2. OneRoomServes'
  BY RegistryAssumption DEF IInv, TypeOK, LockInv, OneRoomServes, Forget, db, handlers, room, Rooms, Handlers
<1>3. LockInv'
  BY RegistryAssumption DEF IInv, TypeOK, OneRoomServes, LockInv, Loading, Forget, db, handlers, room, Rooms, Handlers
<1>4. RefInv'
  BY RegistryAssumption DEF IInv, TypeOK, LockInv, RefInv, AnswerInv, Holding, Loading, Forget, db, handlers, room, Rooms, Handlers
<1>5. AnswerInv'
  BY RegistryAssumption DEF IInv, TypeOK, AnswerInv, Forget, db, handlers, room, Rooms, Handlers
<1>6. AttachedIsTold'
  BY RegistryAssumption DEF IInv, TypeOK, AnswerInv, AttachedIsTold, Forget, db, handlers, room, Rooms, Handlers
<1>7. QueueInv'
  <2>1. \A s, i, e : Queued(s, i, e)' <=> Queued(s, i, e)
    BY SameQueue DEF Forget, db, handlers, room, Rooms, Handlers
  <2> QED
    BY <2>1 DEF IInv, QueueInv, Forget, db, handlers, room, Rooms, Handlers
<1>8. StopInv'
  BY RegistryAssumption DEF IInv, TypeOK, StopInv, Forget, db, handlers, room, Rooms, Handlers
<1>9. KnownInv'
  <2>1. \A s, i, e : Queued(s, i, e)' <=> Queued(s, i, e)
    BY SameQueue DEF Forget, db, handlers, room, Rooms, Handlers
  <2>2. \A s, p : Knows(s, p)' <=> Knows(s, p)
    BY <2>1, KnowsQueued DEF Forget, db, handlers, room, Rooms, Handlers
  <2>3. \A s \in Rooms : life'[s] = "serving" => life[s] = "serving"
    BY DEF IInv, TypeOK, Forget, db, handlers, room, Rooms, Handlers
  <2>4. \A k \in Joins : result[k] = "joined" => ref[k] \in Rooms
    BY DEF IInv, TypeOK, RefInv, Handlers
  <2>5. UNCHANGED <<ref, result>>
    BY DEF Forget, db, handlers, room, Rooms, Handlers
  <2> QED
    BY <2>1, <2>2, <2>3, <2>4, <2>5 DEF IInv, KnownInv
<1> QED
  BY <1>1, <1>2, <1>3, <1>4, <1>5, <1>6, <1>7, <1>8, <1>9 DEF IInv

\* done is closed after the room was forgotten.
LEMMA CloseDoneInv == ASSUME IInv, NEW r \in Rooms, CloseDone(r) PROVE IInv'
<1>1. TypeOK'
  BY RegistryAssumption DEF IInv, TypeOK, PCs, Kinds, NothingSeen, CloseDone, db, handlers, room, Rooms, Handlers
<1>2. OneRoomServes'
  BY RegistryAssumption DEF IInv, TypeOK, LockInv, OneRoomServes, CloseDone, db, handlers, room, Rooms, Handlers
<1>3. LockInv'
  BY RegistryAssumption DEF IInv, TypeOK, OneRoomServes, LockInv, Loading, CloseDone, db, handlers, room, Rooms, Handlers
<1>4. RefInv'
  BY RegistryAssumption DEF IInv, TypeOK, LockInv, RefInv, AnswerInv, Holding, Loading, CloseDone, db, handlers, room, Rooms, Handlers
<1>5. AnswerInv'
  BY RegistryAssumption DEF IInv, TypeOK, AnswerInv, CloseDone, db, handlers, room, Rooms, Handlers
<1>6. AttachedIsTold'
  BY RegistryAssumption DEF IInv, TypeOK, AnswerInv, AttachedIsTold, CloseDone, db, handlers, room, Rooms, Handlers
<1>7. QueueInv'
  <2>1. \A s, i, e : Queued(s, i, e)' <=> Queued(s, i, e)
    BY SameQueue DEF CloseDone, db, handlers, room, Rooms, Handlers
  <2> QED
    BY <2>1 DEF IInv, QueueInv, CloseDone, db, handlers, room, Rooms, Handlers
<1>8. StopInv'
  BY RegistryAssumption DEF IInv, TypeOK, StopInv, CloseDone, db, handlers, room, Rooms, Handlers
<1>9. KnownInv'
  <2>1. \A s, i, e : Queued(s, i, e)' <=> Queued(s, i, e)
    BY SameQueue DEF CloseDone, db, handlers, room, Rooms, Handlers
  <2>2. \A s, p : Knows(s, p)' <=> Knows(s, p)
    BY <2>1, KnowsQueued DEF CloseDone, db, handlers, room, Rooms, Handlers
  <2>3. \A s \in Rooms : life'[s] = "serving" => life[s] = "serving"
    BY DEF IInv, TypeOK, CloseDone, db, handlers, room, Rooms, Handlers
  <2>4. \A k \in Joins : result[k] = "joined" => ref[k] \in Rooms
    BY DEF IInv, TypeOK, RefInv, Handlers
  <2>5. UNCHANGED <<ref, result>>
    BY DEF CloseDone, db, handlers, room, Rooms, Handlers
  <2> QED
    BY <2>1, <2>2, <2>3, <2>4, <2>5 DEF IInv, KnownInv
<1> QED
  BY <1>1, <1>2, <1>3, <1>4, <1>5, <1>6, <1>7, <1>8, <1>9 DEF IInv

\* The timer adds an event that replies to nobody.
LEMMA DeadlineFiresInv == ASSUME IInv, NEW r \in Rooms, DeadlineFires(r) PROVE IInv'
<1>a. /\ Send(r, <<"end", r>>)
      /\ UNCHANGED <<db, mu, registered, ctxDone, handlers, life, members>>
  BY RegistryAssumption DEF IInv, TypeOK, Others, DeadlineFires, db, handlers, room, Rooms, Handlers
<1>b. /\ <<"end", r>> \in Kinds \X Handlers
      /\ events' \in [Rooms -> Seq(Kinds \X Handlers)]
      /\ \A s \in Rooms : Len(events'[s]) <= Buffer
      /\ \A s \in Rooms, i \in Nat : \A f : Queued(s, i, f) => Queued(s, i, f)'
      /\ \A s \in Rooms, i \in Nat : \A f : Queued(s, i, f)' =>
           Queued(s, i, f) \/ (s = r /\ i = Len(events[r]) + 1 /\ f = <<"end", r>>)
  <2>1. <<"end", r>> \in Kinds \X Handlers
    BY EventType DEF Rooms
  <2> QED
    BY <1>a, <2>1, SendFacts
<1>c. /\ \A s \in Rooms, i \in Nat, k \in Handlers :
           Queued(s, i, <<"attach", k>>)' => Queued(s, i, <<"attach", k>>)
      /\ \A s \in Rooms, i \in Nat, k \in Handlers :
           Queued(s, i, <<"add", k>>)' => Queued(s, i, <<"add", k>>)
  BY <1>b
<1>1. TypeOK'
  <2>1. UNCHANGED status /\ armed' \in [Rooms -> BOOLEAN]
    BY DEF IInv, TypeOK, DeadlineFires
  <2> QED
    BY <1>a, <1>b, <2>1 DEF IInv, TypeOK, db, handlers
<1>2. OneRoomServes'
  BY RegistryAssumption DEF IInv, TypeOK, LockInv, OneRoomServes, DeadlineFires, db, handlers, room, Rooms, Handlers
<1>3. LockInv'
  BY RegistryAssumption DEF IInv, TypeOK, OneRoomServes, LockInv, Loading, DeadlineFires, db, handlers, room, Rooms, Handlers
<1>4. RefInv'
  BY <1>a DEF IInv, handlers, RefInv
<1>5. AnswerInv'
  BY <1>a DEF IInv, handlers, AnswerInv
<1>6. AttachedIsTold'
  BY <1>a DEF IInv, handlers, AttachedIsTold
<1>7. QueueInv'
  <2>1. ASSUME NEW s \in Rooms, NEW k \in Handlers, NEW i \in Nat,
               Queued(s, i, <<"attach", k>>)'
        PROVE  /\ ref'[k] = s
               /\ reply'[k] = "none"
               /\ pc'[k] \in {"wait", "returned"}
               /\ \A j \in Nat : Queued(s, j, <<"attach", k>>)' => j = i
    <3>1. Queued(s, i, <<"attach", k>>)
      BY <1>c, <2>1
    <3> QED
      BY <1>a, <1>c, <3>1 DEF IInv, QueueInv, handlers
  <2> QED
    BY <2>1 DEF QueueInv
<1>8. StopInv'
  BY RegistryAssumption DEF IInv, TypeOK, StopInv, DeadlineFires, db, handlers, room, Rooms, Handlers
<1>9. KnownInv'
  <2>1. \A s \in Rooms : \A p : Knows(s, p) => Knows(s, p)'
    BY <1>a, <1>b, SendKeepsKnown
  <2>2. \A k \in Joins : result[k] = "joined" => ref[k] \in Rooms
    BY DEF IInv, TypeOK, RefInv, Handlers
  <2> QED
    BY <1>a, <1>c, <2>1, <2>2 DEF IInv, KnownInv, handlers
<1> QED
  BY <1>1, <1>2, <1>3, <1>4, <1>5, <1>6, <1>7, <1>8, <1>9 DEF IInv

\* The clock changes no room.
LEMMA TimePassesInv == ASSUME IInv, TimePasses PROVE IInv'
<1>1. TypeOK'
  BY RegistryAssumption DEF IInv, TypeOK, PCs, Kinds, NothingSeen, TimePasses, db, handlers, room, Rooms, Handlers
<1>2. OneRoomServes'
  BY RegistryAssumption DEF IInv, TypeOK, LockInv, OneRoomServes, TimePasses, db, handlers, room, Rooms, Handlers
<1>3. LockInv'
  BY RegistryAssumption DEF IInv, TypeOK, OneRoomServes, LockInv, Loading, TimePasses, db, handlers, room, Rooms, Handlers
<1>4. RefInv'
  BY RegistryAssumption DEF IInv, TypeOK, LockInv, RefInv, AnswerInv, Holding, Loading, TimePasses, db, handlers, room, Rooms, Handlers
<1>5. AnswerInv'
  BY RegistryAssumption DEF IInv, TypeOK, AnswerInv, TimePasses, db, handlers, room, Rooms, Handlers
<1>6. AttachedIsTold'
  BY RegistryAssumption DEF IInv, TypeOK, AnswerInv, AttachedIsTold, TimePasses, db, handlers, room, Rooms, Handlers
<1>7. QueueInv'
  <2>1. \A s, i, e : Queued(s, i, e)' <=> Queued(s, i, e)
    BY SameQueue DEF TimePasses, db, handlers, room, Rooms, Handlers
  <2> QED
    BY <2>1 DEF IInv, QueueInv, TimePasses, db, handlers, room, Rooms, Handlers
<1>8. StopInv'
  BY RegistryAssumption DEF IInv, TypeOK, StopInv, TimePasses, db, handlers, room, Rooms, Handlers
<1>9. KnownInv'
  <2>1. \A s, i, e : Queued(s, i, e)' <=> Queued(s, i, e)
    BY SameQueue DEF TimePasses, db, handlers, room, Rooms, Handlers
  <2>2. \A s, p : Knows(s, p)' <=> Knows(s, p)
    BY <2>1, KnowsQueued DEF TimePasses, db, handlers, room, Rooms, Handlers
  <2>3. \A s \in Rooms : life'[s] = "serving" => life[s] = "serving"
    BY DEF IInv, TypeOK, TimePasses, db, handlers, room, Rooms, Handlers
  <2>4. \A k \in Joins : result[k] = "joined" => ref[k] \in Rooms
    BY DEF IInv, TypeOK, RefInv, Handlers
  <2>5. UNCHANGED <<ref, result>>
    BY DEF TimePasses, db, handlers, room, Rooms, Handlers
  <2> QED
    BY <2>1, <2>2, <2>3, <2>4, <2>5 DEF IInv, KnownInv
<1> QED
  BY <1>1, <1>2, <1>3, <1>4, <1>5, <1>6, <1>7, <1>8, <1>9 DEF IInv

\* A shutdown only cancels.
LEMMA ShutdownInv == ASSUME IInv, Shutdown PROVE IInv'
<1>1. TypeOK'
  BY RegistryAssumption DEF IInv, TypeOK, PCs, Kinds, NothingSeen, Shutdown, db, handlers, room, Rooms, Handlers
<1>2. OneRoomServes'
  BY RegistryAssumption DEF IInv, TypeOK, LockInv, OneRoomServes, Shutdown, db, handlers, room, Rooms, Handlers
<1>3. LockInv'
  BY RegistryAssumption DEF IInv, TypeOK, OneRoomServes, LockInv, Loading, Shutdown, db, handlers, room, Rooms, Handlers
<1>4. RefInv'
  BY RegistryAssumption DEF IInv, TypeOK, LockInv, RefInv, AnswerInv, Holding, Loading, Shutdown, db, handlers, room, Rooms, Handlers
<1>5. AnswerInv'
  BY RegistryAssumption DEF IInv, TypeOK, AnswerInv, Shutdown, db, handlers, room, Rooms, Handlers
<1>6. AttachedIsTold'
  BY RegistryAssumption DEF IInv, TypeOK, AnswerInv, AttachedIsTold, Shutdown, db, handlers, room, Rooms, Handlers
<1>7. QueueInv'
  <2>1. \A s, i, e : Queued(s, i, e)' <=> Queued(s, i, e)
    BY SameQueue DEF Shutdown, db, handlers, room, Rooms, Handlers
  <2> QED
    BY <2>1 DEF IInv, QueueInv, Shutdown, db, handlers, room, Rooms, Handlers
<1>8. StopInv'
  BY RegistryAssumption DEF IInv, TypeOK, StopInv, Shutdown, db, handlers, room, Rooms, Handlers
<1>9. KnownInv'
  <2>1. \A s, i, e : Queued(s, i, e)' <=> Queued(s, i, e)
    BY SameQueue DEF Shutdown, db, handlers, room, Rooms, Handlers
  <2>2. \A s, p : Knows(s, p)' <=> Knows(s, p)
    BY <2>1, KnowsQueued DEF Shutdown, db, handlers, room, Rooms, Handlers
  <2>3. \A s \in Rooms : life'[s] = "serving" => life[s] = "serving"
    BY DEF IInv, TypeOK, Shutdown, db, handlers, room, Rooms, Handlers
  <2>4. \A k \in Joins : result[k] = "joined" => ref[k] \in Rooms
    BY DEF IInv, TypeOK, RefInv, Handlers
  <2>5. UNCHANGED <<ref, result>>
    BY DEF Shutdown, db, handlers, room, Rooms, Handlers
  <2> QED
    BY <2>1, <2>2, <2>3, <2>4, <2>5 DEF IInv, KnownInv
<1> QED
  BY <1>1, <1>2, <1>3, <1>4, <1>5, <1>6, <1>7, <1>8, <1>9 DEF IInv

-----------------------------------------------------------------------------
(* The theorems *)

\* The invariant holds before any request.
LEMMA InitInv == Init => IInv
<1> SUFFICES ASSUME Init PROVE IInv
  OBVIOUS
<1>1. TypeOK
  <2>1. pc \in [Handlers -> PCs]
    BY DEF Init, PCs
  <2>2. seen \in [Handlers -> [status : {"lobby", "running"},
                               players : SUBSET (Joins \cup Attaches)]]
    BY DEF Init, NothingSeen
  <2>3. events \in [Rooms -> Seq(Kinds \X Handlers)] /\ \A r \in Rooms : Len(events[r]) <= Buffer
    <3>1. <<>> \in Seq(Kinds \X Handlers) /\ Len(<<>>) = 0 /\ 0 <= Buffer
      BY EmptySeq, RegistryAssumption
    <3> QED
      BY <3>1 DEF Init
  <2> QED
    BY <2>1, <2>2, <2>3 DEF Init, TypeOK
<1>2. \A r \in Rooms, i \in Nat : \A e : ~Queued(r, i, e)
  BY EmptySeq DEF Init, Queued
<1>3. OneRoomServes /\ StopInv /\ AttachedIsTold
  BY DEF Init, OneRoomServes, StopInv, AttachedIsTold
<1>4. LockInv
  BY DEF Init, LockInv, Loading, Rooms
<1>5. RefInv
  BY DEF Init, RefInv, Holding
<1>6. AnswerInv
  BY DEF Init, AnswerInv
<1>7. QueueInv
  BY <1>2 DEF QueueInv
<1>8. KnownInv
  BY <1>2 DEF Init, KnownInv, Handlers
<1> QED
  BY <1>1, <1>3, <1>4, <1>5, <1>6, <1>7, <1>8 DEF IInv

\* Nothing changes: the invariant stays.
LEMMA StutterInv == ASSUME IInv, UNCHANGED vars PROVE IInv'
<1>1. \A r, i, e : Queued(r, i, e)' <=> Queued(r, i, e)
  BY SameQueue DEF vars, room
<1>2. \A r, p : Knows(r, p)' <=> Knows(r, p)
  BY <1>1, KnowsQueued DEF vars, room
<1>3. TypeOK' /\ OneRoomServes' /\ AttachedIsTold' /\ StopInv'
  BY DEF IInv, TypeOK, OneRoomServes, AttachedIsTold, StopInv, vars, db, handlers, room
<1>4. LockInv' /\ RefInv' /\ AnswerInv'
  BY DEF IInv, LockInv, RefInv, AnswerInv, vars, db, handlers, room
<1>5. QueueInv' /\ KnownInv'
  BY <1>1, <1>2 DEF IInv, QueueInv, KnownInv, vars, db, handlers, room
<1> QED
  BY <1>3, <1>4, <1>5 DEF IInv

\* Every step keeps the invariant.
LEMMA NextInv == IInv /\ [Next]_vars => IInv'
<1> SUFFICES ASSUME IInv, [Next]_vars PROVE IInv'
  OBVIOUS
<1>1. ASSUME NEW h \in Handlers, HandlerStep(h) PROVE IInv'
  BY <1>1, JoinRoomInv, LookupInv, RoomByIDInv, EndExpiredInv, PlayersOfRoomInv,
     GetFailsInv, SpawnExistingInv, SpawnInv, RestoreInv, PostJoinInv, PostAttachInv,
     AwaitInv, CommandInv DEF HandlerStep
<1>2. ASSUME NEW r \in Rooms, LoopStep(r) \/ DeadlineFires(r) PROVE IInv'
  BY <1>2, RunNextInv, CancelledInv, ForgetInv, CloseDoneInv, DeadlineFiresInv DEF LoopStep
<1> QED
  BY <1>1, <1>2, TimePassesInv, ShutdownInv, StutterInv DEF Next

\* Every reachable state satisfies the invariant.
THEOREM Invariance == Spec => []IInv
BY InitInv, NextInv, PTL DEF Spec

\* Every variable has its type, and no queue of closures exceeds its buffer.
THEOREM TypeCorrect == Spec => []TypeOK
<1>1. IInv => TypeOK
  BY DEF IInv
<1> QED
  BY <1>1, Invariance, PTL

\* However many handlers load the room at once, one goroutine owns it.
THEOREM OneRoom == Spec => []OneRoomServes
<1>1. IInv => OneRoomServes
  BY DEF IInv
<1> QED
  BY <1>1, Invariance, PTL

\* A room that has closed done is out of the registry.
THEOREM DoneForgotten == Spec => []DoneIsForgotten
<1>1. IInv => DoneIsForgotten
  BY RegistryAssumption DEF IInv, LockInv, DoneIsForgotten, Rooms
<1> QED
  BY <1>1, Invariance, PTL

\* An attach that ran is reported, even if it ended the room.
THEOREM AttachTold == Spec => []AttachedIsTold
<1>1. IInv => AttachedIsTold
  BY DEF IInv
<1> QED
  BY <1>1, Invariance, PTL

\* A player whose join was answered is known to the goroutine that serves the
\* room, from whatever rows it was spawned, until one has ended the session.
THEOREM PlayerKnown == Spec => []JoinedPlayerIsKnown
<1>1. IInv => JoinedPlayerIsKnown
  <2> SUFFICES ASSUME IInv, NEW h \in Joins, NEW r \in Rooms,
                      result[h] = "joined", life[r] = "serving",
                      \A q \in Rooms : status[q] # "ended", ~ctxDone
               PROVE  Knows(r, h)
    BY DEF JoinedPlayerIsKnown
  <2>1. ref[h] \in Rooms /\ life[ref[h]] # "unborn"
    BY DEF IInv, RefInv, TypeOK, Handlers
  <2>2. life[ref[h]] = "serving"
    BY <2>1 DEF IInv, StopInv, TypeOK
  <2>3. ref[h] \in {registered, mu} /\ r \in {registered, mu}
    BY <2>1, <2>2 DEF IInv, OneRoomServes
  <2>4. r # None /\ ref[h] # None
    BY <2>1, RegistryAssumption DEF Rooms
  <2>5. mu # None => registered = None
    BY DEF IInv, LockInv
  <2>6. r = ref[h]
    BY <2>3, <2>4, <2>5
  <2> QED
    BY <2>2, <2>6 DEF IInv, KnownInv
<1> QED
  BY <1>1, Invariance, PTL

-----------------------------------------------------------------------------
(* Nobody is stuck *)

\* What a handler, and a room, can do without waiting for anybody: the guards
\* of HandlerStep and LoopStep.
CanGo(h) ==
  \/ pc[h] \in {"join", "room", "expire", "players"}
  \/ pc[h] \in {"lookup", "spawn"} /\ mu = None
  \/ pc[h] = "restore" /\ Len(events[h]) < Buffer
  \/ pc[h] \in {"post", "command"} /\ (Len(events[ref[h]]) < Buffer \/ Closed(ref[h]))
  \/ pc[h] = "wait" /\ (reply[h] # "none" \/ Closed(ref[h]))

CanRun(r) ==
  \/ life[r] = "serving" /\ events[r] # <<>>
  \/ life[r] = "stopping" /\ mu = None
  \/ life[r] = "forgotten"

\* Whoever has not returned can go on, or waits for a lock whose holder can, or
\* for the loop of its room, which can.
NobodyIsStuck ==
  \A h \in Handlers : pc[h] # "returned" =>
    \/ CanGo(h)
    \/ mu # None /\ CanGo(mu)
    \/ ref[h] # None /\ CanRun(ref[h])

\* A room that is not registered yet is known to the handler that spawns it.
UnsharedInv ==
  \A h \in Handlers : pc[h] \in Loading \cup {"restore"} =>
    \A k \in Handlers \ {h} : ref[k] # h

\* Nothing is queued on a room before it is spawned, and what can be queued
\* while it is being registered is its deadline: newRoom finds a free slot.
FreshInv ==
  /\ \A r \in Rooms : life[r] = "unborn" => events[r] = <<>> /\ ~armed[r]
  /\ \A h \in Handlers : pc[h] = "restore" =>
       Len(events[h]) <= 1 /\ (armed[h] => events[h] = <<>>)

\* An attach is queued until it is replied to.
WaitInv ==
  \A h \in Handlers, r \in Rooms : pc[h] = "wait" /\ reply[h] = "none" /\ ref[h] = r =>
    \E i \in Nat : Queued(r, i, <<"attach", h>>)

PInv == UnsharedInv /\ FreshInv /\ WaitInv

\* The registered room is not one that is being spawned.
LEMMA RegisteredIsShared ==
  ASSUME IInv, registered # None
  PROVE  registered \in Handlers /\ pc[registered] \notin Loading \cup {"restore"}
<1>1. registered \in Handlers /\ life[registered] # "unborn"
  BY DEF IInv, TypeOK, LockInv, Rooms
<1>2. pc[registered] = "restore" => FALSE
  BY <1>1, RegistryAssumption DEF IInv, LockInv
<1> QED
  BY <1>1, <1>2 DEF IInv, LockInv

\* A step of Get touches no queue, and takes at most the registered room.
LEMMA QuietPInv ==
  ASSUME IInv, PInv, NEW h \in Handlers, Others(h), pc[h] \in Loading,
         UNCHANGED <<life, events, armed>>,
         pc'[h] \notin {"restore", "wait", "join"},
         ref'[h] \in {ref[h], None, registered}
  PROVE  PInv'
<1>1. UnsharedInv'
  <2> SUFFICES ASSUME NEW g \in Handlers, pc'[g] \in Loading \cup {"restore"},
                      NEW k \in Handlers \ {g}
               PROVE  ref'[k] # g
    BY DEF UnsharedInv
  <2>1. pc[g] \in Loading \cup {"restore"}
    BY DEF Others
  <2>2. ref[k] # g
    BY <2>1 DEF PInv, UnsharedInv
  <2>3. registered # g
    BY <2>1, RegisteredIsShared, RegistryAssumption
  <2> QED
    BY <2>2, <2>3, RegistryAssumption DEF Others
<1>2. FreshInv'
  BY DEF PInv, FreshInv, Others
<1>3. WaitInv'
  <2>1. \A r, i, e : Queued(r, i, e)' <=> Queued(r, i, e)
    BY SameQueue
  <2> QED
    BY <2>1 DEF PInv, WaitInv, Others
<1> QED
  BY <1>1, <1>2, <1>3 DEF PInv

\* The first reads of Get.
LEMMA GetPInv ==
  ASSUME IInv, PInv, NEW h \in Handlers,
         \/ JoinRoom(h) \/ Lookup(h) \/ RoomByID(h) \/ EndExpired(h)
         \/ PlayersOfRoom(h) \/ GetFails(h) \/ SpawnExisting(h)
  PROVE  PInv'
<1>1. /\ \E l \in PCs \ {"restore", "wait", "join"} : pc' = [pc EXCEPT ![h] = l]
      /\ \E r \in {ref[h], None, registered} : ref' = [ref EXCEPT ![h] = r]
      /\ UNCHANGED reply
      /\ UNCHANGED result \/ \E a : result' = [result EXCEPT ![h] = a]
  BY DEF IInv, TypeOK, JoinRoom, Lookup, RoomByID, EndExpired, PlayersOfRoom, GetFails,
         SpawnExisting, Goto, ReturnError, Return, PCs, handlers
<1>2. Others(h) /\ pc'[h] \notin {"restore", "wait", "join"}
      /\ ref'[h] \in {ref[h], None, registered}
  BY <1>1 DEF IInv, TypeOK, Others
<1>3. pc[h] \in Loading
  BY DEF JoinRoom, Lookup, RoomByID, EndExpired, PlayersOfRoom, GetFails, SpawnExisting, Loading
<1>4. UNCHANGED <<life, events, armed>>
  BY DEF JoinRoom, Lookup, RoomByID, EndExpired, PlayersOfRoom, GetFails, SpawnExisting, room
<1> QED
  BY <1>2, <1>3, <1>4, QuietPInv

\* A room is spawned with an empty queue, for one handler.
LEMMA SpawnPInv == ASSUME IInv, PInv, NEW h \in Handlers, Spawn(h) PROVE PInv'
<1>a. /\ Others(h) /\ pc[h] = "spawn" /\ pc'[h] = "restore" /\ ref'[h] = h
      /\ events' = events
      /\ \A r \in Rooms \ {h} : life'[r] = life[r] /\ armed'[r] = armed[r]
      /\ life'[h] = "serving"
  BY DEF IInv, TypeOK, Others, Spawn, MustSpawn, Goto, Rooms
<1>1. UnsharedInv'
  BY <1>a DEF PInv, UnsharedInv, Others, Loading
<1>2. FreshInv'
  <2>1. life[h] = "unborn" /\ h \in Rooms
    BY <1>a DEF IInv, LockInv, Loading, Rooms
  <2>2. events[h] = <<>> /\ Len(events[h]) = 0
    BY <2>1, EmptySeq DEF PInv, FreshInv
  <2> QED
    BY <1>a, <2>2 DEF PInv, FreshInv, Others, Rooms
<1>3. WaitInv'
  <2>1. \A r, i, e : Queued(r, i, e)' <=> Queued(r, i, e)
    BY <1>a, SameQueue
  <2> QED
    BY <1>a, <2>1 DEF PInv, WaitInv, Others
<1> QED
  BY <1>1, <1>2, <1>3 DEF PInv

\* A handler that sends does so to a room which is not being registered by
\* another; a waiting handler has sent its attach.
LEMMA SendPInv ==
  ASSUME IInv, PInv, NEW h \in Handlers, Others(h), NEW r \in Rooms,
         NEW e \in Kinds \X Handlers, Send(r, e) \/ UNCHANGED events,
         UNCHANGED <<ref, reply, life, armed>>,
         life[r] # "unborn",
         \A g \in Handlers \ {h} : pc[g] = "restore" => r # g,
         pc'[h] \notin Loading \cup {"restore"},
         pc'[h] = "wait" => ref[h] = r /\ \E i \in Nat : Queued(r, i, <<"attach", h>>)'
  PROVE  PInv'
<1>1. UnsharedInv'
  BY DEF PInv, UnsharedInv, Others
<1>2. \A s \in Rooms \ {r} : events'[s] = events[s]
  BY DEF IInv, TypeOK, Send
<1>3. FreshInv'
  BY <1>2 DEF PInv, FreshInv, Others, Rooms
<1>4. WaitInv'
  <2> SUFFICES ASSUME NEW k \in Handlers, NEW s \in Rooms,
                      pc'[k] = "wait", reply'[k] = "none", ref'[k] = s
               PROVE  \E i \in Nat : Queued(s, i, <<"attach", k>>)'
    BY DEF WaitInv
  <2>1. CASE k = h
    BY <2>1
  <2>2. CASE k # h
    <3>1. pc[k] = "wait" /\ reply[k] = "none" /\ ref[k] = s
      BY <2>2 DEF Others
    <3>2. PICK i \in Nat : Queued(s, i, <<"attach", k>>)
      BY <3>1 DEF PInv, WaitInv
    <3> QED
      BY <3>2, SendFacts
  <2> QED
    BY <2>1, <2>2
<1> QED
  BY <1>1, <1>3, <1>4 DEF PInv

\* newRoom queues restoreBoard on its own room.
LEMMA RestorePInv == ASSUME IInv, PInv, NEW h \in Handlers, Restore(h) PROVE PInv'
<1>1. /\ Others(h) /\ pc[h] = "restore" /\ pc'[h] = "post"
      /\ UNCHANGED <<ref, reply, life, armed>>
      /\ Send(h, <<"restore", h>>) \/ UNCHANGED events
  BY DEF IInv, TypeOK, Others, Restore, Goto
<1>2. h \in Rooms /\ <<"restore", h>> \in Kinds \X Handlers
  BY EventType DEF Rooms
<1>3. life[h] # "unborn"
  BY <1>1, RegistryAssumption DEF IInv, RefInv
<1> QED
  BY <1>1, <1>2, <1>3, SendPInv DEF Loading

\* Joins, attaches and commands go to the handler's room.
LEMMA PostPInv ==
  ASSUME IInv, PInv, NEW h \in Handlers, PostJoin(h) \/ PostAttach(h) \/ Command(h)
  PROVE  PInv'
<1>1. /\ Others(h) /\ pc[h] \in Holding /\ pc'[h] \in {"wait", "returned"}
      /\ UNCHANGED <<ref, reply, life, armed>>
  BY DEF IInv, TypeOK, Others, PostJoin, PostAttach, Command, Goto, Return, Holding
<1> DEFINE r == ref[h]
<1>2. r \in Rooms /\ life[r] # "unborn"
  BY <1>1 DEF IInv, RefInv, TypeOK
<1>3. \A g \in Handlers \ {h} : pc[g] = "restore" => r # g
  BY DEF PInv, UnsharedInv
<1>s. PICK s \in Rooms : s = r
  BY <1>2
<1>4. CASE pc'[h] = "wait"
  <2>1. Send(s, <<"attach", h>>)
    BY <1>4, <1>s DEF IInv, TypeOK, PostJoin, PostAttach, Command, Return, Goto
  <2>2. <<"attach", h>> \in Kinds \X Handlers
    BY EventType
  <2>3. Len(events[s]) + 1 \in Nat
    BY DEF IInv, TypeOK
  <2>4. \E i \in Nat : Queued(s, i, <<"attach", h>>)'
    BY <2>1, <2>2, <2>3, SendQueue DEF IInv
  <2> QED
    BY <1>1, <1>2, <1>3, <1>s, <2>1, <2>2, <2>4, SendPInv DEF Loading
<1>5. CASE pc'[h] # "wait"
  <2>1. \E k \in {"add", "attach", "start", "end"} :
          Send(s, <<k, h>>) \/ UNCHANGED events
    BY <1>s DEF PostJoin, PostAttach, Command
  <2>2. PICK k \in {"add", "attach", "start", "end"} :
          Send(s, <<k, h>>) \/ UNCHANGED events
    BY <2>1
  <2>3. <<k, h>> \in Kinds \X Handlers
    BY EventType
  <2> QED
    BY <1>1, <1>2, <1>3, <1>5, <1>s, <2>2, <2>3, SendPInv DEF Loading
<1> QED
  BY <1>4, <1>5

\* A handler that stops waiting.
LEMMA AwaitPInv == ASSUME IInv, PInv, NEW h \in Handlers, Await(h) PROVE PInv'
<1>1. /\ Others(h) /\ pc'[h] \in {"command", "returned"}
      /\ UNCHANGED <<ref, reply, life, armed, events>>
  BY DEF IInv, TypeOK, Others, Await, Goto, Return, room
<1>2. \A r, i, e : Queued(r, i, e)' <=> Queued(r, i, e)
  BY <1>1, SameQueue
<1>3. UnsharedInv' /\ FreshInv'
  BY <1>1 DEF PInv, UnsharedInv, FreshInv, Others, Loading
<1>4. WaitInv'
  BY <1>1, <1>2 DEF PInv, WaitInv, Others
<1> QED
  BY <1>3, <1>4 DEF PInv

\* A loop runs an event: an attach that is gone has been replied to.
LEMMA RunNextPInv == ASSUME IInv, PInv, NEW r \in Rooms, RunNext(r) PROVE PInv'
<1> DEFINE e == Head(events[r])
<1>a. /\ life[r] = "serving" /\ events[r] # <<>>
      /\ events' = [events EXCEPT ![r] = Tail(@)]
      /\ UNCHANGED <<pc, ref>>
      /\ RunAdd(r, e[1], e[2]) \/ RunAttach(r, e[1], e[2]) \/ RunStart(r, e[1]) \/ RunEnd(r, e[1])
  BY DEF RunNext
<1>b. /\ e \in Kinds \X Handlers
      /\ Queued(r, 1, e)
      /\ \A s \in Rooms \ {r}, i \in Nat : \A f : Queued(s, i, f)' <=> Queued(s, i, f)
      /\ \A i \in Nat : \A f : Queued(r, i, f)' <=> i # 0 /\ Queued(r, i + 1, f)
  BY <1>a, PopQueue DEF IInv
<1>c. /\ \A s \in Rooms \ {r} : life'[s] = life[s] /\ armed'[s] = armed[s] /\ events'[s] = events[s]
      /\ life'[r] # "unborn"
      /\ events'[r] = Tail(events[r])
  BY <1>a DEF IInv, TypeOK, RunAdd, RunAttach, RunStart, RunEnd, EndSession, LeaveLoop
<1>d. Len(events[r]) <= 1 => events'[r] = <<>>
  <2>1. /\ events[r] \in Seq(Kinds \X Handlers) /\ Tail(events[r]) \in Seq(Kinds \X Handlers)
        /\ Len(Tail(events[r])) = Len(events[r]) - 1 /\ Len(events[r]) > 0
        /\ Len(events[r]) \in Nat
    BY <1>a, HeadTailProperties, EmptySeq DEF IInv, TypeOK
  <2> QED
    BY <1>c, <2>1, EmptySeq
<1>e. \A h \in Handlers : e = <<"attach", h>> => reply'[h] # "none"
  BY <1>a, <1>b DEF IInv, TypeOK, RunAdd, RunAttach, RunStart, RunEnd
<1>f. \A h \in Handlers : reply'[h] = "none" => reply[h] = "none"
  BY <1>a, <1>b DEF IInv, TypeOK, RunAdd, RunAttach, RunStart, RunEnd
<1> HIDE DEF e
<1>1. UnsharedInv'
  BY <1>a DEF PInv, UnsharedInv
<1>2. FreshInv'
  <2>1. \A s \in Rooms : life'[s] = "unborn" => events'[s] = <<>> /\ ~armed'[s]
    BY <1>c DEF PInv, FreshInv
  <2>2. ASSUME NEW h \in Handlers, pc'[h] = "restore"
        PROVE  Len(events'[h]) <= 1 /\ (armed'[h] => events'[h] = <<>>)
    <3>1. Len(events[h]) <= 1 /\ (armed[h] => events[h] = <<>>)
      BY <1>a, <2>2 DEF PInv, FreshInv
    <3>2. CASE h # r
      BY <1>c, <3>1, <3>2 DEF Rooms
    <3>3. CASE h = r
      <4>1. events'[h] = <<>> /\ Len(<<>>) = 0
        BY <1>d, <3>1, <3>3, EmptySeq
      <4> QED
        BY <4>1
    <3> QED
      BY <3>2, <3>3
  <2> QED
    BY <2>1, <2>2 DEF FreshInv
<1>3. WaitInv'
  <2> SUFFICES ASSUME NEW h \in Handlers, NEW s \in Rooms,
                      pc[h] = "wait", reply'[h] = "none", ref[h] = s
               PROVE  \E i \in Nat : Queued(s, i, <<"attach", h>>)'
    BY <1>a DEF WaitInv
  <2>1. PICK i \in Nat : Queued(s, i, <<"attach", h>>)
    BY <1>f DEF PInv, WaitInv
  <2>2. CASE s # r
    BY <1>b, <2>1, <2>2
  <2>3. CASE s = r
    <3>1. i # 1
      BY <1>b, <1>e, <2>1, <2>3 DEF Queued
    <3>2. i # 0
      BY <2>1 DEF Queued
    <3>3. i - 1 \in Nat /\ i - 1 # 0 /\ (i - 1) + 1 = i
      BY <3>1, <3>2
    <3>4. Queued(r, i - 1, <<"attach", h>>)'
      BY <1>b, <2>1, <2>3, <3>3
    <3> QED
      BY <2>3, <3>3, <3>4
  <2> QED
    BY <2>2, <2>3
<1> QED
  BY <1>1, <1>2, <1>3 DEF PInv

\* A room that stops, the clock and a shutdown queue nothing.
LEMMA StopPInv ==
  ASSUME IInv, PInv,
         \/ \E r \in Rooms : Cancelled(r) \/ Forget(r) \/ CloseDone(r)
         \/ TimePasses \/ Shutdown \/ UNCHANGED vars
  PROVE  PInv'
<1>a. UNCHANGED <<pc, ref, reply, events>>
  BY DEF Cancelled, Forget, CloseDone, TimePasses, Shutdown, vars, handlers, room
<1>b. \/ UNCHANGED <<life, armed>>
      \/ \E r \in Rooms, l \in {"stopping", "forgotten", "done"} :
           /\ life' = [life EXCEPT ![r] = l]
           /\ UNCHANGED armed \/ armed' = [armed EXCEPT ![r] = FALSE]
  BY DEF Cancelled, LeaveLoop, Forget, CloseDone, TimePasses, Shutdown, vars, room
<1>1. /\ \A s \in Rooms : life'[s] = "unborn" => life[s] = "unborn"
      /\ \A s \in Rooms : armed'[s] => armed[s]
  BY <1>b DEF IInv, TypeOK
<1>2. \A r, i, e : Queued(r, i, e)' <=> Queued(r, i, e)
  BY <1>a, SameQueue
<1>3. UnsharedInv' /\ FreshInv' /\ WaitInv'
  BY <1>a, <1>1, <1>2 DEF PInv, UnsharedInv, FreshInv, WaitInv, Rooms
<1> QED
  BY <1>3 DEF PInv

\* The deadline of a room takes the one slot it may.
LEMMA DeadlineFiresPInv == ASSUME IInv, PInv, NEW r \in Rooms, DeadlineFires(r) PROVE PInv'
<1>1. /\ armed[r] /\ Send(r, <<"end", r>>)
      /\ UNCHANGED <<pc, ref, reply, life>>
      /\ events' = [events EXCEPT ![r] = Append(@, <<"end", r>>)]
      /\ armed' = [armed EXCEPT ![r] = FALSE]
  BY DEF DeadlineFires, Send, handlers
<1>2. <<"end", r>> \in Kinds \X Handlers
  BY EventType DEF Rooms
<1>3. \A s \in Rooms, i \in Nat : \A f : Queued(s, i, f) => Queued(s, i, f)'
  BY <1>1, <1>2, SendFacts
<1>4. /\ \A s \in Rooms \ {r} : events'[s] = events[s] /\ armed'[s] = armed[s]
      /\ ~armed'[r]
  BY <1>1 DEF IInv, TypeOK
<1>5. UnsharedInv'
  BY <1>1 DEF PInv, UnsharedInv
<1>6. FreshInv'
  <2>1. life[r] # "unborn"
    BY <1>1 DEF PInv, FreshInv
  <2>2. pc[r] = "restore" => Len(events'[r]) <= 1
    <3>1. ASSUME pc[r] = "restore" PROVE Len(events'[r]) <= 1
      <4>1. events[r] = <<>>
        BY <1>1, <3>1 DEF PInv, FreshInv, Rooms
      <4>2. events'[r] = Append(<<>>, <<"end", r>>)
        BY <1>1, <4>1 DEF IInv, TypeOK
      <4> QED
        BY <4>2
    <3> QED
      BY <3>1
  <2> QED
    BY <1>1, <1>4, <2>1, <2>2 DEF PInv, FreshInv, Rooms
<1>7. WaitInv'
  <2>1. \A h \in Handlers : pc[h] = "wait" => ref[h] \in Rooms
    BY DEF IInv, TypeOK, RefInv, Holding
  <2> QED
    BY <1>1, <1>3, <2>1 DEF PInv, WaitInv
<1> QED
  BY <1>5, <1>6, <1>7 DEF PInv

\* Both invariants together are inductive.
LEMMA PInvariance == Spec => [](IInv /\ PInv)
<1>1. Init => IInv /\ PInv
  <2> SUFFICES ASSUME Init PROVE IInv /\ PInv
    OBVIOUS
  <2>1. \A h, k \in Handlers : ref[k] # h
    BY RegistryAssumption DEF Init
  <2>2. \A h \in Handlers : pc[h] \in {"join", "lookup"}
    BY DEF Init
  <2>3. \A r \in Rooms : events[r] = <<>> /\ ~armed[r]
    BY DEF Init
  <2> QED
    BY <2>1, <2>2, <2>3, InitInv DEF PInv, UnsharedInv, FreshInv, WaitInv
<1>2. (IInv /\ PInv) /\ [Next]_vars => (IInv /\ PInv)'
  <2> SUFFICES ASSUME IInv, PInv, [Next]_vars PROVE PInv'
    BY NextInv
  <2>1. ASSUME NEW h \in Handlers, HandlerStep(h) PROVE PInv'
    BY <2>1, GetPInv, SpawnPInv, RestorePInv, PostPInv, AwaitPInv DEF HandlerStep
  <2>2. ASSUME NEW r \in Rooms, LoopStep(r) \/ DeadlineFires(r) PROVE PInv'
    BY <2>2, RunNextPInv, StopPInv, DeadlineFiresPInv DEF LoopStep
  <2> QED
    BY <2>1, <2>2, StopPInv DEF Next
<1> QED
  BY <1>1, <1>2, PTL DEF Spec

\* The holder of the lock never waits: the room it registers has a free slot.
LEMMA LockHolderGoes == ASSUME IInv, PInv, mu # None PROVE CanGo(mu)
<1>1. mu \in Handlers /\ pc[mu] = "restore" /\ mu \in Rooms
  BY DEF IInv, TypeOK, LockInv, Rooms
<1>2. Len(events[mu]) <= 1 /\ Len(events[mu]) \in Nat
  BY <1>1 DEF IInv, TypeOK, PInv, FreshInv
<1> QED
  BY <1>1, <1>2, RegistryAssumption DEF CanGo

\* A room with something to do, or on its way out, goes on when the lock is free.
LEMMA RoomGoes ==
  ASSUME IInv, mu = None, NEW r \in Rooms, life[r] # "unborn", ~Closed(r), events[r] # <<>>
  PROVE  CanRun(r)
BY DEF IInv, TypeOK, CanRun, Closed

\* Whoever waits, waits for someone who can go on: the lock of the registry, the
\* queues and the replies of the rooms cannot bring everybody to a halt, however
\* small the buffer, as long as newRoom and its timer find room for an event each.
THEOREM NoneIsStuck == Spec => []NobodyIsStuck
<1>1. IInv /\ PInv => NobodyIsStuck
  <2> SUFFICES ASSUME IInv, PInv, NEW h \in Handlers, pc[h] # "returned", mu = None, ~CanGo(h)
               PROVE  ref[h] # None /\ CanRun(ref[h])
    BY LockHolderGoes DEF NobodyIsStuck
  <2>1. pc[h] \in {"post", "wait", "command"}
    <3>1. pc[h] # "restore"
      BY RegistryAssumption DEF IInv, LockInv
    <3> QED
      BY <3>1 DEF IInv, TypeOK, PCs, CanGo
  <2>2. ref[h] \in Rooms /\ ref[h] # None /\ life[ref[h]] # "unborn"
    BY <2>1 DEF IInv, TypeOK, RefInv, Holding
  <2>3. ~Closed(ref[h])
    BY <2>1 DEF CanGo
  <2>4. events[ref[h]] # <<>>
    <3>1. CASE pc[h] = "wait"
      <4>1. \E i \in Nat : Queued(ref[h], i, <<"attach", h>>)
        BY <2>2, <3>1 DEF PInv, WaitInv, CanGo, IInv, TypeOK
      <4> QED
        BY <4>1, EmptySeq DEF Queued
    <3>2. CASE pc[h] \in {"post", "command"}
      <4>1. ~(Len(events[ref[h]]) < Buffer)
        BY <3>2 DEF CanGo
      <4> QED
        BY <4>1, EmptySeq, RegistryAssumption
    <3> QED
      BY <2>1, <3>1, <3>2
  <2> QED
    BY <2>2, <2>3, <2>4, RoomGoes
<1> QED
  BY <1>1, PInvariance, PTL

=============================================================================
