------------------------------- MODULE Client -------------------------------
(***************************************************************************)
(* The connections of one player: the two pumps and the bounded buffer of  *)
(* internal/ws/client.go, the end of ServeHTTP in internal/ws/handler.go,  *)
(* and the place a room of internal/game/room.go keeps for the player's    *)
(* sink. A connection is replaced by the next one, dropped when it is too  *)
(* slow, and closed when the player is kicked or the room ends.            *)
(*                                                                         *)
(* The goroutines that queue closures on the room do so in any order: a    *)
(* closure that waits is known from where its connection is. The messages  *)
(* sent to a connection are numbered. What they say is left out, except    *)
(* that one may be room.ended.                                             *)
(***************************************************************************)
EXTENDS Naturals, Sequences, FiniteSets

CONSTANTS
  Conns,    \* the connections of the player
  Buffer,   \* sendBuffer, 32
  MaxSaid,  \* bound on the messages sent to one connection
  None

ASSUME ClientAssumption ==
  /\ None \notin Conns
  /\ Buffer \in Nat \ {0}
  /\ MaxSaid \in Nat

VARIABLES
  \* the room
  serving,  \* its loop runs
  member,   \* the player is in Room.players
  seat,     \* playerState.sink
  \* each Client: closed, send, and how many messages it was sent, which of
  \* them is room.ended (0: none)
  client,
  \* its goroutines
  handler,  \* ServeHTTP: "new", "attaching", "attached", "pumping", "refused"
  writer,   \* writePump: "unborn", "waiting", "writing", "gone"
  inflight, \* the message it writes
  reader,   \* readPump: "unborn", "reading", "leaving", "detaching", "gone"
  \* its connection
  open,     \* the server has not closed it
  written,  \* what was written to it; the peer reads a prefix of this
  peer      \* "reading", or "gone": left, or silent longer than the deadlines allow

room == <<serving, member, seat>>
pumps == <<handler, writer, inflight, reader>>
wire == <<open, written, peer>>
vars == <<room, client, pumps, wire>>

Fresh == [closed |-> FALSE, send |-> <<>>, said |-> 0, ended |-> 0]

Init ==
  /\ serving = TRUE
  /\ member = TRUE
  /\ seat = None
  /\ client = [c \in Conns |-> Fresh]
  /\ handler = [c \in Conns |-> "new"]
  /\ writer = [c \in Conns |-> "unborn"]
  /\ inflight = [c \in Conns |-> 0]
  /\ reader = [c \in Conns |-> "unborn"]
  /\ open = [c \in Conns |-> TRUE]
  /\ written = [c \in Conns |-> <<>>]
  /\ peer = [c \in Conns |-> "reading"]

-----------------------------------------------------------------------------
(* What a call of Client.Send and of Client.Close makes of a client; the    *)
(* mutex makes each one step                                                *)

\* mutant: a full buffer drops its oldest message, not the client
SendDropOldest(m) ==
  IF m.closed THEN [m EXCEPT !.said = @ + 1]
  ELSE [m EXCEPT !.said = @ + 1,
                 !.send = Append(IF Len(@) < Buffer THEN @ ELSE Tail(@), m.said + 1)]

\* mutant: the buffer has no limit
SendUnbounded(m) ==
  IF m.closed THEN [m EXCEPT !.said = @ + 1]
  ELSE [m EXCEPT !.said = @ + 1, !.send = Append(@, m.said + 1)]

\* A closed client takes nothing, a full one is closed.
Send(m) ==
  IF m.closed \/ Len(m.send) >= Buffer
  THEN [m EXCEPT !.said = @ + 1, !.closed = TRUE]
  ELSE [m EXCEPT !.said = @ + 1, !.send = Append(@, m.said + 1)]

\* What is queued stays to be written.
Close(m) == [m EXCEPT !.closed = TRUE]

SendEnded(m) == [Send(m) EXCEPT !.ended = m.said + 1]

CanSay(c) == client[c].said < MaxSaid

-----------------------------------------------------------------------------
(* The room: closures, one at a time *)

\* The previous connection, if any, is closed.
Replaced == [c \in Conns |-> IF c = seat THEN Close(client[c]) ELSE client[c]]

\* AttachPlayer. Settling an expired question may end the room; resumeActive
\* may send the question on air.
AttachPlayer(c) ==
  /\ serving
  /\ handler[c] = "attaching"
  /\ \/ /\ ~member
        /\ handler' = [handler EXCEPT ![c] = "refused"]
        /\ UNCHANGED <<room, client>>
     \/ /\ member
        /\ handler' = [handler EXCEPT ![c] = "attached"]
        /\ seat' = c
        /\ \/ client' = [Replaced EXCEPT ![c] = Send(@)]
           \/ client' = [Replaced EXCEPT ![c] = Send(Send(@))]
        /\ UNCHANGED <<serving, member>>
     \/ /\ member
        /\ handler' = [handler EXCEPT ![c] = "attached"]
        /\ seat' = None
        /\ client' = [Replaced EXCEPT ![c] = Close(SendEnded(@))]
        /\ serving' = FALSE
        /\ UNCHANGED member
  /\ UNCHANGED <<writer, inflight, reader, wire>>

\* A room that stops first refuses it: call finds done closed.
AttachTooLate(c) ==
  /\ ~serving
  /\ handler[c] = "attaching"
  /\ handler' = [handler EXCEPT ![c] = "refused"]
  /\ UNCHANGED <<room, client, writer, inflight, reader, wire>>

DetachAny(c) ==   \* mutant: the seat is emptied, whoever has it
  /\ reader[c] = "detaching"
  /\ reader' = [reader EXCEPT ![c] = "gone"]
  /\ seat' = IF serving THEN None ELSE seat
  /\ UNCHANGED <<serving, member, client, handler, writer, inflight, wire>>

\* A room that has stopped does not run it.
Detach(c) ==
  /\ reader[c] = "detaching"
  /\ reader' = [reader EXCEPT ![c] = "gone"]
  /\ seat' = IF serving /\ seat = c THEN None ELSE seat
  /\ UNCHANGED <<serving, member, client, handler, writer, inflight, wire>>

\* broadcast and sendTo: any message of any closure.
Say ==
  /\ serving
  /\ seat # None
  /\ CanSay(seat)
  /\ client' = [client EXCEPT ![seat] = Send(@)]
  /\ UNCHANGED <<room, pumps, wire>>

\* broadcast of room.ended, then closeAll.
EndSession ==
  /\ serving
  /\ serving' = FALSE
  /\ seat' = None
  /\ client' = [c \in Conns |-> IF c = seat THEN Close(SendEnded(client[c])) ELSE client[c]]
  /\ UNCHANGED <<member, pumps, wire>>

Kick ==
  /\ serving
  /\ member
  /\ member' = FALSE
  /\ seat' = None
  /\ client' = [c \in Conns |-> IF c = seat THEN Close(Send(client[c])) ELSE client[c]]
  /\ UNCHANGED <<serving, pumps, wire>>

\* The server shuts down: closeAll.
Shutdown ==
  /\ serving
  /\ serving' = FALSE
  /\ seat' = None
  /\ client' = Replaced
  /\ UNCHANGED <<member, pumps, wire>>

-----------------------------------------------------------------------------
(* ServeHTTP and the pumps *)

Connect(c) ==
  /\ handler[c] = "new"
  /\ handler' = [handler EXCEPT ![c] = "attaching"]
  /\ UNCHANGED <<room, client, writer, inflight, reader, wire>>

\* closeUnauthorizedConn: no pump is started.
Refuse(c) ==
  /\ handler[c] = "refused"
  /\ open[c]
  /\ open' = [open EXCEPT ![c] = FALSE]
  /\ UNCHANGED <<room, client, pumps, written, peer>>

StartPumps(c) ==
  /\ handler[c] = "attached"
  /\ handler' = [handler EXCEPT ![c] = "pumping"]
  /\ writer' = [writer EXCEPT ![c] = "waiting"]
  /\ reader' = [reader EXCEPT ![c] = "reading"]
  /\ UNCHANGED <<room, client, inflight, wire>>

Take(c) ==
  /\ writer[c] = "waiting"
  /\ client[c].send # <<>>
  /\ inflight' = [inflight EXCEPT ![c] = Head(client[c].send)]
  /\ client' = [client EXCEPT ![c].send = Tail(@)]
  /\ writer' = [writer EXCEPT ![c] = "writing"]
  /\ UNCHANGED <<room, handler, reader, wire>>

\* WriteMessage returns: the connection has taken the message.
Write(c) ==
  /\ writer[c] = "writing"
  /\ written' = [written EXCEPT ![c] = Append(@, inflight[c])]
  /\ inflight' = [inflight EXCEPT ![c] = 0]
  /\ writer' = [writer EXCEPT ![c] = "waiting"]
  /\ UNCHANGED <<room, client, handler, reader, open, peer>>

LeaveConnOpen(c) ==   \* mutant: writePump does not close the connection
  /\ writer' = [writer EXCEPT ![c] = "gone"]
  /\ UNCHANGED open

CloseConn(c) ==
  /\ writer' = [writer EXCEPT ![c] = "gone"]
  /\ open' = [open EXCEPT ![c] = FALSE]

\* A write, also that of a ping, fails or takes longer than writeWait.
WriteFails(c) ==
  /\ writer[c] \in {"waiting", "writing"}
  /\ peer[c] = "gone"
  /\ CloseConn(c)
  /\ UNCHANGED <<room, client, handler, inflight, reader, written, peer>>

CloseAtOnce(c) ==   \* mutant: what is queued when the client closes is not written
  /\ writer[c] = "waiting"
  /\ client[c].closed
  /\ CloseConn(c)
  /\ UNCHANGED <<room, client, handler, inflight, reader, written, peer>>

\* The channel is closed and empty: a close frame, then the connection.
CloseDrained(c) ==
  /\ writer[c] = "waiting"
  /\ client[c].closed
  /\ client[c].send = <<>>
  /\ CloseConn(c)
  /\ UNCHANGED <<room, client, handler, inflight, reader, written, peer>>

\* ping is answered by the reader itself; other commands become closures.
Pong(c) ==
  /\ reader[c] = "reading"
  /\ open[c]
  /\ peer[c] = "reading"
  /\ CanSay(c)
  /\ client' = [client EXCEPT ![c] = Send(@)]
  /\ UNCHANGED <<room, pumps, wire>>

\* ReadMessage fails: the connection is closed, or nothing came for pongWait.
ReadFails(c) ==
  /\ reader[c] = "reading"
  /\ ~open[c] \/ peer[c] = "gone"
  /\ reader' = [reader EXCEPT ![c] = "leaving"]
  /\ UNCHANGED <<room, client, handler, writer, inflight, wire>>

\* A frame above the limit of SetReadLimit is an error of ReadMessage as well;
\* no player has to send one.
FrameTooLong(c) ==
  /\ reader[c] = "reading"
  /\ open[c]
  /\ peer[c] = "reading"
  /\ reader' = [reader EXCEPT ![c] = "leaving"]
  /\ UNCHANGED <<room, client, handler, writer, inflight, wire>>

\* The deferred calls: Close, then Detach queues its closure.
Leave(c) ==
  /\ reader[c] = "leaving"
  /\ client' = [client EXCEPT ![c] = Close(@)]
  /\ reader' = [reader EXCEPT ![c] = "detaching"]
  /\ UNCHANGED <<room, handler, writer, inflight, wire>>

-----------------------------------------------------------------------------
(* The player's end *)

PeerGoes(c) ==
  /\ peer[c] = "reading"
  /\ peer' = [peer EXCEPT ![c] = "gone"]
  /\ UNCHANGED <<room, client, pumps, open, written>>

HandlerStep(c) == AttachPlayer(c) \/ AttachTooLate(c) \/ Refuse(c) \/ StartPumps(c)
WriterStep(c) == Take(c) \/ Write(c) \/ WriteFails(c) \/ CloseDrained(c)
ReaderStep(c) == ReadFails(c) \/ Leave(c) \/ Detach(c)

Next ==
  \/ Say \/ EndSession \/ Kick \/ Shutdown
  \/ \E c \in Conns :
       \/ Connect(c) \/ HandlerStep(c) \/ WriterStep(c) \/ ReaderStep(c)
       \/ Pong(c) \/ FrameTooLong(c) \/ PeerGoes(c)

Spec == Init /\ [][Next]_vars

\* The goroutines of a connection and of the room go on; writeWait and
\* pongWait end a write and a read that wait too long. Nothing is asked of the
\* player or the host.
FairSpec ==
  /\ Spec
  /\ \A c \in Conns :
       WF_vars(HandlerStep(c)) /\ WF_vars(WriterStep(c)) /\ WF_vars(ReaderStep(c))

-----------------------------------------------------------------------------
(* Types *)

ClientType == [closed : BOOLEAN, send : Seq(Nat), said : Nat, ended : Nat]

\* Every variable has its type; no buffer holds more than its size.
TypeOK ==
  /\ serving \in BOOLEAN
  /\ member \in BOOLEAN
  /\ seat \in Conns \cup {None}
  /\ client \in [Conns -> ClientType]
  /\ \A c \in Conns : Len(client[c].send) <= Buffer
  /\ handler \in [Conns -> {"new", "attaching", "attached", "pumping", "refused"}]
  /\ writer \in [Conns -> {"unborn", "waiting", "writing", "gone"}]
  /\ inflight \in [Conns -> Nat]
  /\ reader \in [Conns -> {"unborn", "reading", "leaving", "detaching", "gone"}]
  /\ open \in [Conns -> BOOLEAN]
  /\ written \in [Conns -> Seq(Nat)]
  /\ peer \in [Conns -> {"reading", "gone"}]

-----------------------------------------------------------------------------
(* Safety *)

\* A connection that was let in and is not closed has the player's seat: none
\* is left that the room does not know of, whatever was replaced, detached
\* late, kicked or ended in between, and at most one is open at a time.
OpenMeansSeated ==
  \A c \in Conns :
    handler[c] \in {"attached", "pumping"} /\ ~client[c].closed => seat = c

\* The messages of a connection are written in the order they were sent, with
\* no gap: one that does not fit closes the client, and nothing follows it.
Pending(c) == IF writer[c] = "writing" THEN 1 ELSE 0

WrittenInOrder ==
  \A c \in Conns :
    LET sent == Len(written[c])
        queued == Len(client[c].send) IN
    /\ \A i \in 1..sent : written[c][i] = i
    /\ writer[c] = "writing" => inflight[c] = sent + 1
    /\ writer[c] # "gone" =>
         /\ \A i \in 1..queued : client[c].send[i] = sent + Pending(c) + i
         /\ ~client[c].closed => client[c].said = sent + Pending(c) + queued

-----------------------------------------------------------------------------
(* Liveness, under FairSpec *)

\* A client that is closed, for whatever reason, or whose peer is gone leaves
\* nothing behind: no goroutine, no open connection and no seat.
Gone(c) ==
  ~open[c] /\ writer[c] = "gone" /\ reader[c] = "gone" /\ seat # c

ClosedConnectionsGo ==
  \A c \in Conns :
    handler[c] = "pumping" /\ (client[c].closed \/ peer[c] = "gone") ~> Gone(c)

\* The last message is not cut off by Close: a player who goes on reading is
\* told that the room has ended, if there was room for it in the buffer and
\* no write has failed.
Told(c) == client[c].ended \in {written[c][i] : i \in DOMAIN written[c]}

Queued(c) ==
  /\ writer[c] # "gone"
  /\ client[c].ended \in {client[c].send[i] : i \in DOMAIN client[c].send}

LastWordsArrive ==
  \A c \in Conns : Queued(c) ~> Told(c) \/ peer[c] = "gone"

=============================================================================
