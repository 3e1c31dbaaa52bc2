---------------------------- MODULE ClientProofs ----------------------------
(***************************************************************************)
(* What Client guarantees for any number of connections, any size of the   *)
(* buffer and any number of messages: the room knows every connection that *)
(* is open, and what is written is what was sent, in order.                *)
(***************************************************************************)
EXTENDS Client, TLAPS

-----------------------------------------------------------------------------
(* What Send and Close do to one client *)

\* The messages queued at m follow message b, up to the last one sent.
InOrder(m, b) ==
  /\ \A i \in 1..Len(m.send) : m.send[i] = b + i
  /\ ~m.closed => m.said = b + Len(m.send)

\* n is what m may have become: still in order if m was, and closed if m was.
Grows(m, n) ==
  /\ n \in ClientType
  /\ Len(n.send) <= Buffer
  /\ m.closed => n.closed
  /\ \A b \in Nat : InOrder(m, b) => InOrder(n, b)

Sound(m) == m \in ClientType /\ Len(m.send) <= Buffer

LEMMA Stays == \A m : Sound(m) => Grows(m, m)
BY DEF Sound, Grows

LEMMA SendGrows ==
  ASSUME NEW m, Sound(m)
  PROVE  Grows(m, Send(m)) /\ Sound(Send(m))
<1>1. m.send \in Seq(Nat) /\ m.said \in Nat /\ Len(m.send) \in Nat
  BY DEF Sound, ClientType
<1>2. CASE m.closed \/ Len(m.send) >= Buffer
  <2>1. Send(m) = [m EXCEPT !.said = @ + 1, !.closed = TRUE]
    BY <1>2 DEF Send
  <2>2. Send(m) = [closed |-> TRUE, send |-> m.send, said |-> m.said + 1, ended |-> m.ended]
    BY <2>1 DEF Sound, ClientType
  <2>3. /\ Send(m) \in ClientType
        /\ Send(m).send = m.send
        /\ Send(m).closed = TRUE
    BY <2>2, <1>1 DEF Sound, ClientType
  <2> QED
    BY <2>3 DEF Grows, InOrder, Sound
<1>3. CASE ~(m.closed \/ Len(m.send) >= Buffer)
  <2>1. Send(m) = [m EXCEPT !.said = @ + 1, !.send = Append(@, m.said + 1)]
    BY <1>3 DEF Send
  <2>2. /\ Append(m.send, m.said + 1) \in Seq(Nat)
        /\ Len(Append(m.send, m.said + 1)) = Len(m.send) + 1
        /\ \A i \in 1..Len(m.send) : Append(m.send, m.said + 1)[i] = m.send[i]
        /\ Append(m.send, m.said + 1)[Len(m.send) + 1] = m.said + 1
    BY <1>1
  <2> DEFINE q == Append(m.send, m.said + 1)
  <2>0. Send(m) = [closed |-> m.closed, send |-> q, said |-> m.said + 1, ended |-> m.ended]
    BY <2>1 DEF Sound, ClientType
  <2>3. /\ Send(m) \in ClientType
        /\ Send(m).send = q
        /\ Send(m).said = m.said + 1
        /\ Send(m).closed = m.closed
    BY <2>0, <2>2, <1>1 DEF Sound, ClientType
  <2>4. Len(Send(m).send) <= Buffer
    BY <1>1, <1>3, <2>2, <2>3, ClientAssumption DEF Sound
  <2>5. ASSUME NEW b \in Nat, InOrder(m, b)
        PROVE  InOrder(Send(m), b)
    <3>1. m.said = b + Len(m.send)
      BY <1>3, <2>5 DEF InOrder
    <3>2. ASSUME NEW i \in 1..(Len(m.send) + 1)
          PROVE  Append(m.send, m.said + 1)[i] = b + i
      <4>1. CASE i \in 1..Len(m.send)
        BY <2>2, <2>5, <4>1 DEF InOrder
      <4>2. CASE i = Len(m.send) + 1
        BY <1>1, <2>2, <3>1, <4>2
      <4> QED
        BY <1>1, <4>1, <4>2
    <3>3. Len(Send(m).send) = Len(m.send) + 1
      BY <2>2, <2>3
    <3>4. \A i \in 1..Len(Send(m).send) : Send(m).send[i] = b + i
      BY <2>3, <3>2, <3>3
    <3>5. Send(m).said = b + Len(Send(m).send)
      BY <1>1, <2>3, <3>1, <3>3
    <3> QED
      BY <3>4, <3>5 DEF InOrder
  <2> QED
    BY <1>3, <2>3, <2>4, <2>5 DEF Grows, Sound
<1> QED
  BY <1>2, <1>3

LEMMA CloseGrows ==
  ASSUME NEW m, Sound(m)
  PROVE  Grows(m, Close(m)) /\ Sound(Close(m)) /\ Close(m).closed
<1>1. /\ Close(m) \in ClientType
      /\ Close(m).send = m.send
      /\ Close(m).closed = TRUE
  BY DEF Close, Sound, ClientType
<1> QED
  BY <1>1 DEF Grows, InOrder, Sound

LEMMA SendEndedGrows ==
  ASSUME NEW m, Sound(m)
  PROVE  Grows(m, SendEnded(m)) /\ Sound(SendEnded(m))
<1>1. Grows(m, Send(m)) /\ Sound(Send(m)) /\ m.said \in Nat
  BY SendGrows DEF Sound, ClientType
<1> DEFINE n == Send(m)
<1>0. SendEnded(m) = [closed |-> n.closed, send |-> n.send, said |-> n.said, ended |-> m.said + 1]
  <2>1. n \in ClientType
    BY <1>1 DEF Sound
  <2>2. SendEnded(m) = [n EXCEPT !.ended = m.said + 1]
    BY DEF SendEnded
  <2> HIDE DEF n
  <2> QED
    BY <2>1, <2>2 DEF ClientType
<1>2. /\ SendEnded(m) \in ClientType
      /\ SendEnded(m).send = Send(m).send
      /\ SendEnded(m).closed = Send(m).closed
      /\ SendEnded(m).said = Send(m).said
  BY <1>0, <1>1 DEF Sound, ClientType
<1> QED
  BY <1>1, <1>2 DEF Grows, InOrder, Sound

LEMMA GrowsOn ==
  ASSUME NEW m, NEW n, NEW o, Grows(m, n), Grows(n, o)
  PROVE  Grows(m, o)
BY DEF Grows

-----------------------------------------------------------------------------
(* The inductive invariant *)

\* Pumps run only for a connection that was let in.
PumpsStarted ==
  \A c \in Conns : handler[c] # "pumping" => writer[c] = "unborn" /\ reader[c] = "unborn"

\* A connection closes its client before it asks to be detached.
DetachedIsClosed == \A c \in Conns : reader[c] = "detaching" => client[c].closed

IInv ==
  /\ TypeOK
  /\ OpenMeansSeated
  /\ WrittenInOrder
  /\ PumpsStarted
  /\ DetachedIsClosed

LEMMA ClientsAreSound == TypeOK => \A c \in Conns : Sound(client[c])
BY DEF TypeOK, Sound

\* What the writer of a connection has still to write follows what it has.
LEMMA OrderOf ==
  ASSUME IInv, NEW c \in Conns
  PROVE  /\ Len(written[c]) \in Nat
         /\ \A i \in 1..Len(written[c]) : written[c][i] = i
         /\ writer[c] = "writing" =>
              inflight[c] = Len(written[c]) + 1 /\ InOrder(client[c], Len(written[c]) + 1)
         /\ writer[c] \in {"waiting", "unborn"} => InOrder(client[c], Len(written[c]))
<1>1. Len(written[c]) \in Nat
  BY DEF IInv, TypeOK
<1>2. writer[c] # "gone" => InOrder(client[c], Len(written[c]) + Pending(c))
  BY DEF IInv, WrittenInOrder, InOrder
<1>3. CASE writer[c] = "writing"
  BY <1>1, <1>2, <1>3 DEF Pending, IInv, WrittenInOrder
<1>4. CASE writer[c] # "writing"
  <2>1. Len(written[c]) + Pending(c) = Len(written[c])
    BY <1>1, <1>4 DEF Pending
  <2> QED
    BY <1>1, <1>2, <1>4, <2>1 DEF IInv, WrittenInOrder
<1> QED
  BY <1>3, <1>4

\* Conversely, after a step.
LEMMA InOrderAgain ==
  ASSUME \A c \in Conns :
           /\ Len(written'[c]) \in Nat
           /\ \A i \in 1..Len(written'[c]) : written'[c][i] = i
           /\ writer'[c] = "writing" =>
                inflight'[c] = Len(written'[c]) + 1 /\ InOrder(client'[c], Len(written'[c]) + 1)
           /\ writer'[c] \in {"waiting", "unborn"} => InOrder(client'[c], Len(written'[c])),
         writer' \in [Conns -> {"unborn", "waiting", "writing", "gone"}]
  PROVE  WrittenInOrder'
<1> SUFFICES ASSUME NEW c \in Conns
             PROVE  writer'[c] # "gone" => InOrder(client'[c], Len(written'[c]) + Pending(c)')
  BY DEF WrittenInOrder, InOrder
<1>1. CASE writer'[c] = "writing"
  BY <1>1 DEF Pending
<1>2. CASE writer'[c] # "writing"
  <2>1. Len(written'[c]) + Pending(c)' = Len(written'[c])
    BY <1>2 DEF Pending
  <2> QED
    BY <1>2, <2>1
<1> QED
  BY <1>1, <1>2

\* Whatever is sent or closed, the pumps' part stays in order.
LEMMA GrowthKeepsOrder ==
  ASSUME IInv, client' \in [Conns -> ClientType],
         \A c \in Conns : Grows(client[c], client'[c]),
         UNCHANGED <<writer, inflight, reader, written>>
  PROVE  /\ WrittenInOrder'
         /\ DetachedIsClosed'
         /\ \A c \in Conns : Len(client'[c].send) <= Buffer
<1>1. ASSUME NEW c \in Conns
      PROVE  /\ \A i \in 1..Len(written[c]) : written[c][i] = i
             /\ writer[c] = "writing" => inflight[c] = Len(written[c]) + 1
             /\ writer[c] # "gone" => InOrder(client'[c], Len(written[c]) + Pending(c))
  <2>1. Len(written[c]) + Pending(c) \in Nat
    BY DEF IInv, TypeOK, Pending
  <2>2. writer[c] # "gone" => InOrder(client[c], Len(written[c]) + Pending(c))
    BY DEF IInv, WrittenInOrder, InOrder
  <2> QED
    BY <2>1, <2>2 DEF Grows, IInv, WrittenInOrder
<1>2. WrittenInOrder'
  BY <1>1 DEF WrittenInOrder, InOrder, Pending
<1> QED
  BY <1>2 DEF Grows, IInv, DetachedIsClosed

-----------------------------------------------------------------------------
(* Every step keeps it *)

LEMMA InitIInv == Init => IInv
<1> SUFFICES ASSUME Init PROVE IInv
  OBVIOUS
<1>1. Fresh \in ClientType /\ Len(Fresh.send) = 0 /\ Fresh.said = 0
  BY DEF Fresh, ClientType
<1>2. TypeOK
  BY <1>1, ClientAssumption DEF Init, TypeOK
<1>3. WrittenInOrder
  BY <1>1 DEF Init, WrittenInOrder, Pending
<1> QED
  BY <1>2, <1>3 DEF Init, IInv, OpenMeansSeated, PumpsStarted, DetachedIsClosed

\* What a room does to the clients it knows, it does with Send and Close.
LEMMA RoomKeepsIInv ==
  ASSUME IInv, Say \/ EndSession \/ Kick \/ Shutdown
  PROVE  IInv'
<1>0. TypeOK /\ \A c \in Conns : Sound(client[c])
  BY ClientsAreSound DEF IInv
<1>1. UNCHANGED <<handler, writer, inflight, reader, open, written, peer>>
  BY DEF Say, EndSession, Kick, Shutdown, room, pumps, wire
<1>2. /\ client' \in [Conns -> ClientType]
      /\ \A c \in Conns : Grows(client[c], client'[c])
  <2>1. ASSUME NEW c \in Conns
        PROVE  /\ Grows(client[c], client[c])
               /\ Grows(client[c], Send(client[c]))
               /\ Grows(client[c], Close(client[c]))
               /\ Grows(client[c], Close(Send(client[c])))
               /\ Grows(client[c], Close(SendEnded(client[c])))
    BY <1>0, Stays, SendGrows, CloseGrows, SendEndedGrows, GrowsOn
  <2>2. client \in [Conns -> ClientType]
    BY <1>0 DEF TypeOK
  <2>3. CASE Say
    <3>1. seat \in Conns /\ client' = [client EXCEPT ![seat] = Send(client[seat])]
      BY <1>0, <2>3 DEF Say, TypeOK
    <3>2. \A c \in Conns : client'[c] = IF c = seat THEN Send(client[c]) ELSE client[c]
      BY <2>2, <3>1
    <3>3. client' \in [Conns -> ClientType]
      BY <2>1, <2>2, <3>1 DEF Grows
    <3> QED
      BY <2>1, <3>2, <3>3
  <2>4. CASE EndSession
    BY <2>1, <2>2, <2>4 DEF EndSession, Grows
  <2>5. CASE Kick
    BY <2>1, <2>2, <2>5 DEF Kick, Grows
  <2>6. CASE Shutdown
    BY <2>1, <2>2, <2>6 DEF Shutdown, Replaced, Grows
  <2> QED
    BY <2>3, <2>4, <2>5, <2>6
<1>3. /\ WrittenInOrder'
      /\ DetachedIsClosed'
      /\ \A c \in Conns : Len(client'[c].send) <= Buffer
  BY <1>1, <1>2, GrowthKeepsOrder
<1>4. TypeOK'
  BY <1>0, <1>1, <1>2, <1>3 DEF TypeOK, Say, EndSession, Kick, Shutdown, room
<1>5. OpenMeansSeated'
  <2>1. CASE Say
    BY <1>1, <1>2, <2>1 DEF Say, room, Grows, IInv, OpenMeansSeated
  <2>2. ASSUME NEW c \in Conns, EndSession \/ Kick \/ Shutdown, ~client'[c].closed
        PROVE  c # seat
    <3>1. Close(Send(client[c])).closed /\ Close(SendEnded(client[c])).closed
          /\ Close(client[c]).closed
      BY <1>0, CloseGrows, SendGrows, SendEndedGrows
    <3> QED
      BY <2>2, <3>1 DEF EndSession, Kick, Shutdown, Replaced
  <2> QED
    BY <1>1, <1>2, <2>1, <2>2 DEF Grows, IInv, OpenMeansSeated
<1>6. PumpsStarted'
  BY <1>1 DEF IInv, PumpsStarted
<1> QED
  BY <1>3, <1>4, <1>5, <1>6 DEF IInv

\* The new connection takes the seat and the old one is closed, or the room
\* ends and both are closed.
LEMMA AttachKeepsIInv ==
  ASSUME IInv, NEW c \in Conns, AttachPlayer(c)
  PROVE  IInv'
<1>0. TypeOK /\ \A d \in Conns : Sound(client[d])
  BY ClientsAreSound DEF IInv
<1>1. UNCHANGED <<writer, inflight, reader, open, written, peer>>
  BY DEF AttachPlayer, wire
<1>2. ASSUME NEW d \in Conns
      PROVE  /\ Grows(client[d], Replaced[d]) /\ Sound(Replaced[d])
             /\ d = seat => Replaced[d].closed
  BY <1>0, Stays, CloseGrows DEF Replaced
<1>3. /\ Grows(client[c], Send(Replaced[c])) /\ Sound(Send(Replaced[c]))
      /\ Grows(client[c], Send(Send(Replaced[c])))
      /\ Grows(client[c], Close(SendEnded(Replaced[c])))
      /\ Close(SendEnded(Replaced[c])).closed
  BY <1>2, SendGrows, SendEndedGrows, CloseGrows, GrowsOn
<1>4. PICK n : /\ \/ client' = client /\ handler' = [handler EXCEPT ![c] = "refused"]
                     /\ UNCHANGED seat
                  \/ client' = [Replaced EXCEPT ![c] = n]
                     /\ handler' = [handler EXCEPT ![c] = "attached"]
                     /\ \/ seat' = c
                        \/ seat' = None /\ n.closed
               /\ Grows(client[c], n)
  <2>1. CASE client' = client /\ handler' = [handler EXCEPT ![c] = "refused"] /\ UNCHANGED seat
    BY <1>0, <2>1, Stays
  <2>2. CASE seat' = c /\ handler' = [handler EXCEPT ![c] = "attached"]
             /\ \/ client' = [Replaced EXCEPT ![c] = Send(@)]
                \/ client' = [Replaced EXCEPT ![c] = Send(Send(@))]
    BY <1>3, <2>2 DEF Replaced
  <2>3. CASE seat' = None /\ handler' = [handler EXCEPT ![c] = "attached"]
             /\ client' = [Replaced EXCEPT ![c] = Close(SendEnded(@))]
    BY <1>3, <2>3 DEF Replaced
  <2> QED
    BY <2>1, <2>2, <2>3 DEF AttachPlayer, room
<1>5. /\ client' \in [Conns -> ClientType]
      /\ \A d \in Conns : Grows(client[d], client'[d])
  <2>1. CASE client' = client
    BY <1>0, <2>1, Stays DEF TypeOK
  <2>2. CASE client' = [Replaced EXCEPT ![c] = n]
    <3>1. Replaced \in [Conns -> ClientType]
      BY <1>2 DEF Replaced, Sound
    <3>2. n \in ClientType
      BY <1>4 DEF Grows
    <3>3. \A d \in Conns : client'[d] = IF d = c THEN n ELSE Replaced[d]
      BY <2>2 DEF Replaced
    <3> QED
      BY <1>2, <1>4, <2>2, <3>1, <3>2, <3>3
  <2> QED
    BY <1>4, <2>1, <2>2
<1>6. /\ WrittenInOrder'
      /\ DetachedIsClosed'
      /\ \A d \in Conns : Len(client'[d].send) <= Buffer
  BY <1>1, <1>5, GrowthKeepsOrder
<1>7. seat' \in Conns \cup {None} /\ serving' \in BOOLEAN /\ member' \in BOOLEAN
  BY <1>0 DEF AttachPlayer, room, TypeOK
<1>8. TypeOK'
  BY <1>0, <1>1, <1>4, <1>5, <1>6, <1>7 DEF TypeOK
<1>9. OpenMeansSeated'
  <2>1. ASSUME NEW d \in Conns, d # c, ~client'[d].closed, handler'[d] \in {"attached", "pumping"}
        PROVE  client' = client /\ seat' = d
    <3>1. handler'[d] = handler[d]
      BY <1>0, <1>4, <2>1 DEF TypeOK
    <3>2. ~client[d].closed
      BY <1>5, <2>1 DEF Grows
    <3>3. seat = d
      BY <2>1, <3>1, <3>2 DEF IInv, OpenMeansSeated
    <3>4. client' # [Replaced EXCEPT ![c] = n]
      BY <1>2, <2>1, <3>3 DEF Replaced
    <3> QED
      BY <1>4, <3>3, <3>4
  <2>2. ASSUME ~client'[c].closed, handler'[c] \in {"attached", "pumping"}
        PROVE  seat' = c
    <3>1. handler'[c] # "refused"
      BY <2>2
    <3>2. client' = [Replaced EXCEPT ![c] = n] /\ (seat' = c \/ n.closed)
      BY <1>0, <1>4, <3>1 DEF TypeOK
    <3>3. client'[c] = n
      BY <3>2 DEF Replaced
    <3> QED
      BY <2>2, <3>2, <3>3
  <2> QED
    BY <2>1, <2>2 DEF OpenMeansSeated
<1>10. PumpsStarted'
  <2>1. handler[c] = "attaching" /\ handler'[c] # "pumping"
        /\ \A d \in Conns \ {c} : handler'[d] = handler[d]
    BY <1>0, <1>4 DEF AttachPlayer, TypeOK
  <2> QED
    BY <1>1, <2>1 DEF IInv, PumpsStarted
<1> QED
  BY <1>6, <1>8, <1>9, <1>10 DEF IInv

\* The handler before and after its connection is attached.
LEMMA HandlerKeepsIInv ==
  ASSUME IInv, NEW c \in Conns,
         Connect(c) \/ AttachTooLate(c) \/ Refuse(c) \/ StartPumps(c)
  PROVE  IInv'
<1>1. UNCHANGED <<serving, member, seat, client, inflight, written, peer>>
  BY DEF Connect, AttachTooLate, Refuse, StartPumps, room, pumps, wire
<1>2. TypeOK'
  BY <1>1 DEF Connect, AttachTooLate, Refuse, StartPumps, room, pumps, wire, IInv, TypeOK
<1>3. OpenMeansSeated'
  BY <1>1 DEF Connect, AttachTooLate, Refuse, StartPumps, pumps, IInv, TypeOK, OpenMeansSeated
<1>4. PumpsStarted' /\ DetachedIsClosed'
  <2>1. ASSUME NEW d \in Conns
        PROVE  \/ UNCHANGED <<writer, reader>> /\ (handler'[d] = "pumping" <=> handler[d] = "pumping")
               \/ /\ \A e \in Conns \ {c} : /\ handler'[e] = handler[e]
                                            /\ writer'[e] = writer[e]
                                            /\ reader'[e] = reader[e]
                  /\ handler'[c] = "pumping" /\ reader'[c] = "reading"
    BY DEF Connect, AttachTooLate, Refuse, StartPumps, pumps, IInv, TypeOK
  <2>2. PumpsStarted'
    BY <2>1 DEF IInv, PumpsStarted
  <2>3. DetachedIsClosed'
    BY <1>1, <2>1 DEF IInv, DetachedIsClosed
  <2> QED
    BY <2>2, <2>3
<1>5. WrittenInOrder'
  <2>1. ASSUME NEW d \in Conns
        PROVE  writer'[d] = writer[d] \/ (writer[d] = "unborn" /\ writer'[d] = "waiting")
    BY DEF Connect, AttachTooLate, Refuse, StartPumps, pumps, IInv, TypeOK, PumpsStarted
  <2> QED
    BY <1>1, <2>1 DEF IInv, WrittenInOrder, Pending
<1> QED
  BY <1>2, <1>3, <1>4, <1>5 DEF IInv

\* The writer takes the first message in the queue.
LEMMA TakeKeepsIInv ==
  ASSUME IInv, NEW c \in Conns, Take(c)
  PROVE  IInv'
<1> DEFINE q == client[c].send
<1>1. q \in Seq(Nat) /\ q # <<>> /\ client[c] \in ClientType /\ Len(q) <= Buffer
  BY DEF Take, IInv, TypeOK, ClientType
<1>2. /\ Head(q) \in Nat /\ Tail(q) \in Seq(Nat)
      /\ Len(q) \in Nat \ {0} /\ Len(Tail(q)) = Len(q) - 1
      /\ Head(q) = q[1]
      /\ \A i \in 1..Len(Tail(q)) : Tail(q)[i] = q[i + 1]
  BY <1>1
<1>3. /\ client' = [client EXCEPT ![c].send = Tail(q)]
      /\ inflight' = [inflight EXCEPT ![c] = Head(q)]
      /\ writer' = [writer EXCEPT ![c] = "writing"]
      /\ writer[c] = "waiting"
      /\ UNCHANGED <<serving, member, seat, handler, reader, open, written, peer>>
  BY DEF Take, room, wire
<1>4. client \in [Conns -> ClientType] /\ writer \in [Conns -> {"unborn", "waiting", "writing", "gone"}]
      /\ inflight \in [Conns -> Nat] /\ written \in [Conns -> Seq(Nat)]
  BY DEF IInv, TypeOK
<1>5. /\ client'[c] \in ClientType
      /\ client'[c].send = Tail(q)
      /\ client'[c].closed = client[c].closed
      /\ client'[c].said = client[c].said
      /\ \A d \in Conns \ {c} : client'[d] = client[d]
      /\ client' \in [Conns -> ClientType]
  <2> DEFINE m == [client[c] EXCEPT !.send = Tail(q)]
  <2>1. /\ m \in ClientType /\ m.send = Tail(q)
        /\ m.closed = client[c].closed /\ m.said = client[c].said
    BY <1>1, <1>2 DEF ClientType
  <2>2. client' = [client EXCEPT ![c] = m]
    BY <1>3
  <2> HIDE DEF m, q
  <2> QED
    BY <1>4, <2>1, <2>2
<1>6. TypeOK'
  <2>1. Len(Tail(q)) <= Buffer
    BY <1>1, <1>2, ClientAssumption
  <2>2. \A d \in Conns : Len(client'[d].send) <= Buffer
    BY <1>5, <2>1 DEF IInv, TypeOK
  <2> QED
    BY <1>2, <1>3, <1>4, <1>5, <2>2 DEF IInv, TypeOK
<1>7. WrittenInOrder'
  <2> DEFINE sent == Len(written[c])
  <2>1. /\ sent \in Nat
        /\ \A i \in 1..sent : written[c][i] = i
        /\ \A i \in 1..Len(q) : q[i] = sent + i
        /\ ~client[c].closed => client[c].said = sent + Len(q)
    BY <1>3, OrderOf DEF InOrder
  <2>2. inflight'[c] = sent + 1
    <3>1. 1 \in 1..Len(q)
      BY <1>2
    <3>2. Head(q) = sent + 1
      BY <1>2, <2>1, <3>1
    <3>3. inflight'[c] = Head(q)
      BY <1>3, <1>4
    <3> QED
      BY <3>2, <3>3
  <2>3. ASSUME NEW i \in 1..Len(Tail(q))
        PROVE  Tail(q)[i] = (sent + 1) + i
    <3>1. i + 1 \in 1..Len(q) /\ Tail(q)[i] = q[i + 1]
      BY <1>2
    <3> QED
      BY <2>1, <3>1
  <2>4. ~client[c].closed => client[c].said = (sent + 1) + Len(Tail(q))
    <3>1. \A l, t, n \in Nat : t = l - 1 => (n + 1) + t = n + l
      OBVIOUS
    <3>2. Len(q) \in Nat /\ Len(Tail(q)) \in Nat
      BY <1>2
    <3>3. (sent + 1) + Len(Tail(q)) = sent + Len(q)
      BY <1>2, <2>1, <3>1, <3>2
    <3> QED
      BY <2>1, <3>3
  <2>5. InOrder(client'[c], sent + 1)
    BY <1>5, <2>3, <2>4 DEF InOrder
  <2>6. ASSUME NEW d \in Conns \ {c}
        PROVE  writer'[d] = writer[d] /\ inflight'[d] = inflight[d] /\ client'[d] = client[d]
    BY <1>3, <1>4, <1>5
  <2>7. writer'[c] = "writing" /\ written' = written
        /\ writer' \in [Conns -> {"unborn", "waiting", "writing", "gone"}]
    BY <1>3, <1>4
  <2>8. ASSUME NEW d \in Conns
        PROVE  /\ Len(written'[d]) \in Nat
               /\ \A i \in 1..Len(written'[d]) : written'[d][i] = i
               /\ writer'[d] = "writing" =>
                    inflight'[d] = Len(written'[d]) + 1 /\ InOrder(client'[d], Len(written'[d]) + 1)
               /\ writer'[d] \in {"waiting", "unborn"} => InOrder(client'[d], Len(written'[d]))
    <3>1. CASE d = c
      BY <2>1, <2>2, <2>5, <2>7, <3>1
    <3>2. CASE d # c
      BY <2>6, <2>7, <3>2, OrderOf
    <3> QED
      BY <3>1, <3>2
  <2> QED
    BY <2>7, <2>8, InOrderAgain
<1>8. OpenMeansSeated' /\ PumpsStarted' /\ DetachedIsClosed'
  BY <1>3, <1>4, <1>5 DEF IInv, OpenMeansSeated, PumpsStarted, DetachedIsClosed
<1> QED
  BY <1>6, <1>7, <1>8 DEF IInv

\* The message the writer holds is the next one.
LEMMA WriteKeepsIInv ==
  ASSUME IInv, NEW c \in Conns, Write(c)
  PROVE  IInv'
<1>1. /\ written' = [written EXCEPT ![c] = Append(written[c], inflight[c])]
      /\ inflight' = [inflight EXCEPT ![c] = 0]
      /\ writer' = [writer EXCEPT ![c] = "waiting"]
      /\ writer[c] = "writing"
      /\ UNCHANGED <<serving, member, seat, client, handler, reader, open, peer>>
  BY DEF Write, room
<1>2. writer \in [Conns -> {"unborn", "waiting", "writing", "gone"}]
      /\ inflight \in [Conns -> Nat] /\ written \in [Conns -> Seq(Nat)]
      /\ client \in [Conns -> ClientType]
  BY DEF IInv, TypeOK
<1> DEFINE sent == Len(written[c])
           w == Append(written[c], inflight[c])
<1>3. /\ w \in Seq(Nat) /\ Len(w) = sent + 1 /\ sent \in Nat
      /\ \A i \in 1..sent : w[i] = written[c][i]
      /\ w[sent + 1] = inflight[c]
      /\ written'[c] = w
  BY <1>1, <1>2
<1>4. TypeOK'
  BY <1>1, <1>2, <1>3 DEF IInv, TypeOK
<1>5. WrittenInOrder'
  <2>1. /\ \A i \in 1..sent : written[c][i] = i
        /\ inflight[c] = sent + 1
        /\ InOrder(client[c], sent + 1)
    BY <1>1, OrderOf
  <2>2. \A i \in 1..(sent + 1) : w[i] = i
    BY <1>3, <2>1
  <2>3. ASSUME NEW d \in Conns \ {c}
        PROVE  writer'[d] = writer[d] /\ inflight'[d] = inflight[d] /\ written'[d] = written[d]
    BY <1>1, <1>2
  <2>4. writer'[c] = "waiting" /\ client' = client
        /\ writer' \in [Conns -> {"unborn", "waiting", "writing", "gone"}]
    BY <1>1, <1>2
  <2>5. ASSUME NEW d \in Conns
        PROVE  /\ Len(written'[d]) \in Nat
               /\ \A i \in 1..Len(written'[d]) : written'[d][i] = i
               /\ writer'[d] = "writing" =>
                    inflight'[d] = Len(written'[d]) + 1 /\ InOrder(client'[d], Len(written'[d]) + 1)
               /\ writer'[d] \in {"waiting", "unborn"} => InOrder(client'[d], Len(written'[d]))
    <3>1. CASE d = c
      <4>1. written'[d] = w /\ Len(w) = sent + 1 /\ sent + 1 \in Nat
        BY <1>3, <3>1
      <4>2. InOrder(client'[d], Len(written'[d]))
        BY <2>1, <2>4, <3>1, <4>1
      <4>3. \A i \in 1..Len(written'[d]) : written'[d][i] = i
        BY <2>2, <4>1
      <4> QED
        BY <2>4, <3>1, <4>1, <4>2, <4>3
    <3>2. CASE d # c
      BY <2>3, <2>4, <3>2, OrderOf
    <3> QED
      BY <3>1, <3>2
  <2> QED
    BY <2>4, <2>5, InOrderAgain
<1>6. OpenMeansSeated' /\ PumpsStarted' /\ DetachedIsClosed'
  BY <1>1, <1>2 DEF IInv, OpenMeansSeated, PumpsStarted, DetachedIsClosed
<1> QED
  BY <1>4, <1>5, <1>6 DEF IInv

\* A writer that has gone writes no more.
LEMMA CloseConnKeepsIInv ==
  ASSUME IInv, NEW c \in Conns, WriteFails(c) \/ CloseDrained(c)
  PROVE  IInv'
<1>1. /\ writer' = [writer EXCEPT ![c] = "gone"]
      /\ open' = [open EXCEPT ![c] = FALSE]
      /\ writer[c] \in {"waiting", "writing"}
      /\ UNCHANGED <<serving, member, seat, client, handler, inflight, reader, written, peer>>
  BY DEF WriteFails, CloseDrained, CloseConn, room
<1>2. TypeOK'
  BY <1>1 DEF IInv, TypeOK
<1>3. WrittenInOrder'
  BY <1>1 DEF IInv, TypeOK, WrittenInOrder, Pending
<1> QED
  BY <1>1, <1>2, <1>3 DEF IInv, TypeOK, OpenMeansSeated, PumpsStarted, DetachedIsClosed

\* The reader answers a ping or closes the client.
LEMMA ReaderClientKeepsIInv ==
  ASSUME IInv, NEW c \in Conns, Pong(c) \/ Leave(c)
  PROVE  IInv'
<1>0. TypeOK /\ \A d \in Conns : Sound(client[d])
  BY ClientsAreSound DEF IInv
<1>1. UNCHANGED <<serving, member, seat, handler, writer, inflight, open, written, peer>>
  BY DEF Pong, Leave, room, pumps, wire
<1>2. PICK n : client' = [client EXCEPT ![c] = n] /\ Grows(client[c], n)
               /\ (Leave(c) => n.closed)
  <2>1. CASE Pong(c) /\ ~Leave(c)
    BY <1>0, <2>1, SendGrows DEF Pong
  <2>2. CASE Leave(c)
    BY <1>0, <2>2, CloseGrows DEF Leave
  <2> QED
    BY <2>1, <2>2
<1>3. /\ client' \in [Conns -> ClientType]
      /\ client'[c] = n
      /\ \A d \in Conns : Grows(client[d], client'[d])
  BY <1>0, <1>2, Stays DEF TypeOK, Grows
<1>4. \A d \in Conns : client[d].closed => client'[d].closed
  BY <1>3 DEF Grows
<1>5. reader' = reader \/ (Leave(c) /\ reader' = [reader EXCEPT ![c] = "detaching"]
                           /\ reader[c] = "leaving")
  BY DEF Pong, Leave, pumps
<1>6. WrittenInOrder' /\ \A d \in Conns : Len(client'[d].send) <= Buffer
  <2>1. ASSUME NEW d \in Conns
        PROVE  /\ \A i \in 1..Len(written[d]) : written[d][i] = i
               /\ writer[d] = "writing" => inflight[d] = Len(written[d]) + 1
               /\ writer[d] # "gone" => InOrder(client'[d], Len(written[d]) + Pending(d))
    <3>1. Len(written[d]) + Pending(d) \in Nat
      BY <1>0 DEF TypeOK, Pending
    <3>2. writer[d] # "gone" => InOrder(client[d], Len(written[d]) + Pending(d))
      BY DEF IInv, WrittenInOrder, InOrder
    <3> QED
      BY <1>3, <3>1, <3>2 DEF Grows, IInv, WrittenInOrder
  <2> QED
    BY <1>1, <1>3, <2>1 DEF WrittenInOrder, InOrder, Pending, Grows
<1>7. TypeOK'
  BY <1>0, <1>1, <1>3, <1>5, <1>6 DEF TypeOK
<1>8. OpenMeansSeated' /\ PumpsStarted'
  BY <1>0, <1>1, <1>4, <1>5 DEF IInv, TypeOK, OpenMeansSeated, PumpsStarted
<1>9. DetachedIsClosed'
  BY <1>0, <1>2, <1>3, <1>4, <1>5 DEF IInv, TypeOK, DetachedIsClosed
<1> QED
  BY <1>6, <1>7, <1>8, <1>9 DEF IInv

\* A late Detach leaves the seat to whoever has it by then.
LEMMA DetachKeepsIInv ==
  ASSUME IInv, NEW c \in Conns, Detach(c) \/ ReadFails(c) \/ FrameTooLong(c) \/ PeerGoes(c)
  PROVE  IInv'
<1>1. UNCHANGED <<serving, member, client, handler, writer, inflight, open, written>>
  BY DEF Detach, ReadFails, FrameTooLong, PeerGoes, room, pumps, wire
<1>2. TypeOK'
  BY <1>1 DEF Detach, ReadFails, FrameTooLong, PeerGoes, room, pumps, wire, IInv, TypeOK
<1>3. WrittenInOrder'
  BY <1>1 DEF IInv, WrittenInOrder, Pending
<1>4. OpenMeansSeated'
  <2>1. seat' = seat \/ (client[c].closed /\ seat = c)
    BY DEF Detach, ReadFails, FrameTooLong, PeerGoes, room, IInv, DetachedIsClosed
  <2> QED
    BY <1>1, <2>1 DEF IInv, OpenMeansSeated
<1>5. PumpsStarted' /\ DetachedIsClosed'
  BY <1>1 DEF Detach, ReadFails, FrameTooLong, PeerGoes, pumps, IInv, TypeOK, PumpsStarted, DetachedIsClosed
<1> QED
  BY <1>2, <1>3, <1>4, <1>5 DEF IInv

LEMMA NextIInv == IInv /\ [Next]_vars => IInv'
<1> SUFFICES ASSUME IInv, [Next]_vars PROVE IInv'
  OBVIOUS
<1>1. CASE UNCHANGED vars
  <2>1. UNCHANGED <<serving, member, seat, client, handler, writer, inflight, reader, open, written, peer>>
    BY <1>1 DEF vars, room, pumps, wire
  <2>2. TypeOK'
    BY <2>1 DEF IInv, TypeOK
  <2>3. WrittenInOrder'
    BY <2>1 DEF IInv, WrittenInOrder, Pending
  <2> QED
    BY <2>1, <2>2, <2>3 DEF IInv, OpenMeansSeated, PumpsStarted, DetachedIsClosed
<1>2. CASE Say \/ EndSession \/ Kick \/ Shutdown
  BY <1>2, RoomKeepsIInv
<1>3. ASSUME NEW c \in Conns, Connect(c) \/ HandlerStep(c)
      PROVE  IInv'
  BY <1>3, AttachKeepsIInv, HandlerKeepsIInv DEF HandlerStep
<1>4. ASSUME NEW c \in Conns, WriterStep(c)
      PROVE  IInv'
  BY <1>4, TakeKeepsIInv, WriteKeepsIInv, CloseConnKeepsIInv DEF WriterStep
<1>5. ASSUME NEW c \in Conns, ReaderStep(c) \/ Pong(c) \/ FrameTooLong(c) \/ PeerGoes(c)
      PROVE  IInv'
  BY <1>5, ReaderClientKeepsIInv, DetachKeepsIInv DEF ReaderStep
<1> QED
  BY <1>1, <1>2, <1>3, <1>4, <1>5 DEF Next

-----------------------------------------------------------------------------
(* Theorems *)

\* Everything below rests on this.
THEOREM Invariance == Spec => []IInv
BY InitIInv, NextIInv, PTL DEF Spec

\* Every variable always has its type, and no buffer overflows.
THEOREM TypeCorrect == Spec => []TypeOK
BY Invariance, PTL DEF IInv

\* The room knows every open connection of a player, and there is one at most.
THEOREM OpenIsSeated == Spec => []OpenMeansSeated
BY Invariance, PTL DEF IInv

\* What a connection is written is what it was sent, in order and with no gap.
THEOREM InOrderWritten == Spec => []WrittenInOrder
BY Invariance, PTL DEF IInv

=============================================================================
