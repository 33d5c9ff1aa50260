----------------------------- MODULE WsHubProofs ------------------------------
(***************************************************************************)
(* For any number of clients and rooms and any buffer: the hub never sends *)
(* on a closed channel, knows exactly the clients that are in their rooms, *)
(* and implements PushFeed.                                                *)
(***************************************************************************)
EXTENDS WsHub, SequenceTheorems, TLAPS

(* Only a Broadcast that holds the mutex has clients to come to, and they   *)
(* are still registered, since Unregister needs the mutex too.             *)
MutexInv ==
    /\ ~locked => unsent = {}
    /\ \A c \in unsent : Registered(c) /\ next \in Events

\* A channel is closed when its reader is done.
ClosedInv == \A c \in closed : reader[c] = "done"

\* What the two pumps and the connection know of each other.
PumpInv ==
    \A c \in Clients :
        /\ conn[c] = "none" <=> reader[c] = "none"
        /\ reader[c] \in {"none", "upgraded"} => writer[c] = "none"
        /\ writer[c] # "none" => conn[c] # "none"
        /\ reader[c] \in {"leaving", "done"} => conn[c] # "open"
        /\ reader[c] = "done" => conn[c] = "shut"
        /\ IF writer[c] = "writing" THEN Len(inHand[c]) = 1 ELSE inHand[c] = <<>>

HubInv == TypeOK /\ MutexInv /\ ClosedInv /\ PumpInv /\ RoomsAreExact

\* Nobody is connected at first.
LEMMA HubInit == Init => HubInv
<1> SUFFICES ASSUME Init PROVE HubInv
  OBVIOUS
<1> USE HubAssumption DEF Init
<1>1. TypeOK
  <2>1. <<>> \in Seq(Events) /\ Len(<<>>) = 0
    BY EmptySeq
  <2>2. DOMAIN rooms = {}
    OBVIOUS
  <2>3. 0 \in 0 .. MaxEvents /\ 0 <= SendCap
    OBVIOUS
  <2>4. QED
    BY <2>1, <2>2, <2>3 DEF TypeOK
<1>2. MutexInv /\ ClosedInv /\ PumpInv
  BY DEF MutexInv, ClosedInv, PumpInv
<1>3. RoomsAreExact
  BY DEF RoomsAreExact, Members, Registered
<1>4. QED
  BY <1>1, <1>2, <1>3 DEF HubInv

\* The rooms stay exact: an entry appears with its first client and goes with its last.
LEMMA RegisterIsExact ==
    ASSUME HubInv, NEW c \in Clients, Register(c)
    PROVE  RoomsAreExact'
<1> USE HubAssumption DEF HubInv, TypeOK
<1>1. RoomOf[c] \in Rooms
  OBVIOUS
<1>2. DOMAIN rooms' = DOMAIN rooms \cup {RoomOf[c]}
  BY DEF Register, WithMember
<1>3. \A room \in Rooms : Members(room)' =
        IF room = RoomOf[c] THEN Members(room) \cup {c} ELSE Members(room)
  BY <1>1, <1>2 DEF Register, WithMember, Members
<1>4. \A d \in Clients : Registered(d)' <=> Registered(d) \/ d = c
  BY DEF Register, Registered
<1>5. \A room \in Rooms : Members(room)' = {d \in Clients : Registered(d)' /\ RoomOf[d] = room}
  BY <1>3, <1>4 DEF RoomsAreExact
<1>6. \A room \in DOMAIN rooms' : rooms'[room] # {}
  BY <1>1, <1>2 DEF Register, WithMember, Members, RoomsAreExact
<1>7. QED
  BY <1>5, <1>6 DEF RoomsAreExact, Registered

\* hub.go Unregister takes one client out of its room, and a room with nobody left out of the hub.
LEMMA UnregisterIsExact ==
    ASSUME HubInv, NEW c \in Clients, Unregister(c)
    PROVE  /\ RoomsAreExact'
           /\ DOMAIN rooms' \subseteq Rooms
           /\ \A room \in DOMAIN rooms' : rooms'[room] \subseteq Clients
           /\ closed' = closed \cup {c}
<1> USE HubAssumption DEF HubInv, TypeOK
<1> DEFINE room0 == RoomOf[c]
<1>1. room0 \in Rooms /\ c \in Members(room0)
  BY DEF Unregister, Registered, RoomsAreExact
<1>2. room0 \in DOMAIN rooms /\ rooms[room0] = Members(room0)
  BY <1>1 DEF Members
<1>3. rooms' = WithoutMember(room0, c) /\ closed' = closed \cup {c}
  BY <1>1 DEF Unregister
<1>4. \A d \in Clients : Registered(d)' <=> Registered(d) /\ d # c
  BY DEF Unregister, Registered
<1>5. CASE rooms[room0] = {c}
  <2>1. rooms' = [x \in DOMAIN rooms \ {room0} |-> rooms[x]]
    BY <1>3, <1>5 DEF WithoutMember
  <2>2. \A room \in Rooms : Members(room)' = Members(room) \ {c}
    <3> SUFFICES ASSUME NEW room \in Rooms PROVE Members(room)' = Members(room) \ {c}
      OBVIOUS
    <3>1. CASE room = room0
      BY <3>1, <2>1, <1>2, <1>5 DEF Members
    <3>2. CASE room # room0
      <4>1. c \notin Members(room)
        BY <3>2 DEF RoomsAreExact
      <4>2. QED
        BY <3>2, <4>1, <2>1 DEF Members
    <3>3. QED
      BY <3>1, <3>2
  <2>3. QED
    BY <2>1, <2>2, <1>3, <1>4 DEF RoomsAreExact, Registered
<1>6. CASE rooms[room0] # {c}
  <2>1. rooms' = [rooms EXCEPT ![room0] = @ \ {c}]
    BY <1>3, <1>6 DEF WithoutMember
  <2>2. \A room \in Rooms : Members(room)' = Members(room) \ {c}
    <3> SUFFICES ASSUME NEW room \in Rooms PROVE Members(room)' = Members(room) \ {c}
      OBVIOUS
    <3>1. CASE room = room0
      BY <3>1, <2>1, <1>2 DEF Members
    <3>2. CASE room # room0
      <4>1. c \notin Members(room)
        BY <3>2 DEF RoomsAreExact
      <4>2. QED
        BY <3>2, <4>1, <2>1 DEF Members
    <3>3. QED
      BY <3>1, <3>2
  <2>3. rooms[room0] \ {c} # {}
    BY <1>1, <1>2, <1>6
  <2>4. QED
    BY <2>1, <2>2, <2>3, <1>2, <1>3, <1>4 DEF RoomsAreExact, Registered
<1>7. QED
  BY <1>5, <1>6

\* Types, step by step; only Take, Write and the buffers deserve a word.
LEMMA TypesKept ==
    ASSUME HubInv, [Next]_vars
    PROVE  TypeOK'
<1> USE HubAssumption DEF HubInv
<1>1. ASSUME NEW c \in Clients, Register(c) PROVE TypeOK'
  <2>1. DOMAIN rooms' \subseteq Rooms
    BY <1>1 DEF TypeOK, Register, WithMember
  <2>2. \A room \in DOMAIN rooms' : rooms'[room] \subseteq Clients
    BY <1>1 DEF TypeOK, Register, WithMember, Members
  <2>3. QED
    BY <1>1, <2>1, <2>2 DEF TypeOK, Register
<1>2. ASSUME NEW c \in Clients, Unregister(c) PROVE TypeOK'
  BY <1>2, UnregisterIsExact DEF TypeOK, Unregister
<1>3. ASSUME NEW room \in Rooms, BroadcastBegin(room) PROVE TypeOK'
  <2>1. next' \in Events /\ next' \in 0 .. MaxEvents
    BY <1>3 DEF TypeOK, BroadcastBegin, Events
  <2>2. unsent' \subseteq Clients
    BY <1>3 DEF TypeOK, BroadcastBegin, Members
  <2>3. due' \in [Clients -> SUBSET Events]
    BY <1>3, <2>1 DEF TypeOK, BroadcastBegin
  <2>4. QED
    BY <1>3, <2>1, <2>2, <2>3 DEF TypeOK, BroadcastBegin, socket
<1>4. ASSUME NEW c \in Clients, BroadcastSend(c) PROVE TypeOK'
  <2>1. next \in Events
    BY <1>4 DEF BroadcastSend, MutexInv
  <2>2. sendq[c] \in Seq(Events) /\ Len(sendq[c]) <= SendCap
    BY DEF TypeOK
  <2>3. Append(sendq[c], next) \in Seq(Events) /\ Len(Append(sendq[c], next)) = Len(sendq[c]) + 1
    BY <2>1, <2>2, AppendProperties
  <2>4. CASE Len(sendq[c]) < SendCap
    <3>1. sendq' = [sendq EXCEPT ![c] = Append(sendq[c], next)] /\ UNCHANGED dropped
      BY <1>4, <2>4 DEF BroadcastSend, SendOrDrop
    <3>2. Len(sendq[c]) + 1 <= SendCap
      BY <2>2, <2>4, LenProperties
    <3>3. sendq' \in [Clients -> Seq(Events)] /\ \A d \in Clients : Len(sendq'[d]) <= SendCap
      BY <2>3, <3>1, <3>2 DEF TypeOK
    <3>4. QED
      BY <1>4, <3>1, <3>3 DEF TypeOK, BroadcastSend, socket
  <2>5. CASE ~(Len(sendq[c]) < SendCap)
    <3>1. dropped' = [dropped EXCEPT ![c] = dropped[c] \cup {next}] /\ UNCHANGED sendq
      BY <1>4, <2>5 DEF BroadcastSend, SendOrDrop
    <3>2. dropped' \in [Clients -> SUBSET Events]
      BY <2>1, <3>1 DEF TypeOK
    <3>3. QED
      BY <1>4, <3>1, <3>2 DEF TypeOK, BroadcastSend, socket
  <2>6. QED
    BY <2>4, <2>5
<1>5. ASSUME NEW c \in Clients, Take(c) PROVE TypeOK'
  <2>1. sendq[c] \in Seq(Events) /\ sendq[c] # <<>> /\ Len(sendq[c]) <= SendCap
    BY <1>5 DEF TypeOK, Take
  <2>2. Head(sendq[c]) \in Events /\ Tail(sendq[c]) \in Seq(Events)
          /\ Len(Tail(sendq[c])) <= SendCap
    BY <2>1, HeadTailProperties, LenProperties
  <2>3. <<Head(sendq[c])>> \in Seq(Events)
    BY <2>2
  <2>4. sendq' \in [Clients -> Seq(Events)] /\ \A d \in Clients : Len(sendq'[d]) <= SendCap
    BY <1>5, <2>2 DEF TypeOK, Take
  <2>5. QED
    BY <1>5, <2>3, <2>4 DEF TypeOK, Take, hub
<1>6. ASSUME NEW c \in Clients, Write(c) PROVE TypeOK'
  <2>1. delivered[c] \o inHand[c] \in Seq(Events) /\ <<>> \in Seq(Events)
    BY ConcatProperties, EmptySeq DEF TypeOK
  <2>2. QED
    BY <1>6, <2>1 DEF TypeOK, Write, hub
<1>7. ASSUME NEW c \in Clients, StopWriting(c) PROVE TypeOK'
  <2>1. <<>> \in Seq(Events)
    BY EmptySeq
  <2>2. QED
    BY <1>7, <2>1 DEF TypeOK, StopWriting, hub
<1>8. ASSUME NEW c \in Clients, Connect(c) \/ PeerLeaves(c) \/ ReadFails(c) PROVE TypeOK'
  BY <1>8 DEF TypeOK, Connect, PeerLeaves, ReadFails, hub
<1>9. CASE BroadcastEnd
  BY <1>9 DEF TypeOK, BroadcastEnd, socket
<1>10. CASE UNCHANGED vars
  BY <1>10 DEF TypeOK, vars, hub, socket
<1>11. QED
  BY <1>1, <1>2, <1>3, <1>4, <1>5, <1>6, <1>7, <1>8, <1>9, <1>10
  DEF Next, Broadcasting, WriterStep, WriteFails, ChannelClosed

\* Only Register and Unregister touch the rooms.
LEMMA RoomsKept ==
    ASSUME HubInv, [Next]_vars
    PROVE  RoomsAreExact'
<1>1. ASSUME NEW c \in Clients, Register(c) PROVE RoomsAreExact'
  BY <1>1, RegisterIsExact
<1>2. ASSUME NEW c \in Clients, Unregister(c) PROVE RoomsAreExact'
  BY <1>2, UnregisterIsExact
<1>3. ASSUME UNCHANGED rooms, \A c \in Clients : Registered(c)' <=> Registered(c)
      PROVE  RoomsAreExact'
  BY <1>3 DEF HubInv, RoomsAreExact, Members, Registered
<1>4. ASSUME NEW c \in Clients, Connect(c) PROVE RoomsAreExact'
  BY <1>3, <1>4 DEF Connect, Registered, hub, HubInv, PumpInv, TypeOK
<1>5. ASSUME NEW c \in Clients, ReadFails(c) PROVE RoomsAreExact'
  BY <1>3, <1>5 DEF ReadFails, Registered, hub, HubInv, TypeOK
<1>6. ASSUME UNCHANGED <<rooms, reader>> PROVE RoomsAreExact'
  BY <1>3, <1>6 DEF Registered
<1>7. QED
  BY <1>1, <1>2, <1>4, <1>5, <1>6
  DEF Next, Broadcasting, WriterStep, WriteFails, ChannelClosed, StopWriting, BroadcastBegin,
      BroadcastSend, BroadcastEnd, PeerLeaves, Take, Write, vars, hub, socket

\* Who is yet to be sent to, which channels are closed and what the pumps hold, step by step.
LEMMA MutexKept ==
    ASSUME HubInv, [Next]_vars
    PROVE  MutexInv' /\ ClosedInv' /\ PumpInv'
<1> USE DEF HubInv, TypeOK, MutexInv, ClosedInv, PumpInv
<1>1. ASSUME NEW c \in Clients, Register(c) PROVE MutexInv' /\ ClosedInv' /\ PumpInv'
  <2>1. unsent = {} /\ conn[c] # "none" /\ c \notin closed
    BY <1>1 DEF Register
  <2>2. MutexInv' /\ ClosedInv'
    BY <1>1, <2>1 DEF Register
  <2>3. PumpInv'
    BY <1>1, <2>1 DEF Register
  <2>4. QED
    BY <2>2, <2>3
<1>2. ASSUME NEW c \in Clients, Unregister(c) PROVE MutexInv' /\ ClosedInv' /\ PumpInv'
  BY <1>2 DEF Unregister, Registered
<1>3. ASSUME NEW room \in Rooms, BroadcastBegin(room) PROVE MutexInv' /\ ClosedInv' /\ PumpInv'
  <2>1. next' \in Events
    BY <1>3, HubAssumption DEF BroadcastBegin, Events
  <2>2. \A c \in Members(room) : Registered(c)
    BY DEF RoomsAreExact
  <2>3. QED
    BY <1>3, <2>1, <2>2 DEF BroadcastBegin, Registered, socket
<1>4. ASSUME NEW c \in Clients, BroadcastSend(c) PROVE MutexInv' /\ ClosedInv' /\ PumpInv'
  BY <1>4 DEF BroadcastSend, Registered, socket
<1>5. CASE BroadcastEnd
  BY <1>5 DEF BroadcastEnd, Registered, socket
<1>6. ASSUME NEW c \in Clients, Connect(c) PROVE MutexInv' /\ ClosedInv' /\ PumpInv'
  BY <1>6 DEF Connect, Registered, hub
<1>7. ASSUME NEW c \in Clients, PeerLeaves(c) PROVE MutexInv' /\ ClosedInv' /\ PumpInv'
  BY <1>7 DEF PeerLeaves, Registered, hub
<1>8. ASSUME NEW c \in Clients, ReadFails(c) PROVE MutexInv' /\ ClosedInv' /\ PumpInv'
  BY <1>8 DEF ReadFails, Registered, hub
<1>9. ASSUME NEW c \in Clients, Take(c) PROVE MutexInv' /\ ClosedInv' /\ PumpInv'
  BY <1>9 DEF Take, Registered, hub
<1>10. ASSUME NEW c \in Clients, Write(c) PROVE MutexInv' /\ ClosedInv' /\ PumpInv'
  BY <1>10 DEF Write, Registered, hub
<1>11. ASSUME NEW c \in Clients, writer[c] # "none", StopWriting(c)
       PROVE  MutexInv' /\ ClosedInv' /\ PumpInv'
  BY <1>11 DEF StopWriting, Registered, hub
<1>12. CASE UNCHANGED vars
  BY <1>12 DEF vars, hub, socket, Registered
<1>13. QED
  BY <1>1, <1>2, <1>3, <1>4, <1>5, <1>6, <1>7, <1>8, <1>9, <1>10, <1>11, <1>12
  DEF Next, Broadcasting, WriterStep, WriteFails, ChannelClosed

\* What the goroutines maintain together.
THEOREM HubInductive == Spec => []HubInv
<1>1. HubInv /\ [Next]_vars => HubInv'
  BY TypesKept, RoomsKept, MutexKept DEF HubInv
<1>2. QED
  BY HubInit, <1>1, PTL DEF Spec

\* For any number of clients: types are kept, and no buffer exceeds its capacity.
THEOREM HubTypeCorrect == Spec => []TypeOK
<1>1. HubInv => TypeOK
  BY DEF HubInv
<1>2. QED
  BY <1>1, HubInductive, PTL

\* hub.go:66 and :94: no Broadcast comes to a client whose channel Unregister closed.
THEOREM NoSendOnClosedChannel == Spec => []NeverSendsOnClosed
<1>1. HubInv => NeverSendsOnClosed
  BY DEF HubInv, MutexInv, ClosedInv, NeverSendsOnClosed, Registered
<1>2. QED
  BY <1>1, HubInductive, PTL

\* hub.go:48-70: `rooms` holds the registered clients, under their rooms, and no
\* empty room.
THEOREM HubKnowsItsClients == Spec => []RoomsAreExact
<1>1. HubInv => RoomsAreExact
  BY DEF HubInv
<1>2. QED
  BY <1>1, HubInductive, PTL

------------------------------------------------------------------------------
(* Refinement.                                                             *)

\* An event moves from the front of the buffer to the hand of the writer.
LEMMA HeadThenTail ==
    ASSUME NEW S, NEW s \in Seq(S), s # <<>>
    PROVE  <<Head(s)>> \o Tail(s) = s
<1> DEFINE h == <<Head(s)>>
           t == Tail(s)
           w == h \o t
<1>1. /\ Head(s) \in S /\ t \in Seq(S) /\ Len(t) = Len(s) - 1
      /\ \A i \in 1 .. Len(t) : t[i] = s[i + 1]
  BY HeadTailProperties
<1>2. h \in Seq(S) /\ Len(h) = 1 /\ h[1] = s[1]
  BY <1>1
<1>3. Len(s) \in Nat /\ Len(t) \in Nat
  BY <1>1, LenProperties
<1>4. h \in Seq(S) /\ t \in Seq(S)
  BY <1>1, <1>2
<1> HIDE DEF h, t
<1>5. /\ w \in Seq(S) /\ Len(w) = Len(h) + Len(t)
      /\ \A i \in 1 .. Len(h) + Len(t) : w[i] = IF i <= Len(h) THEN h[i] ELSE t[i - Len(h)]
  BY <1>4, ConcatProperties, Zenon
<1> HIDE DEF w
<1>6. Len(w) = Len(s) /\ \A i \in 1 .. Len(s) : w[i] = s[i]
  BY <1>1, <1>2, <1>3, <1>5
<1>7. w = s
  BY <1>5, <1>6, SeqEqual
<1>8. QED
  BY <1>7 DEF w, h, t

\* A sequence of one is its head.
LEMMA Singleton ==
    ASSUME NEW S, NEW s \in Seq(S), Len(s) = 1
    PROVE  s # <<>> /\ s = <<Head(s)>> /\ Tail(s) = <<>> /\ Head(s) \in S
<1>1. s # <<>>
  BY EmptySeq
<1>2. /\ Head(s) \in S /\ Tail(s) \in Seq(S) /\ Len(Tail(s)) = 0
  BY <1>1, HeadTailProperties
<1>3. Tail(s) = <<>>
  BY <1>2, EmptySeq
<1>4. <<Head(s)>> \o <<>> = s
  BY <1>1, <1>3, HeadThenTail
<1>5. <<Head(s)>> \in Seq(S)
  BY <1>2
<1>6. <<Head(s)>> \o <<>> = <<Head(s)>>
  BY <1>5, ConcatEmptySeq
<1>7. QED
  BY <1>1, <1>2, <1>3, <1>4, <1>6

\* What follows the front of a sequence that is not empty.
LEMMA FrontOfConcat ==
    ASSUME NEW S, NEW e \in S, NEW t \in Seq(S)
    PROVE  /\ <<e>> \o t # <<>> /\ Head(<<e>> \o t) = e /\ Tail(<<e>> \o t) = t
<1> DEFINE h == <<e>>
<1>1. h \in Seq(S) /\ Len(h) = 1 /\ h[1] = e
  OBVIOUS
<1>2. Len(t) \in Nat
  BY LenProperties
<1> HIDE DEF h
<1> DEFINE w == h \o t
<1>3. /\ w \in Seq(S) /\ Len(w) = Len(h) + Len(t)
      /\ \A i \in 1 .. Len(h) + Len(t) : w[i] = IF i <= Len(h) THEN h[i] ELSE t[i - Len(h)]
  BY <1>1, ConcatProperties, Zenon
<1> HIDE DEF w
<1>4. /\ Len(w) = Len(t) + 1 /\ w # <<>> /\ Head(w) = e
      /\ \A i \in 1 .. Len(t) : w[i + 1] = t[i]
  BY <1>1, <1>2, <1>3, EmptySeq
<1>5. Tail(w) \in Seq(S) /\ Len(Tail(w)) = Len(t)
        /\ \A i \in 1 .. Len(t) : Tail(w)[i] = w[i + 1]
  BY <1>2, <1>3, <1>4, HeadTailProperties
<1>6. \A i \in 1 .. Len(t) : Tail(w)[i] = t[i]
  BY <1>4, <1>5
<1>7. Tail(w) = t
  BY <1>5, <1>6, SeqEqual
<1>8. QED
  BY <1>4, <1>7 DEF w, h

\* What precedes the newest element.
LEMMA BackOfAppend ==
    ASSUME NEW S, NEW s \in Seq(S), NEW e \in S
    PROVE  /\ Len(Append(s, e)) = Len(s) + 1
           /\ SubSeq(Append(s, e), 1, Len(Append(s, e)) - 1) = s
<1> DEFINE a == Append(s, e)
<1>1. a \in Seq(S) /\ Len(a) = Len(s) + 1 /\ \A i \in 1 .. Len(s) : a[i] = s[i]
  BY AppendProperties
<1>2. Len(s) \in Nat
  BY LenProperties
<1> HIDE DEF a
<1>3. \A i \in 1 .. Len(s) : a[i] \in S
  BY <1>1, <1>2, ElementOfSeq
<1> DEFINE b == SubSeq(a, 1, Len(s))
<1>4. b \in Seq(S) /\ Len(b) = Len(s) /\ \A i \in 1 .. Len(s) : b[i] = a[i]
  BY <1>2, <1>3, SubSeqProperties
<1> HIDE DEF b
<1>5. b = s
  BY <1>1, <1>4, SeqEqual
<1>6. QED
  BY <1>1, <1>2, <1>5 DEF a, b

\* The event of the running Broadcast, for a client it has yet to come to.
Coming(c) == IF c \in unsent THEN <<next>> ELSE <<>>

\* What is owed: the event in the hand of the writer, the buffer, and the one being broadcast.
LEMMA OwedIsTyped ==
    ASSUME HubInv, NEW c \in Clients
    PROVE  /\ inHand[c] \in Seq(Events) /\ sendq[c] \in Seq(Events) /\ Coming(c) \in Seq(Events)
           /\ inHand[c] \o sendq[c] \in Seq(Events)
           /\ OwedBy(c) = (inHand[c] \o sendq[c]) \o Coming(c)
           /\ OwedBy(c) = inHand[c] \o (sendq[c] \o Coming(c))
           /\ sendq[c] \o Coming(c) \in Seq(Events)
<1>1. inHand[c] \in Seq(Events) /\ sendq[c] \in Seq(Events)
  BY DEF HubInv, TypeOK
<1>2. Coming(c) \in Seq(Events)
  <2>1. CASE c \in unsent
    BY <2>1 DEF Coming, HubInv, MutexInv
  <2>2. CASE c \notin unsent
    BY <2>2, EmptySeq DEF Coming
  <2>3. QED
    BY <2>1, <2>2
<1>3. inHand[c] \o sendq[c] \in Seq(Events) /\ sendq[c] \o Coming(c) \in Seq(Events)
  BY <1>1, <1>2, ConcatProperties
<1>4. OwedBy(c) = (inHand[c] \o sendq[c]) \o Coming(c)
  BY DEF OwedBy, Coming
<1>5. (inHand[c] \o sendq[c]) \o Coming(c) = inHand[c] \o (sendq[c] \o Coming(c))
  <2> DEFINE hand == inHand[c]
             queue == sendq[c]
  <2> HIDE DEF hand, queue
  <2>1. hand \in Seq(Events) /\ queue \in Seq(Events)
    BY <1>1 DEF hand, queue
  <2>2. (hand \o queue) \o Coming(c) = hand \o (queue \o Coming(c))
    BY <1>2, <2>1, ConcatAssociative
  <2>3. QED
    BY <2>2 DEF hand, queue
<1>6. QED
  BY <1>1, <1>2, <1>3, <1>4, <1>5

\* What is owed depends on nothing else.
LEMMA OwedStays ==
    ASSUME NEW c \in Clients, inHand'[c] = inHand[c], sendq'[c] = sendq[c], next' = next,
           c \in unsent' <=> c \in unsent
    PROVE  OwedBy(c)' = OwedBy(c)
BY DEF OwedBy

\* A step that none of what PushFeed knows tells from no step.
LEMMA Quiet ==
    ASSUME UNCHANGED <<next, delivered>>,
           \A c \in Clients : OwedBy(c)' = OwedBy(c) /\ Peer(c)' = Peer(c) /\ Seat(c)' = Seat(c)
    PROVE  UNCHANGED Feed!feedVars
BY DEF Feed!feedVars

\* A Broadcast begins: its event is owed to whoever is registered in the room.
LEMMA BroadcastPublishes ==
    ASSUME HubInv, NEW room \in Rooms, BroadcastBegin(room)
    PROVE  Feed!Publish(room)
<1>1. unsent = {} /\ next' = next + 1 /\ next < MaxEvents
      /\ unsent' = {c \in Clients : Registered(c) /\ RoomOf[c] = room}
      /\ UNCHANGED <<sendq, conn, reader, inHand, delivered>>
  BY DEF BroadcastBegin, HubInv, MutexInv, RoomsAreExact, socket
<1>2. next' \in Events
  BY <1>1, HubAssumption DEF HubInv, TypeOK, Events
<1>3. ASSUME NEW c \in Clients
      PROVE  OwedBy(c)' = IF Seat(c) = "taken" /\ RoomOf[c] = room
                          THEN Append(OwedBy(c), next') ELSE OwedBy(c)
  <2> DEFINE q == inHand[c] \o sendq[c]
  <2>1. q \in Seq(Events)
    BY OwedIsTyped
  <2>2. OwedBy(c) = q
    BY <1>1, <2>1, ConcatEmptySeq DEF OwedBy
  <2>3. OwedBy(c)' = IF c \in unsent' THEN q \o <<next'>> ELSE q \o <<>>
    BY <1>1 DEF OwedBy
  <2>4. q \o <<next'>> = Append(q, next') /\ q \o <<>> = q
    BY <1>2, <2>1, AppendIsConcat, ConcatEmptySeq, Zenon
  <2>5. c \in unsent' <=> Seat(c) = "taken" /\ RoomOf[c] = room
    BY <1>1 DEF Seat
  <2>6. QED
    BY <2>2, <2>3, <2>4, <2>5
<1>4. \A c \in Clients : Peer(c)' = Peer(c) /\ Seat(c)' = Seat(c)
  BY <1>1 DEF Peer, Seat, Registered
<1>5. QED
  BY <1>1, <1>3, <1>4 DEF Feed!Publish

\* The loop comes to a client: the event is buffered, or the newest one is dropped.
LEMMA SendDropsOrKeeps ==
    ASSUME HubInv, NEW c \in Clients, BroadcastSend(c)
    PROVE  Feed!Drop(c) \/ UNCHANGED Feed!feedVars
<1> USE HubAssumption
<1>1. c \in unsent /\ unsent' = unsent \ {c}
      /\ UNCHANGED <<next, conn, reader, inHand, delivered>>
  BY DEF BroadcastSend, socket
<1>2. \A d \in Clients : Peer(d)' = Peer(d) /\ Seat(d)' = Seat(d)
  BY <1>1 DEF Peer, Seat, Registered
<1>3. next \in Events
  BY <1>1 DEF HubInv, MutexInv
<1> DEFINE q == inHand[c] \o sendq[c]
<1>4. inHand[c] \in Seq(Events) /\ sendq[c] \in Seq(Events) /\ q \in Seq(Events)
  BY OwedIsTyped
<1>5. OwedBy(c) = q \o <<next>> /\ OwedBy(c) = Append(q, next)
  <2>1. OwedBy(c) = q \o <<next>>
    BY <1>1 DEF OwedBy
  <2>2. q \o <<next>> = Append(q, next)
    BY <1>3, <1>4, AppendIsConcat, Zenon
  <2>3. QED
    BY <2>1, <2>2
<1> HIDE DEF q
<1>6. CASE Len(sendq[c]) < SendCap
  <2>1. sendq' = [sendq EXCEPT ![c] = Append(sendq[c], next)]
    BY <1>6 DEF BroadcastSend, SendOrDrop
  <2>2. sendq'[c] = sendq[c] \o <<next>>
    <3>1. sendq'[c] = Append(sendq[c], next)
      BY <2>1 DEF HubInv, TypeOK
    <3>2. Append(sendq[c], next) = sendq[c] \o <<next>>
      BY <1>3, <1>4, AppendIsConcat, Zenon
    <3>3. QED
      BY <3>1, <3>2
  <2>3. OwedBy(c)' = OwedBy(c)
    <3>1. <<next>> \in Seq(Events)
      BY <1>3
    <3>2. inHand[c] \o (sendq[c] \o <<next>>) = q \o <<next>>
      BY <1>1, OwedIsTyped DEF q, Coming
    <3>3. inHand[c] \o (sendq[c] \o <<next>>) \in Seq(Events)
      BY <1>4, <3>1, <3>2, ConcatProperties
    <3>4. OwedBy(c)' = (inHand[c] \o (sendq[c] \o <<next>>)) \o <<>>
      BY <1>1, <2>2 DEF OwedBy
    <3>5. QED
      BY <1>5, <3>2, <3>3, <3>4, ConcatEmptySeq
  <2>4. \A d \in Clients : d # c => OwedBy(d)' = OwedBy(d)
    BY <1>1, <2>1, OwedStays DEF HubInv, TypeOK
  <2>5. QED
    BY <1>1, <1>2, <2>3, <2>4, Quiet
<1>7. CASE ~(Len(sendq[c]) < SendCap)
  <2>1. UNCHANGED sendq
    BY <1>7 DEF BroadcastSend, SendOrDrop
  <2>2. OwedBy(c)' = q
    <3>1. OwedBy(c)' = q \o <<>>
      BY <1>1, <2>1 DEF OwedBy, q
    <3>2. QED
      BY <1>4, <3>1, ConcatEmptySeq
  <2>3. Len(OwedBy(c)) = Len(q) + 1 /\ SubSeq(OwedBy(c), 1, Len(OwedBy(c)) - 1) = q
    BY <1>3, <1>4, <1>5, BackOfAppend
  <2>4. Len(OwedBy(c)) > SendCap
    <3>1. Len(q) = Len(inHand[c]) + Len(sendq[c])
      BY <1>4, ConcatProperties DEF q
    <3>2. Len(inHand[c]) \in Nat /\ Len(sendq[c]) \in Nat
      BY <1>4, LenProperties
    <3>3. Len(OwedBy(c)) = Len(inHand[c]) + Len(sendq[c]) + 1
      BY <2>3, <3>1
    <3>4. SendCap \in Nat
      OBVIOUS
    <3>5. Len(sendq[c]) >= SendCap
      BY <1>7, <3>2, <3>4
    <3>6. \A m, n, cap \in Nat : n >= cap => m + n + 1 > cap
      OBVIOUS
    <3>7. QED
      BY <3>2, <3>3, <3>4, <3>5, <3>6, Zenon
  <2>5. \A d \in Clients : d # c => OwedBy(d)' = OwedBy(d)
    BY <1>1, <2>1, OwedStays
  <2>6. Feed!Drop(c)
    BY <1>1, <1>2, <2>2, <2>3, <2>4, <2>5 DEF Feed!Drop
  <2>7. QED
    BY <2>6
<1>8. QED
  BY <1>6, <1>7

\* The writer takes an event: it is owed as before.
LEMMA TakeKeeps ==
    ASSUME HubInv, NEW c \in Clients, Take(c)
    PROVE  UNCHANGED Feed!feedVars
<1>1. UNCHANGED <<next, unsent, conn, reader, delivered>>
  BY DEF Take, hub
<1>2. \A d \in Clients : Peer(d)' = Peer(d) /\ Seat(d)' = Seat(d)
  BY <1>1 DEF Peer, Seat, Registered
<1>3. inHand[c] = <<>> /\ sendq[c] # <<>> /\ sendq[c] \in Seq(Events)
  BY DEF Take, HubInv, PumpInv, TypeOK
<1>4. inHand'[c] = <<Head(sendq[c])>> /\ sendq'[c] = Tail(sendq[c])
      /\ \A d \in Clients : d # c => inHand'[d] = inHand[d] /\ sendq'[d] = sendq[d]
  BY DEF Take, HubInv, TypeOK
<1>5. inHand'[c] \o sendq'[c] = inHand[c] \o sendq[c]
  <2>1. <<Head(sendq[c])>> \o Tail(sendq[c]) = sendq[c]
    BY <1>3, HeadThenTail
  <2>2. <<>> \o sendq[c] = sendq[c]
    BY <1>3, ConcatEmptySeq
  <2>3. QED
    BY <1>3, <1>4, <2>1, <2>2
<1>6. OwedBy(c)' = OwedBy(c)
  BY <1>1, <1>5 DEF OwedBy
<1>7. \A d \in Clients : d # c => OwedBy(d)' = OwedBy(d)
  BY <1>1, <1>4, OwedStays
<1>8. QED
  BY <1>1, <1>2, <1>6, <1>7, Quiet

\* An event leaves the writer's hand: the rest of what is owed remains.
LEMMA HandEmptied ==
    ASSUME HubInv, NEW c \in Clients, writer[c] = "writing",
           inHand' = [inHand EXCEPT ![c] = <<>>], UNCHANGED <<next, unsent, sendq>>
    PROVE  /\ OwedBy(c) # <<>> /\ OwedBy(c)' = Tail(OwedBy(c))
           /\ inHand[c] = <<Head(OwedBy(c))>>
           /\ \A d \in Clients : d # c => OwedBy(d)' = OwedBy(d)
<1> DEFINE rest == sendq[c] \o Coming(c)
<1>1. OwedBy(c) = inHand[c] \o rest /\ rest \in Seq(Events) /\ sendq[c] \in Seq(Events)
        /\ inHand[c] \in Seq(Events)
  BY OwedIsTyped
<1>2. Len(inHand[c]) = 1
  BY DEF HubInv, PumpInv
<1> DEFINE e == Head(inHand[c])
<1>3. inHand[c] = <<e>> /\ e \in Events
  BY <1>1, <1>2, Singleton
<1>4. OwedBy(c)' = rest
  <2>1. inHand'[c] = <<>> /\ Coming(c)' = Coming(c)
    BY DEF Coming, HubInv, TypeOK
  <2>2. OwedBy(c)' = (<<>> \o sendq[c]) \o Coming(c)
    BY <2>1 DEF OwedBy, Coming
  <2>3. <<>> \o sendq[c] = sendq[c]
    BY <1>1, ConcatEmptySeq
  <2>4. QED
    BY <2>2, <2>3
<1>5. \A d \in Clients : d # c => OwedBy(d)' = OwedBy(d)
  BY OwedStays DEF HubInv, TypeOK
<1> HIDE DEF e, rest
<1>6. OwedBy(c) = <<e>> \o rest
  BY <1>1, <1>3
<1>7. <<e>> \o rest # <<>> /\ Head(<<e>> \o rest) = e /\ Tail(<<e>> \o rest) = rest
  BY <1>1, <1>3, FrontOfConcat, Zenon
<1>8. QED
  BY <1>3, <1>4, <1>5, <1>6, <1>7

\* The writer writes: the oldest event is delivered, or lost with a silent peer.
LEMMA WriteDelivers ==
    ASSUME HubInv, NEW c \in Clients, Write(c)
    PROVE  Feed!Deliver(c) \/ Feed!Lose(c)
<1>1. writer[c] = "writing" /\ inHand' = [inHand EXCEPT ![c] = <<>>]
        /\ UNCHANGED <<next, unsent, sendq, conn, reader>>
  BY DEF Write, hub
<1>2. /\ OwedBy(c) # <<>> /\ OwedBy(c)' = Tail(OwedBy(c))
      /\ inHand[c] = <<Head(OwedBy(c))>>
      /\ \A d \in Clients : d # c => OwedBy(d)' = OwedBy(d)
  BY <1>1, HandEmptied
<1>3. \A d \in Clients : Peer(d)' = Peer(d) /\ Seat(d)' = Seat(d)
  BY <1>1 DEF Peer, Seat, Registered
<1>4. CASE conn[c] = "open"
  <2>1. Head(OwedBy(c)) \in Events /\ delivered[c] \in Seq(Events)
    <3>1. inHand[c] \in Seq(Events) /\ Len(inHand[c]) = 1 /\ delivered[c] \in Seq(Events)
      BY <1>1 DEF HubInv, TypeOK, PumpInv
    <3>2. <<Head(OwedBy(c))>>[1] = Head(OwedBy(c))
      OBVIOUS
    <3>3. inHand[c][1] \in Events
      BY <3>1, ElementOfSeq
    <3>4. QED
      BY <1>2, <3>1, <3>2, <3>3
  <2>2. delivered[c] \o inHand[c] = Append(delivered[c], Head(OwedBy(c)))
    BY <1>2, <2>1, AppendIsConcat
  <2>3. delivered' = [delivered EXCEPT ![c] = Append(delivered[c], Head(OwedBy(c)))]
    BY <1>4, <2>2 DEF Write
  <2>4. Peer(c) = "up"
    BY <1>4 DEF Peer
  <2>5. Feed!Deliver(c)
    BY <1>1, <1>2, <1>3, <2>3, <2>4 DEF Feed!Deliver
  <2>6. QED
    BY <2>5
<1>5. CASE conn[c] = "silent"
  <2>1. Peer(c) = "gone" /\ UNCHANGED delivered
    BY <1>5 DEF Peer, Write
  <2>2. Feed!Lose(c)
    BY <1>1, <1>2, <1>3, <2>1 DEF Feed!Lose
  <2>3. QED
    BY <2>2
<1>6. QED
  BY <1>4, <1>5 DEF Write

\* The writer gives up: what it had in hand is lost, with a peer that is gone.
LEMMA StopLoses ==
    ASSUME HubInv, NEW c \in Clients, StopWriting(c), conn[c] \notin {"none", "open"}
    PROVE  Feed!Lose(c) \/ UNCHANGED Feed!feedVars
<1>1. inHand' = [inHand EXCEPT ![c] = <<>>] /\ conn' = [conn EXCEPT ![c] = "shut"]
        /\ UNCHANGED <<next, unsent, sendq, reader, delivered>>
  BY DEF StopWriting, hub
<1>2. \A d \in Clients : Peer(d)' = Peer(d) /\ Seat(d)' = Seat(d)
  BY <1>1 DEF Peer, Seat, Registered, HubInv, TypeOK
<1>3. CASE writer[c] = "writing"
  <2>1. /\ OwedBy(c) # <<>> /\ OwedBy(c)' = Tail(OwedBy(c))
        /\ \A d \in Clients : d # c => OwedBy(d)' = OwedBy(d)
    BY <1>1, <1>3, HandEmptied
  <2>2. Peer(c) = "gone"
    BY DEF Peer
  <2>3. Feed!Lose(c)
    BY <1>1, <1>2, <2>1, <2>2 DEF Feed!Lose
  <2>4. QED
    BY <2>3
<1>4. CASE writer[c] # "writing"
  <2>1. inHand[c] = <<>> /\ \A d \in Clients : inHand'[d] = inHand[d]
    BY <1>1, <1>4 DEF HubInv, PumpInv, TypeOK
  <2>2. \A d \in Clients : OwedBy(d)' = OwedBy(d)
    BY <1>1, <2>1, OwedStays
  <2>3. QED
    BY <1>1, <1>2, <2>2, Quiet
<1>5. QED
  BY <1>3, <1>4

\* Steps of a connection that leave what is owed alone.
LEMMA ConnectionSteps ==
    ASSUME HubInv, NEW c \in Clients,
           Connect(c) \/ PeerLeaves(c) \/ Register(c) \/ Unregister(c) \/ ReadFails(c)
    PROVE  Feed!Connect(c) \/ Feed!Hangup(c) \/ Feed!TakeSeat(c) \/ Feed!LeaveSeat(c)
             \/ UNCHANGED Feed!feedVars
<1> USE DEF HubInv, TypeOK, PumpInv
<1>1. UNCHANGED <<next, unsent, sendq, inHand, delivered>>
  BY DEF Connect, PeerLeaves, Register, Unregister, ReadFails, hub
<1>2. \A d \in Clients : OwedBy(d)' = OwedBy(d)
  BY <1>1, OwedStays
<1>3. CASE Connect(c)
  <2>1. Peer(c) = "none" /\ Peer(c)' = "up"
          /\ \A d \in Clients : (d # c => Peer(d)' = Peer(d)) /\ Seat(d)' = Seat(d)
    BY <1>3 DEF Connect, Peer, Seat, Registered
  <2>2. Feed!Connect(c)
    BY <1>1, <1>2, <2>1 DEF Feed!Connect
  <2>3. QED
    BY <2>2
<1>4. CASE PeerLeaves(c)
  <2>1. Peer(c) = "up" /\ Peer(c)' = "gone"
          /\ \A d \in Clients : (d # c => Peer(d)' = Peer(d)) /\ Seat(d)' = Seat(d)
    BY <1>4 DEF PeerLeaves, Peer, Seat, Registered
  <2>2. Feed!Hangup(c)
    BY <1>1, <1>2, <2>1 DEF Feed!Hangup
  <2>3. QED
    BY <2>2
<1>5. CASE Register(c)
  <2>1. Seat(c) = "none" /\ Seat(c)' = "taken" /\ Peer(c) # "none"
          /\ \A d \in Clients : (d # c => Seat(d)' = Seat(d)) /\ Peer(d)' = Peer(d)
    BY <1>5 DEF Register, Peer, Seat, Registered
  <2>2. Feed!TakeSeat(c)
    BY <1>1, <1>2, <2>1 DEF Feed!TakeSeat
  <2>3. QED
    BY <2>2
<1>6. CASE Unregister(c)
  <2>1. Seat(c) = "taken" /\ Seat(c)' = "left" /\ Peer(c) = "gone"
          /\ \A d \in Clients : (d # c => Seat(d)' = Seat(d)) /\ Peer(d)' = Peer(d)
    BY <1>6 DEF Unregister, Peer, Seat, Registered
  <2>2. Feed!LeaveSeat(c)
    BY <1>1, <1>2, <2>1 DEF Feed!LeaveSeat
  <2>3. QED
    BY <2>2
<1>7. CASE ReadFails(c)
  <2>1. \A d \in Clients : Seat(d)' = Seat(d) /\ Peer(d)' = Peer(d)
    BY <1>7 DEF ReadFails, Peer, Seat, Registered
  <2>2. QED
    BY <1>1, <1>2, <2>1, Quiet
<1>8. QED
  BY <1>3, <1>4, <1>5, <1>6, <1>7

\* Every step of the goroutines is a step of PushFeed or none.
LEMMA FeedStep ==
    ASSUME HubInv, [Next]_vars
    PROVE  [Feed!FeedNext]_(Feed!feedVars)
<1>1. ASSUME NEW room \in Rooms, BroadcastBegin(room) PROVE Feed!FeedNext
  BY <1>1, BroadcastPublishes DEF Feed!FeedNext
<1>2. ASSUME NEW c \in Clients, BroadcastSend(c) PROVE [Feed!FeedNext]_(Feed!feedVars)
  BY <1>2, SendDropsOrKeeps DEF Feed!FeedNext
<1>3. CASE BroadcastEnd
  <2>1. UNCHANGED <<next, unsent, sendq, conn, reader, inHand, delivered>>
    BY <1>3 DEF BroadcastEnd, socket
  <2>2. \A c \in Clients : OwedBy(c)' = OwedBy(c) /\ Peer(c)' = Peer(c) /\ Seat(c)' = Seat(c)
    BY <2>1 DEF OwedBy, Peer, Seat, Registered
  <2>3. QED
    BY <2>1, <2>2, Quiet
<1>4. ASSUME NEW c \in Clients,
             Connect(c) \/ PeerLeaves(c) \/ Register(c) \/ Unregister(c) \/ ReadFails(c)
      PROVE  [Feed!FeedNext]_(Feed!feedVars)
  BY <1>4, ConnectionSteps DEF Feed!FeedNext
<1>5. ASSUME NEW c \in Clients, Take(c) PROVE [Feed!FeedNext]_(Feed!feedVars)
  BY <1>5, TakeKeeps
<1>6. ASSUME NEW c \in Clients, Write(c) PROVE [Feed!FeedNext]_(Feed!feedVars)
  BY <1>6, WriteDelivers DEF Feed!FeedNext
<1>7. ASSUME NEW c \in Clients, WriteFails(c) \/ ChannelClosed(c)
      PROVE  [Feed!FeedNext]_(Feed!feedVars)
  <2>1. StopWriting(c) /\ conn[c] \notin {"none", "open"}
    BY <1>7 DEF WriteFails, ChannelClosed, HubInv, ClosedInv, PumpInv
  <2>2. QED
    BY <2>1, StopLoses DEF Feed!FeedNext
<1>8. CASE UNCHANGED vars
  <2>1. UNCHANGED <<next, unsent, sendq, conn, reader, inHand, delivered>>
    BY <1>8 DEF vars, hub, socket
  <2>2. \A c \in Clients : OwedBy(c)' = OwedBy(c) /\ Peer(c)' = Peer(c) /\ Seat(c)' = Seat(c)
    BY <2>1 DEF OwedBy, Peer, Seat, Registered
  <2>3. QED
    BY <2>1, <2>2, Quiet
<1>9. QED
  BY <1>1, <1>2, <1>3, <1>4, <1>5, <1>6, <1>7, <1>8 DEF Next, Broadcasting, WriterStep

\* At first nothing is owed to anybody.
LEMMA FeedStart == Init => Feed!FeedInit
<1> SUFFICES ASSUME Init PROVE Feed!FeedInit
  OBVIOUS
<1>1. \A c \in Clients : OwedBy(c) = <<>> /\ Peer(c) = "none" /\ Seat(c) = "none"
  <2> SUFFICES ASSUME NEW c \in Clients
               PROVE  OwedBy(c) = <<>> /\ Peer(c) = "none" /\ Seat(c) = "none"
    OBVIOUS
  <2>1. OwedBy(c) = (<<>> \o <<>>) \o <<>>
    BY DEF Init, OwedBy
  <2>2. <<>> \o <<>> = <<>>
    BY EmptySeq, ConcatEmptySeq
  <2>3. QED
    BY <2>1, <2>2 DEF Init, Peer, Seat, Registered
<1>2. QED
  BY <1>1 DEF Init, Feed!FeedInit

\* README.md:16 as far as it goes: for any clients, rooms, buffers and events, the
\* hub and its pumps implement PushFeed: publication order, once, and no loss but at a
\* full buffer or with the connection.
THEOREM HubImplementsFeed == Spec => FeedSpec
<1>1. HubInv /\ [Next]_vars => [Feed!FeedNext]_(Feed!feedVars)
  BY FeedStep
<1>2. QED
  BY <1>1, FeedStart, HubInductive, PTL DEF Spec, FeedSpec, Feed!FeedSpec
------------------------------------------------------------------------------
(* Every event is accounted for.                                           *)

\* The events in a sequence.
Items(s) == {s[i] : i \in 1 .. Len(s)}

\* The events of two sequences are those of the first and those of the second.
LEMMA ItemsOfConcat ==
    ASSUME NEW S, NEW s \in Seq(S), NEW t \in Seq(S)
    PROVE  s \o t \in Seq(S) /\ Items(s \o t) = Items(s) \cup Items(t)
<1>1. s \o t \in Seq(S)
  BY ConcatProperties
<1>2. Range(s \o t) = Range(s) \cup Range(t)
  BY RangeConcatenation
<1>3. \A u \in Seq(S) : Range(u) = Items(u)
  BY RangeEquality DEF Items
<1>4. QED
  BY <1>1, <1>2, <1>3

\* The events of the shortest sequences.
LEMMA FewItems ==
    /\ Items(<<>>) = {}
    /\ \A e : Items(<<e>>) = {e}
BY DEF Items

\* What a connection's client has got, or will get if the connection lasts.
Held(c) == Items(delivered[c]) \cup Items(inHand[c]) \cup Items(sendq[c])

Pending(c) == IF c \in unsent THEN {next} ELSE {}

\* The stream of a client has the events that are held for it.
LEMMA StreamIsHeld ==
    ASSUME TypeOK, NEW c \in Clients
    PROVE  Held(c) = Items(Stream(c))
<1>1. delivered[c] \in Seq(Events) /\ inHand[c] \in Seq(Events) /\ sendq[c] \in Seq(Events)
  BY DEF TypeOK
<1>2. /\ delivered[c] \o inHand[c] \in Seq(Events)
      /\ Items(delivered[c] \o inHand[c]) = Items(delivered[c]) \cup Items(inHand[c])
  BY <1>1, ItemsOfConcat
<1> DEFINE past == delivered[c] \o inHand[c]
<1> HIDE DEF past
<1>3. past \in Seq(Events) /\ Items(past) = Items(delivered[c]) \cup Items(inHand[c])
  BY <1>2 DEF past
<1>4. Items(past \o sendq[c]) = Items(past) \cup Items(sendq[c])
  BY <1>1, <1>3, ItemsOfConcat
<1>5. Stream(c) = past \o sendq[c]
  BY DEF Stream, past
<1>6. QED
  BY <1>3, <1>4, <1>5 DEF Held

\* The accounts are right from before the connection exists until it is gone.
AccountInv ==
    \A c \in Clients : conn[c] \in {"none", "open"} =>
        due[c] = Held(c) \cup dropped[c] \cup Pending(c)

\* No step moves an event from one account to none, or to two that differ.
LEMMA AccountStep ==
    ASSUME HubInv, AccountInv, [Next]_vars
    PROVE  AccountInv'
<1> DEFINE Sum(c) == Held(c) \cup dropped[c] \cup Pending(c)
           Fresh(c) == conn[c] \in {"none", "open"}
<1>1. \A c \in Clients : Fresh(c) => due[c] = Sum(c)
  BY DEF AccountInv
<1>2. ASSUME NEW c \in Clients,
             UNCHANGED <<delivered, inHand, sendq, dropped, next, unsent>>
      PROVE  Sum(c)' = Sum(c)
  BY <1>2 DEF Held, Pending
<1>3. ASSUME NEW c \in Clients, delivered'[c] = delivered[c], inHand'[c] = inHand[c],
             sendq'[c] = sendq[c]
      PROVE  Held(c)' = Held(c)
  BY <1>3 DEF Held
<1> HIDE DEF Sum
<1>4. ASSUME NEW room \in Rooms, BroadcastBegin(room) PROVE AccountInv'
  <2>1. /\ unsent = {} /\ unsent' = {c \in Clients : Registered(c) /\ RoomOf[c] = room}
        /\ due' = [c \in Clients |->
                    IF RoomOf[c] = room /\ Registered(c) THEN due[c] \cup {next'} ELSE due[c]]
        /\ UNCHANGED <<sendq, dropped, conn, inHand, delivered>>
    BY <1>4 DEF BroadcastBegin, HubInv, MutexInv, RoomsAreExact, socket
  <2>2. ASSUME NEW c \in Clients PROVE Sum(c) = Held(c) \cup dropped[c]
    BY <2>1 DEF Sum, Pending
  <2>3. ASSUME NEW c \in Clients
        PROVE  Sum(c)' = Held(c) \cup dropped[c] \cup (IF c \in unsent' THEN {next'} ELSE {})
    BY <1>3, <2>1 DEF Sum, Pending
  <2>4. ASSUME NEW c \in Clients, Fresh(c)' PROVE due'[c] = Sum(c)'
    BY <1>1, <2>1, <2>2, <2>3, <2>4
  <2>5. QED
    BY <2>4 DEF AccountInv, Sum
<1>5. ASSUME NEW c \in Clients, BroadcastSend(c) PROVE AccountInv'
  <2>1. /\ c \in unsent /\ unsent' = unsent \ {c}
        /\ UNCHANGED <<next, due, conn, inHand, delivered>>
    BY <1>5 DEF BroadcastSend, socket
  <2>2. next \in Events /\ sendq[c] \in Seq(Events)
    BY <2>1 DEF HubInv, MutexInv, TypeOK
  <2>3. ASSUME NEW d \in Clients, d # c PROVE Sum(d)' = Sum(d)
    <3>1. sendq'[d] = sendq[d] /\ dropped'[d] = dropped[d]
      BY <1>5, <2>3 DEF BroadcastSend, SendOrDrop, HubInv, TypeOK
    <3>2. Held(d)' = Held(d) /\ Pending(d)' = Pending(d)
      BY <1>3, <2>1, <2>3, <3>1 DEF Pending
    <3>3. QED
      BY <3>1, <3>2 DEF Sum
  <2>4. Sum(c) = Held(c) \cup dropped[c] \cup {next} /\ Sum(c)' = Held(c)' \cup dropped'[c]
    BY <2>1 DEF Sum, Pending
  <2>5. CASE Len(sendq[c]) < SendCap
    <3>1. sendq'[c] = Append(sendq[c], next) /\ UNCHANGED dropped
      BY <1>5, <2>5 DEF BroadcastSend, SendOrDrop, HubInv, TypeOK
    <3>2. Append(sendq[c], next) = sendq[c] \o <<next>>
      BY <2>2, AppendIsConcat, Zenon
    <3>3. <<next>> \in Seq(Events)
      BY <2>2
    <3>4. Items(sendq[c] \o <<next>>) = Items(sendq[c]) \cup Items(<<next>>)
      BY <2>2, <3>3, ItemsOfConcat
    <3>5. Items(sendq'[c]) = Items(sendq[c]) \cup {next}
      BY <3>1, <3>2, <3>4, FewItems
    <3>6. Held(c)' = Held(c) \cup {next}
      BY <2>1, <3>5 DEF Held
    <3>7. QED
      BY <1>1, <2>1, <2>3, <2>4, <3>1, <3>6 DEF AccountInv, Sum
  <2>6. CASE ~(Len(sendq[c]) < SendCap)
    <3>1. dropped'[c] = dropped[c] \cup {next} /\ UNCHANGED sendq
      BY <1>5, <2>6 DEF BroadcastSend, SendOrDrop, HubInv, TypeOK
    <3>2. Held(c)' = Held(c)
      BY <1>3, <2>1, <3>1
    <3>3. QED
      BY <1>1, <2>1, <2>3, <2>4, <3>1, <3>2 DEF AccountInv, Sum
  <2>7. QED
    BY <2>5, <2>6
<1>6. ASSUME NEW c \in Clients, Take(c) PROVE AccountInv'
  <2>1. /\ inHand[c] = <<>> /\ sendq[c] # <<>> /\ sendq[c] \in Seq(Events)
        /\ UNCHANGED <<next, unsent, due, dropped, conn, delivered>>
    BY <1>6 DEF Take, HubInv, PumpInv, TypeOK, hub
  <2>2. /\ inHand'[c] = <<Head(sendq[c])>> /\ sendq'[c] = Tail(sendq[c])
        /\ \A d \in Clients : d # c => inHand'[d] = inHand[d] /\ sendq'[d] = sendq[d]
    BY <1>6 DEF Take, HubInv, TypeOK
  <2>3. Head(sendq[c]) \in Events /\ Tail(sendq[c]) \in Seq(Events)
    BY <2>1, HeadTailProperties
  <2>4. <<Head(sendq[c])>> \in Seq(Events)
    BY <2>3
  <2>5. <<Head(sendq[c])>> \o Tail(sendq[c]) = sendq[c]
    BY <2>1, HeadThenTail
  <2>6. Items(sendq[c]) = Items(inHand'[c]) \cup Items(sendq'[c])
    <3> DEFINE h == <<Head(sendq[c])>>
               t == Tail(sendq[c])
    <3>1. h \in Seq(Events) /\ t \in Seq(Events) /\ h \o t = sendq[c]
      BY <2>3, <2>4, <2>5
    <3> HIDE DEF h, t
    <3>2. Items(h \o t) = Items(h) \cup Items(t)
      BY <3>1, ItemsOfConcat
    <3>3. inHand'[c] = h /\ sendq'[c] = t
      BY <2>2 DEF h, t
    <3>4. QED
      BY <3>1, <3>2, <3>3
  <2>7. Held(c)' = Held(c)
    BY <2>1, <2>6, FewItems DEF Held
  <2>8. \A d \in Clients : Sum(d)' = Sum(d)
    BY <1>3, <2>1, <2>2, <2>7 DEF Sum, Pending
  <2>9. QED
    BY <1>1, <2>1, <2>8 DEF AccountInv, Sum
<1>7. ASSUME NEW c \in Clients, Write(c) PROVE AccountInv'
  <2>1. UNCHANGED <<next, unsent, due, dropped, conn, sendq>>
    BY <1>7 DEF Write, hub
  <2>2. ASSUME NEW d \in Clients, d # c PROVE Sum(d)' = Sum(d)
    <3>1. inHand'[d] = inHand[d] /\ delivered'[d] = delivered[d]
      BY <1>7, <2>2 DEF Write, HubInv, TypeOK
    <3>2. Held(d)' = Held(d)
      BY <1>3, <2>1, <3>1
    <3>3. QED
      BY <2>1, <3>2 DEF Sum, Pending
  <2>3. CASE conn[c] = "open"
    <3>1. inHand'[c] = <<>> /\ delivered'[c] = delivered[c] \o inHand[c]
      BY <1>7, <2>3 DEF Write, HubInv, TypeOK
    <3>2. Items(delivered'[c]) = Items(delivered[c]) \cup Items(inHand[c])
      BY <3>1, ItemsOfConcat DEF HubInv, TypeOK
    <3>3. Held(c)' = Held(c)
      BY <2>1, <3>1, <3>2, FewItems DEF Held
    <3>4. Sum(c)' = Sum(c)
      BY <2>1, <3>3 DEF Sum, Pending
    <3>5. QED
      BY <1>1, <2>1, <2>2, <3>4 DEF AccountInv, Sum
  <2>4. CASE conn[c] = "silent"
    BY <1>1, <2>1, <2>2, <2>4 DEF AccountInv, Sum
  <2>5. QED
    BY <1>7, <2>3, <2>4 DEF Write
<1>8. ASSUME NEW c \in Clients, StopWriting(c) PROVE AccountInv'
  <2>1. /\ conn'[c] = "shut" /\ UNCHANGED <<next, unsent, due, dropped, delivered, sendq>>
        /\ \A d \in Clients : d # c => inHand'[d] = inHand[d] /\ conn'[d] = conn[d]
    BY <1>8 DEF StopWriting, HubInv, TypeOK, hub
  <2>2. \A d \in Clients : d # c => Sum(d)' = Sum(d)
    BY <1>3, <2>1 DEF Sum, Pending
  <2>3. QED
    BY <1>1, <2>1, <2>2 DEF AccountInv, Sum
<1>9. ASSUME NEW c \in Clients,
              Connect(c) \/ PeerLeaves(c) \/ Register(c) \/ Unregister(c) \/ ReadFails(c)
       PROVE  AccountInv'
  <2>1. UNCHANGED <<delivered, inHand, sendq, dropped, next, unsent, due>>
    BY <1>9 DEF Connect, PeerLeaves, Register, Unregister, ReadFails, hub
  <2>2. \A d \in Clients : Fresh(d)' => Fresh(d)
    BY <1>9 DEF Connect, PeerLeaves, Register, Unregister, ReadFails, HubInv, TypeOK
  <2>3. QED
    BY <1>1, <1>2, <2>1, <2>2 DEF AccountInv, Sum
<1>10. CASE BroadcastEnd \/ UNCHANGED vars
  <2>1. UNCHANGED <<delivered, inHand, sendq, dropped, next, unsent, due, conn>>
    BY <1>10 DEF BroadcastEnd, vars, hub, socket
  <2>2. QED
    BY <1>1, <1>2, <2>1 DEF AccountInv, Sum
<1>11. QED
  BY <1>4, <1>5, <1>6, <1>7, <1>8, <1>9, <1>10
  DEF Next, Broadcasting, WriterStep, WriteFails, ChannelClosed

\* hub.go:76-98: on a connection that is up every event broadcast to
\* its room since it registered is delivered, on its way or was dropped at
\* its full buffer, and nothing else is.
THEOREM EveryEventIsAccountedFor == Spec => []Accounted
<1>1. Init => AccountInv
  <2>1. Init => \A c \in Clients : Held(c) = {} /\ Pending(c) = {}
    BY FewItems DEF Init, Held, Pending
  <2>2. QED
    BY <2>1 DEF Init, AccountInv
<1>2. HubInv /\ AccountInv /\ [Next]_vars => AccountInv'
  BY AccountStep
<1>3. HubInv /\ AccountInv => Accounted
  BY StreamIsHeld DEF HubInv, AccountInv, Accounted, Items, Pending
<1>4. QED
  BY <1>1, <1>2, <1>3, HubInductive, PTL DEF Spec
==============================================================================
