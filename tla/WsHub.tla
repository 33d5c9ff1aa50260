-------------------------------- MODULE WsHub --------------------------------
(***************************************************************************)
(* The push side of the API: the goroutine that consumes FileReadyEvents   *)
(* broadcasts each to the clients of one room, while connections come, go  *)
(* and fall silent.  Every connection has two goroutines: readPump, which  *)
(* notices the end of the connection and unregisters the client, and       *)
(* writePump, which drains the client's buffered channel.                  *)
(*                                                                         *)
(* Hub.mu guards `rooms`.  Register and Unregister do all their work under *)
(* it and are one step each; Broadcast sends to one client at a time, and  *)
(* writers receive in between.  Events are numbered in publication order.  *)
(***************************************************************************)
EXTENDS Naturals, Sequences

CONSTANTS
    Clients,    \* the connections there will be
    Rooms,
    RoomOf,     \* the room each connection asks for
    SendCap,    \* capacity of Client.Send
    MaxEvents   \* bound of the model: FileReadyEvents there will be

ASSUME HubAssumption ==
    /\ RoomOf \in [Clients -> Rooms]
    /\ SendCap \in Nat \ {0}
    /\ MaxEvents \in Nat

VARIABLES
    rooms,      \* Hub.rooms: the clients of every room that has an entry
    locked,     \* Hub.mu
    next,       \* number of the event being broadcast, or of the last one
    unsent,     \* clients the running Broadcast has not come to yet
    sendq,      \* Client.Send: the buffered events
    closed,     \* clients whose Send channel is closed
    conn,       \* the connection, as the two ends see it
    reader,     \* readPump (and ServeWS before it)
    writer,     \* writePump
    inHand,     \* the event writePump has taken and not written yet
    delivered,  \* the events the browser got, in order
    due,        \* history: the events broadcast to the client's room since it registered
    dropped     \* history: the events dropped because its buffer was full

hub == <<rooms, locked, next, unsent>>
socket == <<conn, reader, writer, inHand, delivered>>
vars == <<hub, socket, sendq, closed, due, dropped>>

Events == 1 .. MaxEvents

TypeOK ==
    /\ DOMAIN rooms \subseteq Rooms
    /\ \A room \in DOMAIN rooms : rooms[room] \subseteq Clients
    /\ locked \in BOOLEAN
    /\ next \in 0 .. MaxEvents
    /\ unsent \subseteq Clients
    /\ sendq \in [Clients -> Seq(Events)]
    /\ \A c \in Clients : Len(sendq[c]) <= SendCap
    /\ closed \subseteq Clients
    /\ conn \in [Clients -> {"none", "open", "silent", "shut"}]
    /\ reader \in [Clients -> {"none", "upgraded", "reading", "leaving", "done"}]
    /\ writer \in [Clients -> {"none", "waiting", "writing", "done"}]
    /\ inHand \in [Clients -> Seq(Events)]
    /\ delivered \in [Clients -> Seq(Events)]
    /\ due \in [Clients -> SUBSET Events]
    /\ dropped \in [Clients -> SUBSET Events]

Init ==
    /\ rooms = [room \in {} |-> {}]
    /\ locked = FALSE
    /\ next = 0
    /\ unsent = {}
    /\ sendq = [c \in Clients |-> <<>>]
    /\ closed = {}
    /\ conn = [c \in Clients |-> "none"]
    /\ reader = [c \in Clients |-> "none"]
    /\ writer = [c \in Clients |-> "none"]
    /\ inHand = [c \in Clients |-> <<>>]
    /\ delivered = [c \in Clients |-> <<>>]
    /\ due = [c \in Clients |-> {}]
    /\ dropped = [c \in Clients |-> {}]

------------------------------------------------------------------------------
(* The hub.                                                                *)

Members(room) == IF room \in DOMAIN rooms THEN rooms[room] ELSE {}

WithMember(room, c) ==
    [x \in DOMAIN rooms \cup {room} |-> IF x = room THEN Members(room) \cup {c} ELSE rooms[x]]

\* The entry of a room goes with its last client.
\* Mutant: it stays.
WithoutMemberKept(room, c) == [rooms EXCEPT ![room] = @ \ {c}]
WithoutMember(room, c) ==
    IF rooms[room] = {c}
    THEN [x \in DOMAIN rooms \ {room} |-> rooms[x]]
    ELSE [rooms EXCEPT ![room] = @ \ {c}]

\* ServeWS after the upgrade: register, then start the two pumps.
Register(c) ==
    /\ reader[c] = "upgraded"
    /\ ~locked
    /\ rooms' = WithMember(RoomOf[c], c)
    /\ reader' = [reader EXCEPT ![c] = "reading"]
    /\ writer' = [writer EXCEPT ![c] = "waiting"]
    /\ UNCHANGED <<locked, next, unsent, sendq, closed, conn, inHand, delivered, due, dropped>>

\* Mutant: Unregister does not take the mutex.
UnregisterUnlocked(c) ==
    /\ reader[c] = "leaving"
    /\ rooms' = WithoutMember(RoomOf[c], c)
    /\ closed' = closed \cup {c}
    /\ reader' = [reader EXCEPT ![c] = "done"]
    /\ conn' = [conn EXCEPT ![c] = "shut"]
    /\ UNCHANGED <<locked, next, unsent, sendq, writer, inHand, delivered, due, dropped>>

Unregister(c) ==
    /\ reader[c] = "leaving"
    /\ ~locked
    /\ IF c \in Members(RoomOf[c])
       THEN rooms' = WithoutMember(RoomOf[c], c) /\ closed' = closed \cup {c}
       ELSE UNCHANGED <<rooms, closed>>
    /\ reader' = [reader EXCEPT ![c] = "done"]
    /\ conn' = [conn EXCEPT ![c] = "shut"]
    /\ UNCHANGED <<locked, next, unsent, sendq, writer, inHand, delivered, due, dropped>>

Registered(c) == reader[c] \in {"reading", "leaving"}

\* The consumer takes the next event, which is about a file of `room`.
BroadcastBegin(room) ==
    /\ ~locked
    /\ next < MaxEvents
    /\ next' = next + 1
    /\ locked' = TRUE
    /\ unsent' = Members(room)
    /\ due' = [c \in Clients |->
                IF RoomOf[c] = room /\ Registered(c) THEN due[c] \cup {next'} ELSE due[c]]
    /\ UNCHANGED <<rooms, sendq, closed, dropped, socket>>

\* Mutants: send past the capacity; wait for room; drop the oldest.
SendUnbounded(c) == sendq' = [sendq EXCEPT ![c] = Append(@, next)] /\ UNCHANGED dropped
SendOrWait(c) ==
    /\ Len(sendq[c]) < SendCap
    /\ sendq' = [sendq EXCEPT ![c] = Append(@, next)]
    /\ UNCHANGED dropped
DropOldest(c) ==
    sendq' = [sendq EXCEPT ![c] = Append(IF Len(@) < SendCap THEN @ ELSE Tail(@), next)]
        /\ UNCHANGED dropped

\* select { case c.Send <- data: default: drop }
SendOrDrop(c) ==
    IF Len(sendq[c]) < SendCap
    THEN sendq' = [sendq EXCEPT ![c] = Append(@, next)] /\ UNCHANGED dropped
    ELSE dropped' = [dropped EXCEPT ![c] = @ \cup {next}] /\ UNCHANGED sendq

\* One iteration of the loop over the room, in the map's arbitrary order.
BroadcastSend(c) ==
    /\ locked /\ c \in unsent
    /\ SendOrDrop(c)
    /\ unsent' = unsent \ {c}
    /\ UNCHANGED <<rooms, locked, next, closed, due, socket>>

BroadcastEnd ==
    /\ locked /\ unsent = {}
    /\ locked' = FALSE
    /\ UNCHANGED <<rooms, next, unsent, sendq, closed, due, dropped, socket>>

------------------------------------------------------------------------------
(* A connection.                                                           *)

\* ServeWS up to the upgrade.
Connect(c) ==
    /\ conn[c] = "none"
    /\ conn' = [conn EXCEPT ![c] = "open"]
    /\ reader' = [reader EXCEPT ![c] = "upgraded"]
    /\ UNCHANGED <<hub, sendq, closed, writer, inHand, delivered, due, dropped>>

\* The browser closes the page, or the network is gone and nobody says so.
PeerLeaves(c) ==
    /\ conn[c] = "open"
    /\ \E end \in {"silent", "shut"} : conn' = [conn EXCEPT ![c] = end]
    /\ UNCHANGED <<hub, sendq, closed, reader, writer, inHand, delivered, due, dropped>>

\* ReadMessage fails: the connection is shut, or no pong within pongWait.
ReadFails(c) ==
    /\ reader[c] = "reading"
    /\ conn[c] # "open"
    /\ reader' = [reader EXCEPT ![c] = "leaving"]
    /\ UNCHANGED <<hub, sendq, closed, conn, writer, inHand, delivered, due, dropped>>

\* Mutant: the buffer is only flushed when the channel is closed.
TakeOnClose(c) ==
    /\ writer[c] = "waiting" /\ sendq[c] # <<>> /\ c \in closed
    /\ inHand' = [inHand EXCEPT ![c] = <<Head(sendq[c])>>]
    /\ sendq' = [sendq EXCEPT ![c] = Tail(@)]
    /\ writer' = [writer EXCEPT ![c] = "writing"]
    /\ UNCHANGED <<hub, closed, conn, reader, delivered, due, dropped>>

\* Mutant: the event stays in the buffer until it has been written.
TakePeeking(c) ==
    /\ writer[c] = "waiting" /\ sendq[c] # <<>>
    /\ inHand' = [inHand EXCEPT ![c] = <<Head(sendq[c])>>]
    /\ writer' = [writer EXCEPT ![c] = "writing"]
    /\ UNCHANGED <<hub, sendq, closed, conn, reader, delivered, due, dropped>>

\* writePump takes the next event; a closed channel still yields what it holds.
Take(c) ==
    /\ writer[c] = "waiting" /\ sendq[c] # <<>>
    /\ inHand' = [inHand EXCEPT ![c] = <<Head(sendq[c])>>]
    /\ sendq' = [sendq EXCEPT ![c] = Tail(@)]
    /\ writer' = [writer EXCEPT ![c] = "writing"]
    /\ UNCHANGED <<hub, closed, conn, reader, delivered, due, dropped>>

\* WriteMessage: delivered while the peer is there; with a silent peer it may
\* fill a buffer of the kernel and get no further.
Write(c) ==
    /\ writer[c] = "writing"
    /\ conn[c] \in {"open", "silent"}
    /\ delivered' = IF conn[c] = "open"
                    THEN [delivered EXCEPT ![c] = @ \o inHand[c]]
                    ELSE delivered
    /\ inHand' = [inHand EXCEPT ![c] = <<>>]
    /\ writer' = [writer EXCEPT ![c] = "waiting"]
    /\ UNCHANGED <<hub, sendq, closed, conn, reader, due, dropped>>

StopWriting(c) ==
    /\ writer' = [writer EXCEPT ![c] = "done"]
    /\ inHand' = [inHand EXCEPT ![c] = <<>>]
    /\ conn' = [conn EXCEPT ![c] = "shut"]
    /\ UNCHANGED <<hub, sendq, closed, reader, delivered, due, dropped>>

\* Mutant: a write that failed is tried again.
WriteFailsRetrying(c) ==
    /\ writer[c] = "waiting"
    /\ conn[c] # "open"
    /\ StopWriting(c)

\* A write or a ping fails: connection shut, or no room within writeWait.
WriteFails(c) ==
    /\ writer[c] \in {"waiting", "writing"}
    /\ conn[c] # "open"
    /\ StopWriting(c)

\* The channel is closed and empty: say goodbye.
ChannelClosed(c) ==
    /\ writer[c] = "waiting" /\ c \in closed /\ sendq[c] = <<>>
    /\ StopWriting(c)

------------------------------------------------------------------------------
Broadcasting == BroadcastEnd \/ \E c \in Clients : BroadcastSend(c)

WriterStep(c) == Take(c) \/ Write(c) \/ WriteFails(c) \/ ChannelClosed(c)

Next ==
    \/ \E room \in Rooms : BroadcastBegin(room)
    \/ Broadcasting
    \/ \E c \in Clients :
        \/ Connect(c)
        \/ PeerLeaves(c)
        \/ Register(c)
        \/ Unregister(c)
        \/ ReadFails(c)
        \/ WriterStep(c)

Spec == Init /\ [][Next]_vars

(* Goroutines that can run do; a goroutine waiting for Hub.mu gets it even *)
(* if it is taken again and again (sync.Mutex hands over to a starved      *)
(* waiter); the deadlines of the socket expire.  Browsers owe nothing.     *)
Fairness ==
    /\ WF_vars(Broadcasting)
    /\ \A c \in Clients :
        /\ SF_vars(Register(c))
        /\ SF_vars(Unregister(c))
        /\ WF_vars(ReadFails(c))
        /\ WF_vars(WriterStep(c))

FairSpec == Spec /\ Fairness

------------------------------------------------------------------------------
(* What the hub implements: PushFeed.  What is owed to a client is what its *)
(* writer has in hand, then its buffer, then the event of a Broadcast that  *)
(* has yet to come to it.                                                   *)

OwedBy(c) == inHand[c] \o sendq[c] \o (IF c \in unsent THEN <<next>> ELSE <<>>)

Peer(c) == CASE conn[c] = "none" -> "none"
             [] conn[c] = "open" -> "up"
             [] OTHER -> "gone"

Seat(c) == IF Registered(c) THEN "taken" ELSE IF reader[c] = "done" THEN "left" ELSE "none"

Feed == INSTANCE PushFeed WITH
    published <- next,
    peer <- [c \in Clients |-> Peer(c)],
    seat <- [c \in Clients |-> Seat(c)],
    feed <- [c \in Clients |-> OwedBy(c)],
    got <- delivered

\* Whatever the goroutines do, a browser gets the events of its room in publication
\* order and once; one is skipped only because the buffer of that very client was full,
\* and the rest is lost only with its connection (README.md:16).
FeedSpec == Feed!FeedSpec

------------------------------------------------------------------------------
(* Properties.                                                             *)

\* A Broadcast in progress never comes to a client whose channel has been closed:
\* the send would panic and take the API process down.
NeverSendsOnClosed == unsent \cap closed = {}

\* The hub knows exactly the clients that have registered and not yet left, each
\* under its room, and keeps no entry for a room nobody is in.
RoomsAreExact ==
    /\ \A room \in Rooms : Members(room) = {c \in Clients : Registered(c) /\ RoomOf[c] = room}
    /\ \A room \in DOMAIN rooms : rooms[room] # {}

Stream(c) == delivered[c] \o inHand[c] \o sendq[c]

\* As long as the connection is up, every event broadcast to the room since the
\* client registered is delivered, on its way, or was dropped at a full buffer, and
\* nothing else is.
Accounted ==
    \A c \in Clients : conn[c] = "open" =>
        due[c] = {Stream(c)[i] : i \in 1 .. Len(Stream(c))} \cup dropped[c]
                    \cup (IF c \in unsent THEN {next} ELSE {})

\* A connection that ends, noisily or not, is forgotten by the hub and leaves no
\* goroutine behind.
NoLeak ==
    \A c \in Clients :
        conn[c] \in {"silent", "shut"} ~> reader[c] = "done" /\ writer[c] = "done"

\* No client, however slow or dead, keeps the hub locked.
HubComesFree == locked ~> ~locked

\* What is in a client's buffer is written unless its connection ends.
BufferDrains ==
    \A c \in Clients : sendq[c] # <<>> ~> sendq[c] = <<>> \/ conn[c] # "open"
==============================================================================
