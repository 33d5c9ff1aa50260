------------------------------ MODULE PushFeed -------------------------------
(***************************************************************************)
(* What the push side of the API promises the browsers connected to it,    *)
(* whatever goroutines and buffers are behind it: an event that is         *)
(* published while a client has a seat in its room is owed to that client, *)
(* and what is owed is delivered in publication order and once.  An owed   *)
(* event is given up in two ways only: the newest one, when more than      *)
(* SendCap are outstanding, and any of them once the peer is gone.         *)
(***************************************************************************)
EXTENDS Naturals, Sequences

CONSTANTS
    Clients,    \* the connections there will be
    Rooms,
    RoomOf,     \* the room each connection asks for
    SendCap,    \* how many events may be outstanding before one is dropped
    MaxEvents   \* bound of the model: events there will be

VARIABLES
    published,  \* the number of the last event published
    peer,       \* what is at the other end: nobody yet, somebody, nobody any more
    seat,       \* whether the client is registered
    feed,       \* the events owed, oldest first
    got         \* the events delivered, in order

feedVars == <<published, peer, seat, feed, got>>

FeedInit ==
    /\ published = 0
    /\ peer = [c \in Clients |-> "none"]
    /\ seat = [c \in Clients |-> "none"]
    /\ feed = [c \in Clients |-> <<>>]
    /\ got = [c \in Clients |-> <<>>]

Connect(c) ==
    /\ peer[c] = "none"
    /\ peer' = [peer EXCEPT ![c] = "up"]
    /\ UNCHANGED <<published, seat, feed, got>>

TakeSeat(c) ==
    /\ peer[c] # "none" /\ seat[c] = "none"
    /\ seat' = [seat EXCEPT ![c] = "taken"]
    /\ UNCHANGED <<published, peer, feed, got>>

Publish(room) ==
    /\ published < MaxEvents
    /\ published' = published + 1
    /\ feed' = [c \in Clients |->
                 IF seat[c] = "taken" /\ RoomOf[c] = room
                 THEN Append(feed[c], published') ELSE feed[c]]
    /\ UNCHANGED <<peer, seat, got>>

Deliver(c) ==
    /\ peer[c] = "up" /\ feed[c] # <<>>
    /\ got' = [got EXCEPT ![c] = Append(@, Head(feed[c]))]
    /\ feed' = [feed EXCEPT ![c] = Tail(@)]
    /\ UNCHANGED <<published, peer, seat>>

Drop(c) ==
    /\ Len(feed[c]) > SendCap
    /\ feed' = [feed EXCEPT ![c] = SubSeq(@, 1, Len(@) - 1)]
    /\ UNCHANGED <<published, peer, seat, got>>

Lose(c) ==
    /\ peer[c] = "gone" /\ feed[c] # <<>>
    /\ feed' = [feed EXCEPT ![c] = Tail(@)]
    /\ UNCHANGED <<published, peer, seat, got>>

Hangup(c) ==
    /\ peer[c] = "up"
    /\ peer' = [peer EXCEPT ![c] = "gone"]
    /\ UNCHANGED <<published, seat, feed, got>>

LeaveSeat(c) ==
    /\ peer[c] = "gone" /\ seat[c] = "taken"
    /\ seat' = [seat EXCEPT ![c] = "left"]
    /\ UNCHANGED <<published, peer, feed, got>>

FeedNext ==
    \/ \E room \in Rooms : Publish(room)
    \/ \E c \in Clients :
        \/ Connect(c)
        \/ TakeSeat(c)
        \/ Deliver(c)
        \/ Drop(c)
        \/ Lose(c)
        \/ Hangup(c)
        \/ LeaveSeat(c)

FeedSpec == FeedInit /\ [][FeedNext]_feedVars
==============================================================================
